SPECIFICATION FairSpec
CONSTANTS
    Supers <- MCSupers
    MaxWidenDepth = 2
    NumberMax = 10
    FloatMax = 5
    DoubleMax = 20
    Arguments <- MCArguments
    Programs <- MCPrograms
    Values <- MCValues
    Universe <- Types
    WidenAfter = 3
    MaxNesting = 2
CHECK_DEADLOCK FALSE
INVARIANTS
    Sound
    EquivalentAreEqual
    ComparesRightly
PROPERTIES
    Ends
