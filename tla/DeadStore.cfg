\* A parameter, a local and a global; stores of one of them with candidates of
\* copy propagation, copies between two of them without.
SPECIFICATION FairSpec
CONSTANTS
    x = x
    y = y
    g = g
    Locals = {x, y}
    Params = {x}
    Globals = {g}
    None = None
    Graphs <- MCAll
INVARIANTS
    DeadIsNeverRead
    OnlyRef
    AntIsReached
    MergedIsOwn
PROPERTIES
    TerminatesPlainly
CHECK_DEADLOCK FALSE
