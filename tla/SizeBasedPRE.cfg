SPECIFICATION SpecAll
CONSTANTS
    Vars = {"x", "y"}
    Consts = {"k"}
    Named <- MCNamed
    EffectsOf <- MCEffects
    ApiFunctions = {"api"}
    Invokers = {"api"}
    Exposed = {"e"}
    Functions <- AllFunctions
    Programs <- Rewritable
INVARIANTS
    EveryPathIsInGraph
    RemovedIsNeverRun
    NoOtherPath
    EdgesHaveTwoEnds
    SameReads
    InStep
    Smaller
PROPERTIES
    Ends
CHECK_DEADLOCK FALSE
