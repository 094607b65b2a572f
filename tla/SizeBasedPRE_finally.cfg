SPECIFICATION SpecAll
CONSTANTS
    Vars = {"x", "y"}
    Consts = {"k"}
    Named <- MCNamed
    EffectsOf <- MCEffects
    ApiFunctions = {"api"}
    Invokers = {"api"}
    Exposed = {"e"}
    Functions <- FinallyFunctions
    Programs <- NoPrograms
INVARIANTS
    RemovedIsNeverRun
CHECK_DEADLOCK FALSE
