\* Every kind of test, in a simulator that may fail up to three times.
SPECIFICATION Spec
CONSTANTS
    Programs <- MCPrograms
    UsesCompiler2 = TRUE
    SkipOptimization = FALSE
    SimFailures = 3
INVARIANTS
    VerdictIsRight
PROPERTIES
    IsJudged
CHECK_DEADLOCK FALSE
