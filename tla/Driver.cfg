\* Tests two at a time with a pool; exports and tests one at a time.
SPECIFICATION Spec
CONSTANTS
    Jobs <- MCJobs
INVARIANTS
    NobodyStranded
    OneSimulator
    AllBuilt
PROPERTIES
    Finishes
CHECK_DEADLOCK FALSE
