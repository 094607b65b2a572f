\* Two exports at a time.
SPECIFICATION Spec
CONSTANTS
    Jobs <- MCExports
INVARIANTS
    NobodyStranded
CHECK_DEADLOCK FALSE
