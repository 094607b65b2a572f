\* A loop with two exits.
SPECIFICATION FairSpec
CONSTANTS
    x = x
    y = y
    g = g
    Locals = {x}
    Params = {x}
    Globals = {}
    None = None
    Graphs <- MCLoops
PROPERTIES
    Terminates
CHECK_DEADLOCK FALSE
