\* Two sources and a dependency: edits between any two steps, crashes too unless the old outputs are being removed.
SPECIFICATION Spec
CONSTANTS
    McFiles = {a, b}
    Personality = {}
    Deps = {d}
    Compared = {x, y}
    MaxTime = 3
    MaxEdits = 2
    MaxCrashes = 1
    CrashesIn = {"compare", "stat", "decide", "read", "write", "seal"}
SYMMETRY MCSymmetry
PROPERTIES
    ReturnsCurrent
    NoNeedlessWork
