\* Two tasks that log up to five messages.
SPECIFICATION Spec
CONSTANTS
    Tasks = {t1, t2}
    MaxMessages = 5
INVARIANTS
    InOrder
    AnswerIsLast
PROPERTIES
    AllOut
CHECK_DEADLOCK FALSE
