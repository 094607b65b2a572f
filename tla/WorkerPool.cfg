\* Four tasks on two workers, with enough spares to replace every worker a
\* failing task kills; the process exits on an uncaught exception.
SPECIFICATION FairSpec
CONSTANTS
    w1 = w1
    w2 = w2
    Tasks = {t1, t2, t3, t4}
    Workers = {w1, w2, s1, s2, s3, s4}
    Initial <- MCInitial
    None = None
    MayNotStart = {s1}
    HostCatches = FALSE
INVARIANTS
    WorkConserving
    TaskInOnePlace
    OwnOutcome
    DeadIsReplaced
PROPERTIES
    SettleOnce
    Settles
    ImplementsService
CHECK_DEADLOCK FALSE
