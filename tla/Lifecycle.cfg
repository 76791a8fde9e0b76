SPECIFICATION Spec
CONSTANTS
    c1 = c1
    c2 = c2
    t1 = t1
    t2 = t2
    k1 = k1
    k2 = k2
    Cluster <- OneCluster
    Thread <- TwoThreads
    Checker <- OneChecker
    Notice = Notice
    Ops <- EveryOp
    Faults = {"store", "broker", "tx"}
    MaxVersion = 0
    NoRow = NoRow
    Free = Free
INVARIANT Inductive
INVARIANT SyncHasRow
INVARIANT NoSyncDuringDelete
PROPERTY OnlyExceptionRevives
PROPERTY ImplementsRegistry
SYMMETRY Symmetry
