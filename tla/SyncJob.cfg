SPECIFICATION FairSpec
CONSTANTS
    j1 = j1
    j2 = j2
    Job <- TwoJobs
    NList = 2
    Faults = {"store", "broker", "crash"}
    MaxTime = 2
    MaxQueue = 1
    Free = Free
    Dead = Dead
    Zero = Zero
INVARIANT Inductive
INVARIANT OneJobRuns
INVARIANT DoneIsComplete
INVARIANT WorkIsVisible
PROPERTY JobsEnd
