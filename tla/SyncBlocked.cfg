SPECIFICATION FairSpec
CONSTANTS
    j1 = j1
    j2 = j2
    Job <- TwoJobs
    NList = 1
    Faults = {}
    MaxTime = 2
    MaxQueue = 1
    Free = Free
    Dead = Dead
    Zero = Zero
PROPERTY SyncUnblocks
