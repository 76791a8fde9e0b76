SPECIFICATION FairSpec
CONSTANTS
    c1 = c1
    c2 = c2
    t1 = t1
    t2 = t2
    k1 = k1
    k2 = k2
    Cluster <- OneCluster
    Thread <- TwoThreads
    Checker <- OneChecker
    Notice = Notice
    Ops <- NoException
    Faults = {}
    MaxVersion = 1
    NoRow = NoRow
    Free = Free
PROPERTY RequestsEnd
PROPERTY ChecksRecur
