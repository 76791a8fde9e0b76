SPECIFICATION FairSpec
CONSTANTS
    s1 = s1
    s2 = s2
    Service <- TwoServices
    ServiceOf <- FewServices
    Excludable <- FewExclusions
    Faults = {"db"}
INVARIANT Inductive
INVARIANT InactiveIffRemote
INVARIANT ActiveAnswered
INVARIANT WarningConfirmed
PROPERTY CheckEnds
