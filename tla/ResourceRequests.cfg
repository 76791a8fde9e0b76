SPECIFICATION Spec
CONSTANTS
    Limit = 2
    MaxFaults = 2
    Requests <- MCRequests
    Catalogs <- MCCatalogs
INVARIANT TypeOK
INVARIANT NothingLeft
INVARIANT Promised
INVARIANT SuccessMeansDone
INVARIANT Unhindered
INVARIANT NotFoundMeansGone
PROPERTY ErrorStands
PROPERTY SparesOthers
PROPERTY Answered
CHECK_DEADLOCK FALSE
