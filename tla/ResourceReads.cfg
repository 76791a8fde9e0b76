SPECIFICATION Spec
CONSTANTS
    Refs <- MCRefs
    Remote <- MCRemote
    External <- MCExternal
    Reads <- MCReads
    MaxEvents = 2
INVARIANT TypeOK
INVARIANT Honest
INVARIANT Faithful
INVARIANT PagesAddUp
INVARIANT ErrorsHaveCause
INVARIANT EmptyMeansNone
PROPERTY Answered
CHECK_DEADLOCK FALSE
