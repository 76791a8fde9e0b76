CONSTANTS
    Res <- MCRes
    NoRes = "none"
    KindOf <- MCKindOf
    Home <- MCHome
    Form <- MCForm
    Start <- MCStart
    Scopes <- MCScopes
    MaxEvent = 2
    MaxRound = 3
SPECIFICATION Spec
INVARIANT TypeOK
INVARIANT SavesAreKept
INVARIANT DeletesGoThrough
INVARIANT NoRunaway
INVARIANT QuietJobMirrors
PROPERTY LiveRowsStay
PROPERTY ClusterCanGo
