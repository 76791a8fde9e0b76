CONSTANTS
    Res <- MCRes
    NoRes = "none"
    KindOf <- MCKindOf
    Home <- MCHome
    Form <- MCForm
    Start <- MCStart
    Scopes <- SnapshotScopes
    MaxEvent = 1
    MaxRound = 3
SPECIFICATION Spec
PROPERTY LiveRowsStay
