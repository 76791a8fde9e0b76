SPECIFICATION Spec
CONSTANTS
    Limit = 2
    MaxFaults = 1
    Requests <- MCImports
    Catalogs <- MCWhole
INVARIANT ImportIsRolledBack
CHECK_DEADLOCK FALSE
