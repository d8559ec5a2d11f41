\* A process whose NewStorage failed exits; once the NewStorage bound is
\* spent with the store closed nothing else happens, which is that exit.
CONSTANTS
    TxIds <- MCTxIds
    StoredVersions <- MCStoredVersions
    MaxOpens = 3
SPECIFICATION Spec
CHECK_DEADLOCK FALSE
INVARIANTS
    TypeOK
    OpenedVersionIsCurrent
PROPERTIES
    InitializeOnEmptyFile
