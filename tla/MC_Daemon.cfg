\* The daemon stops for good when construction fails, when Run() returned
\* and the caller closed it, or when the process panicked; the goroutines
\* left blocked then are the program's own end state.
CONSTANTS
    TxIds <- MCTxIds
    Topics <- MCTopics
    Messages <- MCMessages
    StoredVersions <- MCStoredVersions
    MaxMsgs = 2
SPECIFICATION Spec
CHECK_DEADLOCK FALSE
INVARIANTS
    TypeOK
    ErrorPropagated
    NoSilentDrop
PROPERTIES
    FailFast
    ImplementsDaemonSpec
