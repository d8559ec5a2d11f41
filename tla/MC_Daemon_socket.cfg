\* Same instance as MC_Daemon.cfg; the program's end states are real.
CONSTANTS
    TxIds <- MCTxIds
    Topics <- MCTopics
    Messages <- MCMessages
    StoredVersions <- MCStoredVersions
    MaxMsgs = 2
SPECIFICATION Spec
CHECK_DEADLOCK FALSE
PROPERTIES
    SocketEventuallyClosed
