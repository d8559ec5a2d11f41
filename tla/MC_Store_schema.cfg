\* Same instance as MC_Store.cfg.
CONSTANTS
    TxIds <- MCTxIds
    StoredVersions <- MCStoredVersions
    MaxOpens = 3
SPECIFICATION Spec
CHECK_DEADLOCK FALSE
INVARIANTS
    OpenedSchemaComplete
