\* Same instance as MC_Subscriber.cfg; Run() ending is a real terminal state.
CONSTANTS
    TxIds <- MCTxIds
    Topics <- MCTopics
    Messages <- MCMessages
    MaxMsgs = 3
SPECIFICATION Spec
CHECK_DEADLOCK FALSE
PROPERTIES
    FailureReturned
