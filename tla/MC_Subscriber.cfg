\* Run() ends (on Stop, an error or a panic) and then nothing is runnable:
\* that end is a real terminal state of the subscriber, not a deadlock.
CONSTANTS
    TxIds <- MCTxIds
    Topics <- MCTopics
    Messages <- MCMessages
    MaxMsgs = 3
SPECIFICATION Spec
CHECK_DEADLOCK FALSE
INVARIANTS
    TypeOK
    RunResultSound
PROPERTIES
    StopEndsRun
    FailureEndsRun
    ImplementsSubscriberSpec
