\* The function returns (ready, timed out or failed to build the client);
\* those are the real end states of the program.
CONSTANTS
    Timeout = 6
    MaxCall = 2
SPECIFICATION Spec
CHECK_DEADLOCK FALSE
INVARIANTS
    TypeOK
    GivesUpOnlyAfterTimeout
PROPERTIES
    WaitEnds
