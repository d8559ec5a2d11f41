\* Expected to fail: slow GetBlockCount calls are not counted, so the wait
\* runs past the timeout.
CONSTANTS
    Timeout = 6
    MaxCall = 2
SPECIFICATION Spec
CHECK_DEADLOCK FALSE
INVARIANTS
    ReturnsWithinTimeout
