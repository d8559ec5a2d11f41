\* One call of parseBlock per block of the test client; it returns.
\* Expected to fail: the coinbase of a block Bitcoin Core mined at height 1
\* is OP_1 followed by one push, and parseHeight rejects it.
CONSTANTS
    Blocks <- MCBlocks
SPECIFICATION Spec
CHECK_DEADLOCK FALSE
INVARIANTS
    MinedBlockDecodes
