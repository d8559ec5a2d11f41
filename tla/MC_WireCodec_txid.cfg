\* One call of parseBlock per block of the test client; it returns.
\* Expected to fail: parseHeight pads the height push in place, over the
\* extra nonce push, before TxHash hashes the coinbase.
CONSTANTS
    Blocks <- MCBlocks
SPECIFICATION Spec
CHECK_DEADLOCK FALSE
INVARIANTS
    TxIDsMatchBlock
