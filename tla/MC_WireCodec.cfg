\* One call of parseBlock: it returns, and the model ends there.
CONSTANTS
    Blocks <- MCBlocks
SPECIFICATION Spec
CHECK_DEADLOCK FALSE
INVARIANTS
    TypeOK
PROPERTIES
    ImplementsParseBlockSpec
