--------------------------- MODULE MC_WireCodec ---------------------------
(* Every signature script of up to four bytes over an alphabet that has    *)
(* OP_0, the one- and two-byte data pushes, OP_PUSHDATA1, OP_1 and a data *)
(* byte with the high bit set, in a block alone, followed by a plain       *)
(* transaction, or missing.  Four bytes hold every push count, a padded   *)
(* one- and two-byte height, a push cut off, and a padding that writes    *)
(* over the next push's opcode.  No value read here exceeds 2^31.         *)
EXTENDS WireCodec

Alphabet == {0, 1, 2, 76, 81, 128}

Scripts == UNION {[1..n -> Alphabet] : n \in 0..4}

Coinbase(s) == [coinbase |-> TRUE, script |-> s]

Plain == [coinbase |-> FALSE, script |-> <<>>]

MCBlocks ==
    {<<>>, <<Plain>>}
    \cup {<<Coinbase(s)>> : s \in Scripts}
    \cup {<<Coinbase(s), Plain>> : s \in Scripts}
=============================================================================
