-------------------------------- MODULE Script --------------------------------
(***************************************************************************)
(* Bitcoin scripts as parseBlock of bademeister-go reads them: the pushes  *)
(* txscript.PushedData finds in a coinbase's signature script, the        *)
(* coinbase height rule of the design, and the height Bitcoin Core writes *)
(* under BIP34.                                                            *)
(***************************************************************************)
EXTENDS Integers, Sequences

Byte == 0..255

Tx == [coinbase: BOOLEAN, script: Seq(Byte)]

(* Opcodes of txscript that PushedData tells apart. *)
OP_0         == 0
OP_DATA_75   == 75
OP_PUSHDATA1 == 76
OP_PUSHDATA2 == 77
OP_PUSHDATA4 == 78

(* The unsigned little-endian value of a byte sequence. *)
LE(bs) ==
    LET v[j \in 0..Len(bs)] == IF j = 0 THEN 0 ELSE v[j - 1] + bs[j] * 256^(j - 1)
    IN  v[Len(bs)]

(* The opcode at position i of script s as the script parser reads it:    *)
(* the position of its data, the data length (-1 when the length bytes of *)
(* a PUSHDATA are cut off), whether it yields an item of PushedData, and  *)
(* whether that item is the nil slice of OP_0.                            *)
Opcode(s, i) ==
    LET op == s[i]
        lb == CASE op = OP_PUSHDATA1 -> 1
                [] op = OP_PUSHDATA2 -> 2
                [] op = OP_PUSHDATA4 -> 4
                [] OTHER             -> 0
        n  == CASE op \in 1..OP_DATA_75 -> op
                [] i + lb > Len(s)       -> -1
                [] OTHER                 -> LE(SubSeq(s, i + 1, i + lb))
    IN  [start |-> i + 1 + lb, n |-> n, push |-> op <= OP_PUSHDATA4, nil |-> op = OP_0]

Malformed == [ok |-> FALSE, items |-> <<>>]

(* txscript.PushedData: the data items of every push of the script, in    *)
(* order, or an error when a push runs past the end of the script.  An    *)
(* item is the record Opcode gives for its push.                          *)
PushedData(s) ==
    LET P[i \in 1..Len(s) + 1] ==
            IF i > Len(s) THEN [ok |-> TRUE, items |-> <<>>]
            ELSE LET o == Opcode(s, i)
                 IN  IF o.n < 0 \/ o.start + o.n > Len(s) + 1 THEN Malformed
                     ELSE LET r == P[o.start + o.n]
                          IN  IF r.ok /\ o.push
                              THEN [r EXCEPT !.items = <<o>> \o @]
                              ELSE r
    IN  P[1]

(* t.TxHash(): the double SHA-256 of the serialised transaction, modelled *)
(* as the identity on transactions, which keeps it injective.              *)
TxHash(t) == t

(* The coinbase height rule of the design, on the block as received: the *)
(* indices of its coinbases, whether every coinbase script has exactly   *)
(* two pushes, and the height its last coinbase encodes: the first push, *)
(* right-padded with zero bytes, read as a little-endian uint32.         *)
Coinbases(b) == {j \in DOMAIN b : b[j].coinbase}

RuleAccepts(b) ==
    /\ Coinbases(b) /= {}
    /\ \A j \in Coinbases(b) : LET p == PushedData(b[j].script)
                               IN  p.ok /\ Len(p.items) = 2

RuleHeight(b) ==
    LET j == CHOOSE j \in Coinbases(b) : \A i \in Coinbases(b) : i <= j
        s == b[j].script
        d == PushedData(s).items[1]
        padded == SubSeq(s, d.start, d.start + d.n - 1) \o <<0, 0, 0, 0>>
    IN  LE(SubSeq(padded, 1, 4))

(* The height a coinbase script states under BIP34 as Bitcoin Core writes *)
(* it (CScript() << nHeight): OP_1..OP_16 for 1..16, otherwise a minimal  *)
(* push of the number.                                                     *)
BIP34Height(s) ==
    IF s[1] \in 81..96 THEN s[1] - 80 ELSE LE(SubSeq(s, 2, 1 + s[1]))
=============================================================================
