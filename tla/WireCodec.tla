------------------------------ MODULE WireCodec ------------------------------
(***************************************************************************)
(* parseBlock of bademeister-go (package zmqsubscriber) at byte level.     *)
(*                                                                         *)
(* After BtcDecode, parseBlock walks the block's transactions in order.    *)
(* For every coinbase it calls parseHeight on the first input: the pushes  *)
(* of its signature script must number exactly two, and the first one is   *)
(* read as a little-endian uint32 after appending zero bytes until it is   *)
(* four bytes long.  Every transaction's TxHash is appended to txHashes    *)
(* after that.  A block without a coinbase is rejected (height < 0).       *)
(*                                                                         *)
(* A transaction is a record of whether it is a coinbase and the bytes of  *)
(* its first input's signature script; every other field of the wire      *)
(* format is fixed in a model and left out.  TxHash is a double SHA-256 of *)
(* the serialised transaction and is modelled as the identity on these     *)
(* records: what matters is that it is injective, and that it is computed  *)
(* from the script as it is when TxHash runs.                              *)
(*                                                                         *)
(* Slices: btcd's MsgTx.BtcDecode makes each signature script a full slice *)
(* scripts[offset:end:end] of one buffer, so its capacity ends with it,    *)
(* and txscript.PushedData returns two-index subslices of the script, so a *)
(* pushed data item starting at byte a has capacity len(script) - a.  The  *)
(* nil item of OP_0 has capacity 0.  append writes in place while the      *)
(* length is below the capacity.                                           *)
(***************************************************************************)
EXTENDS Script

CONSTANTS
    Blocks    \* the blocks BtcDecode may produce from a rawblock message

ASSUME WireCodecAssumption == Blocks \subseteq Seq(Tx)

(* heightLE := data[0][:]; for len(heightLE) < 4 { heightLE =             *)
(* append(heightLE, 0) }: the appends that fit in the capacity write zero *)
(* over the script bytes that follow the item; the rest go to a new array. *)
AppendZeros(s, d) ==
    [j \in DOMAIN s |-> IF ~d.nil /\ d.start + d.n <= j /\ j <= d.start + 3
                         THEN 0 ELSE s[j]]

(* binary.LittleEndian.Uint32(heightLE): the first four bytes of the item *)
(* followed by the appended zeros.                                         *)
Uint32(s, d) ==
    LET m == IF d.n < 4 THEN d.n ELSE 4
    IN  LE(SubSeq(s, d.start, d.start + m - 1))

VARIABLES
    pc,        \* "idle", "loop", "done"
    orig,      \* the block as BtcDecode produced it (kept for the properties)
    blk,       \* wireBlock.Transactions, as parseBlock leaves them
    k,         \* the index of the range loop
    height,    \* the local height
    txHashes,  \* the local txHashes
    result     \* "none", "ok" or "error": what parseBlock returned

vars == <<pc, orig, blk, k, height, txHashes, result>>

Init ==
    /\ pc = "idle"
    /\ orig = <<>>
    /\ blk = <<>>
    /\ k = 1
    /\ height = -1
    /\ txHashes = <<>>
    /\ result = "none"

(* parseBlock is called, and BtcDecode produces block b. *)
Receive(b) ==
    /\ pc = "idle"
    /\ pc' = "loop"
    /\ orig' = b
    /\ blk' = b
    /\ k' = 1
    /\ height' = -1
    /\ txHashes' = <<>>
    /\ result' = "none"

(* BtcDecode fails: parseBlock returns the error. *)
DecodeFails ==
    /\ pc = "idle"
    /\ pc' = "done"
    /\ orig' = <<>>
    /\ blk' = <<>>
    /\ k' = 1
    /\ height' = -1
    /\ txHashes' = <<>>
    /\ result' = "error"

(* A transaction that is not a coinbase: only its hash is collected. *)
PlainTx ==
    /\ pc = "loop"
    /\ k <= Len(blk)
    /\ ~blk[k].coinbase
    /\ txHashes' = Append(txHashes, TxHash(blk[k]))
    /\ k' = k + 1
    /\ UNCHANGED <<pc, orig, blk, height, result>>

(* A coinbase whose pushes do not parse or do not number two: parseBlock  *)
(* returns "error parsing coinbase".                                      *)
CoinbaseRejected ==
    /\ pc = "loop"
    /\ k <= Len(blk)
    /\ blk[k].coinbase
    /\ LET p == PushedData(blk[k].script)
       IN  ~p.ok \/ Len(p.items) /= 2
    /\ pc' = "done"
    /\ result' = "error"
    /\ UNCHANGED <<orig, blk, k, height, txHashes>>

(* Mutant: the coinbase's hash is not collected. *)
CoinbaseHeightNoHash ==
    /\ pc = "loop"
    /\ k <= Len(blk)
    /\ blk[k].coinbase
    /\ LET s == blk[k].script
           p == PushedData(s)
           d == p.items[1]
       IN  /\ p.ok /\ Len(p.items) = 2
           /\ height' = Uint32(s, d)
           /\ blk' = [blk EXCEPT ![k] = [blk[k] EXCEPT !.script = AppendZeros(s, d)]]
    /\ k' = k + 1
    /\ UNCHANGED <<pc, orig, result, txHashes>>

(* A coinbase whose pushes number two: parseHeight pads the first item in *)
(* place, reads the height, and TxHash then hashes the padded script.     *)
CoinbaseHeight ==
    /\ pc = "loop"
    /\ k <= Len(blk)
    /\ blk[k].coinbase
    /\ LET s == blk[k].script
           p == PushedData(s)
           d == p.items[1]
           t == [blk[k] EXCEPT !.script = AppendZeros(s, d)]
       IN  /\ p.ok /\ Len(p.items) = 2
           /\ height' = Uint32(s, d)
           /\ blk' = [blk EXCEPT ![k] = t]
           /\ txHashes' = Append(txHashes, TxHash(t))
    /\ k' = k + 1
    /\ UNCHANGED <<pc, orig, result>>

(* After the loop: a block without a coinbase is rejected. *)
HeightNotFound ==
    /\ pc = "loop"
    /\ k > Len(blk)
    /\ height < 0
    /\ pc' = "done"
    /\ result' = "error"
    /\ UNCHANGED <<orig, blk, k, height, txHashes>>

(* Mutant: the height < 0 check is dropped. *)
AcceptNoCheck ==
    /\ pc = "loop"
    /\ k > Len(blk)
    /\ pc' = "done"
    /\ result' = "ok"
    /\ UNCHANGED <<orig, blk, k, height, txHashes>>

Accept ==
    /\ pc = "loop"
    /\ k > Len(blk)
    /\ height >= 0
    /\ pc' = "done"
    /\ result' = "ok"
    /\ UNCHANGED <<orig, blk, k, height, txHashes>>

Next ==
    \/ \E b \in Blocks : Receive(b)
    \/ DecodeFails
    \/ PlainTx
    \/ CoinbaseRejected
    \/ CoinbaseHeight
    \/ HeightNotFound
    \/ Accept

(* parseBlock is straight-line code on its own goroutine: once a block  *)
(* has arrived, the loop runs to its return.                             *)
Spec ==
    /\ Init /\ [][Next]_vars
    /\ WF_vars(PlainTx \/ CoinbaseRejected \/ CoinbaseHeight \/ HeightNotFound \/ Accept)

-----------------------------------------------------------------------------
(* The type of the variables.  One hash is collected per transaction the *)
(* loop has passed, and parseHeight changes no transaction's shape.      *)
TypeOK ==
    /\ pc \in {"idle", "loop", "done"}
    /\ orig \in Seq(Tx) /\ blk \in Seq(Tx)
    /\ Len(blk) = Len(orig)
    /\ k \in 1..Len(blk) + 1
    /\ height \in Int
    /\ txHashes \in Seq(Tx)
    /\ (pc = "loop" \/ result = "ok") => Len(txHashes) = k - 1
    /\ result \in {"none", "ok", "error"}

(* The detailed parseBlock seen as ParseBlockSpec: the loop's steps are *)
(* stutters, and its return is the one Decide step.                       *)
PB == INSTANCE ParseBlockSpec WITH
        apc <- IF pc = "loop" THEN "busy" ELSE pc,
        ablock <- orig,
        aresult <- IF pc = "done" THEN result ELSE "none",
        aheight <- IF pc = "done" /\ result = "ok" THEN height ELSE -1,
        acount <- IF pc = "done" /\ result = "ok" THEN Len(txHashes) ELSE 0

(* parseBlock implements its promise: its loop over the transactions, the *)
(* early return of parseHeight's errors and the height < 0 check accept  *)
(* exactly the blocks the coinbase height rule accepts, with the rule's  *)
(* height and one txid per transaction, and every block gets an answer.  *)
ImplementsParseBlockSpec == PB!Spec

(* The TxIDs of an accepted block are the hashes of its transactions as   *)
(* they arrived, in block order (design §3 DecodeBlock: "TxID is the      *)
(* transaction's double-hash identifier"; test 4).                         *)
TxIDsMatchBlock ==
    (pc = "done" /\ result = "ok") => txHashes = [j \in DOMAIN orig |-> TxHash(orig[j])]

(* Every block whose coinbase states its height as Bitcoin Core writes it  *)
(* is accepted with that height: "a block must never be stored without a   *)
(* valid height" (design §1, §3) and the coinbase "encodes the block       *)
(* height as a minimal push" (glossary).                                   *)
MinedBlockDecodes ==
    (pc = "done" /\ orig /= <<>>) =>
        /\ result = "ok"
        /\ \A j \in Coinbases(orig) : height = BIP34Height(orig[j].script)

=============================================================================
