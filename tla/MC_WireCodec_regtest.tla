----------------------- MODULE MC_WireCodec_regtest -----------------------
(* The blocks Bitcoin Core 0.19 mines on generatetoaddress, which the      *)
(* repository's RPC test client calls: IncrementExtraNonce writes the      *)
(* coinbase script CScript() << nHeight << CScriptNum(nExtraNonce), and    *)
(* the extra nonce of the first block of a call is 1.  Each block is the   *)
(* coinbase and one plain transaction, at the heights where the encoding   *)
(* changes: OP_1 and OP_16, a one-byte push, and a two-byte push whose     *)
(* top bit needs a sign byte.                                              *)
EXTENDS WireCodec

Heights == {1, 16, 17, 200}

(* CScriptNum::serialize of a positive number: the minimal little-endian  *)
(* bytes, with a zero byte added when the top bit of the last is set.     *)
ScriptNum(h) ==
    LET bs[n \in 0..h] == IF n = 0 THEN <<>> ELSE <<n % 256>> \o bs[n \div 256]
        b == bs[h]
    IN  IF b[Len(b)] >= 128 THEN b \o <<0>> ELSE b

(* CScript::push_int64 as used by operator<< on an int. *)
PushInt(h) ==
    IF h <= 16 THEN <<80 + h>> ELSE <<Len(ScriptNum(h))>> \o ScriptNum(h)

Mined(h) == [coinbase |-> TRUE, script |-> PushInt(h) \o <<1, 1>>]

Plain == [coinbase |-> FALSE, script |-> <<>>]

MCBlocks == {<<Mined(h), Plain>> : h \in Heights}
=============================================================================
