---------------------------- MODULE ParseBlockSpec ----------------------------
(***************************************************************************)
(* What parseBlock of bademeister-go promises, as one step per message:   *)
(* a rawblock that decodes is accepted exactly when the coinbase height   *)
(* rule accepts it, with the height the rule gives and one txid per       *)
(* transaction, and every block received gets its answer.  Which txids    *)
(* they are is left open here (see TxIDsMatchBlock in WireCodec).          *)
(***************************************************************************)
EXTENDS Script

CONSTANTS
    Blocks    \* the blocks BtcDecode may produce from a rawblock message

VARIABLES
    apc,      \* "idle", "busy" or "done"
    ablock,   \* the block being parsed
    aresult,  \* "none", "ok" or "error"
    aheight,  \* the height of an accepted block, -1 otherwise
    acount    \* the number of txids of an accepted block, 0 otherwise

avars == <<apc, ablock, aresult, aheight, acount>>

Init ==
    /\ apc = "idle"
    /\ ablock = <<>>
    /\ aresult = "none"
    /\ aheight = -1
    /\ acount = 0

Receive(b) ==
    /\ apc = "idle"
    /\ apc' = "busy"
    /\ ablock' = b
    /\ aresult' = "none"
    /\ aheight' = -1
    /\ acount' = 0

DecodeFails ==
    /\ apc = "idle"
    /\ apc' = "done"
    /\ ablock' = <<>>
    /\ aresult' = "error"
    /\ aheight' = -1
    /\ acount' = 0

Decide ==
    /\ apc = "busy"
    /\ apc' = "done"
    /\ IF RuleAccepts(ablock)
       THEN aresult' = "ok" /\ aheight' = RuleHeight(ablock) /\ acount' = Len(ablock)
       ELSE aresult' = "error" /\ UNCHANGED <<aheight, acount>>
    /\ UNCHANGED ablock

Next ==
    \/ \E b \in Blocks : Receive(b)
    \/ DecodeFails
    \/ Decide

Spec == Init /\ [][Next]_avars /\ WF_avars(Decide)
=============================================================================
