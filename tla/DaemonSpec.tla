----------------------------- MODULE DaemonSpec -----------------------------
(***************************************************************************)
(* What the bademeister daemon promises (design §4.4 and §7), one step per *)
(* event and without goroutines or channels.  It is built or fails to be   *)
(* built.  While it runs, every transaction it takes from the feed is      *)
(* appended to the store once, or ends the run with the store's error: a   *)
(* txid already stored always does, so nothing is dropped silently and     *)
(* nothing is applied twice.  Otherwise the run ends with what the feed    *)
(* returned, and Close follows the end of the run.                          *)
(***************************************************************************)
EXTENDS Sequences

CONSTANTS
    TxIds,        \* transaction ids
    Deliveries,   \* names for the transactions handed to the daemon
    RunResults    \* what the run may return when the feed ends it

VARIABLES
    phase,    \* "starting", "failed", "running", "stopped", "closed"
    log,      \* the txids in the store, in the order they were added
    taken,    \* the deliveries the daemon has taken
    result    \* what the run returned, "none" before it returned

avars == <<phase, log, taken, result>>

InLog(t) == \E r \in DOMAIN log : log[r] = t

Init ==
    /\ phase = "starting"
    /\ log = <<>>
    /\ taken = {}
    /\ result = "none"

Build ==
    /\ phase = "starting"
    /\ phase' \in {"running", "failed"}
    /\ UNCHANGED <<log, taken, result>>

(* The daemon takes delivery e, carrying txid t: it is stored, or the run *)
(* ends with the store's error, which it must when t is stored already.   *)
Take(e, t) ==
    /\ phase = "running"
    /\ e \notin taken
    /\ taken' = taken \cup {e}
    /\ \/ /\ ~InLog(t)
          /\ log' = Append(log, t)
          /\ UNCHANGED <<phase, result>>
       \/ /\ phase' = "stopped"
          /\ result' = "storeErr"
          /\ UNCHANGED log

Finish ==
    /\ phase = "running"
    /\ phase' = "stopped"
    /\ result' \in RunResults
    /\ UNCHANGED <<log, taken>>

Close ==
    /\ phase = "stopped"
    /\ phase' = "closed"
    /\ UNCHANGED <<log, taken, result>>

Next ==
    \/ Build
    \/ \E e \in Deliveries, t \in TxIds : Take(e, t)
    \/ Finish
    \/ Close

Spec == Init /\ [][Next]_avars

-----------------------------------------------------------------------------
(* No txid is in the store twice: a transaction is applied at most once.  *)
LogUnique ==
    \A r1, r2 \in DOMAIN log : log[r1] = log[r2] => r1 = r2

=============================================================================
