-------------------------- MODULE DaemonSpecProofs --------------------------
(***************************************************************************)
(* Proofs about the design of the daemon (DaemonSpec.tla), for every set  *)
(* of transaction ids, deliveries and run results.                         *)
(***************************************************************************)
EXTENDS DaemonSpec, Naturals, TLAPS

(* The phases, the log of transaction ids, the deliveries taken. *)
SpecTypeOK ==
    /\ phase \in {"starting", "failed", "running", "stopped", "closed"}
    /\ log \in Seq(TxIds)
    /\ taken \subseteq Deliveries

(* The inductive invariant behind LogUnique. *)
SpecInv == SpecTypeOK /\ LogUnique

(* Appending a txid that is not in a duplicate-free sequence keeps it     *)
(* free of duplicates.                                                     *)
LEMMA AppendUnique ==
    ASSUME NEW S, NEW s \in Seq(S), NEW x \in S,
           \A r1, r2 \in DOMAIN s : s[r1] = s[r2] => r1 = r2,
           ~\E r \in DOMAIN s : s[r] = x
    PROVE  \A r1, r2 \in DOMAIN Append(s, x) :
               Append(s, x)[r1] = Append(s, x)[r2] => r1 = r2
<1>1. /\ DOMAIN Append(s, x) = DOMAIN s \cup {Len(s) + 1}
      /\ Len(s) + 1 \notin DOMAIN s
      /\ \A r \in DOMAIN s : Append(s, x)[r] = s[r]
      /\ Append(s, x)[Len(s) + 1] = x
  OBVIOUS
<1>. QED
  BY <1>1

(* The design starts with an empty log. *)
LEMMA SpecInvInit == Init => SpecInv
  BY DEF Init, SpecInv, SpecTypeOK, LogUnique

(* Every step of the design keeps SpecInv. *)
LEMMA SpecInvStep == SpecInv /\ [Next]_avars => SpecInv'
<1> SUFFICES ASSUME SpecInv, [Next]_avars PROVE SpecInv'
  OBVIOUS
<1>. USE DEF SpecInv, SpecTypeOK
<1>1. CASE Build
  BY <1>1 DEF Build, LogUnique
<1>2. CASE \E e \in Deliveries, t \in TxIds : Take(e, t)
  <2>1. PICK e \in Deliveries, t \in TxIds : Take(e, t)
    BY <1>2
  <2>2. CASE ~InLog(t) /\ log' = Append(log, t) /\ UNCHANGED phase
    <3>1. LogUnique'
      BY <2>2, AppendUnique DEF LogUnique, InLog
    <3>. QED
      BY <2>1, <2>2, <3>1 DEF Take
  <2>3. CASE phase' = "stopped" /\ UNCHANGED log
    BY <2>1, <2>3 DEF Take, LogUnique
  <2>. QED
    BY <2>1, <2>2, <2>3 DEF Take
<1>3. CASE Finish
  BY <1>3 DEF Finish, LogUnique
<1>4. CASE Close
  BY <1>4 DEF Close, LogUnique
<1>5. CASE UNCHANGED avars
  BY <1>5 DEF avars, LogUnique
<1>. QED
  BY <1>1, <1>2, <1>3, <1>4, <1>5 DEF Next

(* The design never applies a transaction twice: a txid is appended only  *)
(* when it is not in the log, and a delivery carrying a stored one ends    *)
(* the run.  This is a fact of the design alone; DaemonRefinement carries  *)
(* it to the code as StoreRowsUnique.                                      *)
LEMMA SpecLogUnique == Spec => []LogUnique
<1>1. SpecInv => LogUnique
  BY DEF SpecInv
<1>. QED
  BY SpecInvInit, SpecInvStep, <1>1, PTL DEF Spec

=============================================================================
