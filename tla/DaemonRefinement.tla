-------------------------- MODULE DaemonRefinement --------------------------
(***************************************************************************)
(* The daemon (Daemon.tla) implements its design (DaemonSpec.tla) under   *)
(* the mapping DS of Daemon.tla, for every choice of topics, messages,     *)
(* transaction ids, stored versions and bound MaxMsgs.                     *)
(*                                                                         *)
(* Each step of the daemon is one of DaemonSpec or leaves the mapped state *)
(* alone.  The steps of the subscriber, of its decode goroutines, of the   *)
(* wrapper and of Stop() are stutters: what they change is below the       *)
(* abstraction, and a goroutine reaches "done" with a transaction only     *)
(* when the select takes it.  The select's receive of a transaction is     *)
(* Take, its receive on quit is Finish.  The facts used on the way come    *)
(* from the inductive invariant IInv of DaemonProofs.                      *)
(***************************************************************************)
EXTENDS DaemonProofs

DSP == INSTANCE DaemonSpecProofs
        WITH phase <- Phase, log <- txRows, taken <- Taken, result <- dResult.kind,
             Deliveries <- 1..MaxMsgs, RunResults <- Sub!ResultKinds

(* The one AddTransaction call of a RecvTx step appends its txid exactly  *)
(* when it answers "ok", and only when the txid is not stored yet.         *)
LEMMA AddTransactionEffect ==
    ASSUME NEW t, St!AddTransaction(t)
    PROVE  \/ lastResult' = "ok" /\ ~Stored(t) /\ txRows' = Append(txRows, t)
           \/ lastResult' /= "ok" /\ txRows' = txRows
  BY DEF St!AddTransaction, Stored

(* A step that keeps dPc, the rows, the result and the transactions taken *)
(* is a stutter of DaemonSpec.                                             *)
LEMMA StutterStep ==
    ASSUME UNCHANGED <<dPc, txRows, dResult>>, Taken' = Taken
    PROVE  [DS!Next]_(DS!avars)
  BY DEF DS!avars, Phase

-----------------------------------------------------------------------------
(* The initial state of the daemon is the initial state of DaemonSpec. *)
LEMMA RefineInit == Init => DS!Init
<1> SUFFICES ASSUME Init PROVE DS!Init
  OBVIOUS
<1>1. dPc = "new" /\ txRows = <<>> /\ g = <<>> /\ dResult = Sub!NoResult
  BY DEF Init, St!Init, Sub!Init, NoResult
<1>. QED
  BY <1>1 DEF Phase, DS!Init, Taken, Sub!NoResult, Sub!Result

(* Every step of the daemon from a state of IInv is a step of DaemonSpec  *)
(* or a stutter of it.                                                     *)
LEMMA RefineStep == IInv /\ [Next]_vars => [DS!Next]_(DS!avars)
<1> SUFFICES ASSUME IInv, [Next]_vars PROVE [DS!Next]_(DS!avars)
  OBVIOUS
<1>0. /\ msgs \in Seq(Messages) /\ Len(msgs) <= MaxMsgs
      /\ g \in Seq(Sub!GStates) /\ Len(g) = Len(msgs)
      /\ DaemonVarsOK /\ GoroutineFollowsOutcome
  BY SubTyping DEF IInv, SP!IInv, DaemonInv
<1>. USE <1>0
<1>1. CASE NewDaemonSubscriber
  <2>1. UNCHANGED <<txRows, g, msgs, dResult>> /\ dPc = "new"
        /\ dPc' \in {"failed", "newStorage"}
    BY <1>1 DEF NewDaemonSubscriber, Sub!NewZMQSubscriber, storeVars
  <2>2. Taken' = Taken
    BY <2>1 DEF Taken, Delivered
  <2>3. CASE dPc' = "newStorage"
    <3>1. Phase' = Phase
      BY <2>1, <2>3 DEF Phase
    <3>. QED
      BY <2>1, <2>2, <3>1 DEF DS!avars
  <2>4. CASE dPc' = "failed"
    <3>1. Phase = "starting" /\ Phase' = "failed"
      BY <2>1, <2>4 DEF Phase
    <3>2. DS!Build
      BY <2>1, <2>2, <3>1 DEF DS!Build
    <3>. QED
      BY <3>2 DEF DS!Next
  <2>. QED
    BY <2>1, <2>3, <2>4
<1>2. CASE NewDaemonStorage
  <2>1. UNCHANGED <<txRows, g, msgs, dResult>> /\ dPc = "newStorage"
        /\ dPc' \in {"ready", "failed", "newStorage"}
    BY <1>2, SetupKeepsRows DEF NewDaemonStorage, subVars
  <2>2. Taken' = Taken
    BY <2>1 DEF Taken, Delivered
  <2>3. CASE dPc' = "newStorage"
    <3>1. Phase' = Phase
      BY <2>1, <2>3 DEF Phase
    <3>. QED
      BY <2>1, <2>2, <3>1 DEF DS!avars
  <2>4. CASE dPc' \in {"ready", "failed"}
    <3>1. Phase = "starting" /\ Phase' \in {"running", "failed"}
      BY <2>1, <2>4 DEF Phase
    <3>2. DS!Build
      BY <2>1, <2>2, <3>1 DEF DS!Build
    <3>. QED
      BY <3>2 DEF DS!Next
  <2>. QED
    BY <2>1, <2>3, <2>4
<1>3. CASE Run
  <2>1. UNCHANGED <<txRows, g, msgs, dResult>> /\ dPc = "ready" /\ dPc' = "select"
    BY <1>3 DEF Run, subVars, storeVars
  <2>2. Phase' = Phase
    BY <2>1 DEF Phase
  <2>. QED
    BY <2>1, <2>2 DEF DS!avars, Taken, Delivered
<1>4. CASE \/ WrapperRunStart \/ WrapperLoopContinue \/ WrapperSetErr \/ WrapperStop
           \/ UserStopCall \/ UserStopSend \/ UNCHANGED vars
  <2>1. UNCHANGED <<dPc, txRows, dResult, g, msgs>>
    BY <1>4 DEF WrapperRunStart, WrapperLoopContinue, InWrapper, Sub!RunStart,
                Sub!RunLoopContinue, WrapperSetErr, WrapperStop, UserStopCall, UserStopSend,
                vars, subVars, storeVars, dVars
  <2>. QED
    BY <2>1, StutterStep DEF Taken, Delivered
<1>5. CASE WrapperSelect
  <2>1. UNCHANGED <<dPc, txRows, dResult, msgs>>
    BY <1>5 DEF WrapperSelect, InWrapper, Sub!RunSelect, storeVars, dVars
  <2>2. Taken' = Taken
    <3>1. CASE UNCHANGED g
      BY <2>1, <3>1 DEF Taken, Delivered
    <3>2. CASE \E i \in DOMAIN g : g[i] = "report" /\ g' = [g EXCEPT ![i] = "done"]
      <4>1. PICK i \in DOMAIN g : g[i] = "report" /\ g' = [g EXCEPT ![i] = "done"]
        BY <3>2
      <4>2. Sub!Outcome(msgs[i]) = "report"
        BY <4>1 DEF GoroutineFollowsOutcome
      <4>. QED
        BY <2>1, <4>1, <4>2 DEF Taken, Delivered
    <3>. QED
      BY <1>5, <3>1, <3>2 DEF WrapperSelect, Sub!RunSelect
  <2>. QED
    BY <2>1, <2>2, StutterStep
<1>6. CASE WrapperRecv
  <2>1. UNCHANGED <<dPc, txRows, dResult>>
    BY <1>6 DEF WrapperRecv, InWrapper, storeVars, dVars
  <2>2. Taken' = Taken
    <3>1. CASE UNCHANGED <<msgs, g>>
      BY <3>1 DEF Taken, Delivered
    <3>2. CASE \E m \in Messages : msgs' = Append(msgs, m) /\ g' = Append(g, "decoding")
      <4>1. PICK m \in Messages : msgs' = Append(msgs, m) /\ g' = Append(g, "decoding")
        BY <3>2
      <4>2. /\ DOMAIN g' = DOMAIN g \cup {Len(g) + 1}
            /\ \A j \in DOMAIN g : g'[j] = g[j] /\ msgs'[j] = msgs[j]
            /\ g'[Len(g) + 1] = "decoding"
            /\ Len(g) + 1 \notin DOMAIN g
        BY <4>1
      <4>. QED
        BY <4>2 DEF Taken, Delivered
    <3>. QED
      BY <1>6, <3>1, <3>2 DEF WrapperRecv, Sub!RunRecv
  <2>. QED
    BY <2>1, <2>2, StutterStep
<1>7. CASE \E i \in DOMAIN g : DecodeMessage(i)
  <2>1. PICK i \in DOMAIN g : DecodeMessage(i)
    BY <1>7
  <2>2. /\ UNCHANGED <<dPc, txRows, dResult, msgs>>
        /\ g[i] = "decoding" /\ g' = [g EXCEPT ![i] = Sub!Outcome(msgs[i])]
    BY <2>1 DEF DecodeMessage, Sub!ProcessMessage, storeVars, dVars
  <2>3. Taken' = Taken
    BY <2>2, OutcomeValues DEF Taken, Delivered
  <2>. QED
    BY <2>2, <2>3, StutterStep
<1>8. CASE RecvQuit
  <2>1. /\ dPc = "select" /\ dPc' = "returned"
        /\ dResult' = zmqSubErr
        /\ UNCHANGED <<txRows, g, msgs>>
    BY <1>8 DEF RecvQuit, subVars, storeVars
  <2>2. Phase = "running" /\ Phase' = "stopped"
    BY <2>1 DEF Phase
  <2>3. dResult.kind' \in Sub!ResultKinds
    BY <2>1 DEF DaemonVarsOK
  <2>4. DS!Finish
    BY <2>1, <2>2, <2>3 DEF DS!Finish, Taken, Delivered
  <2>. QED
    BY <2>4 DEF DS!Next
<1>9. CASE \E i \in DOMAIN g : RecvBlock(i)
  <2>1. PICK i \in DOMAIN g : RecvBlock(i)
    BY <1>9
  <2>2. /\ UNCHANGED <<dPc, txRows, dResult, msgs>>
        /\ g[i] = "deliverBlock" /\ g' = [g EXCEPT ![i] = "done"]
    BY <2>1 DEF RecvBlock, Sub!Deliver, storeVars, dVars
  <2>3. Sub!Outcome(msgs[i]) = "deliverBlock"
    BY <2>2 DEF GoroutineFollowsOutcome
  <2>4. Taken' = Taken
    BY <2>2, <2>3 DEF Taken, Delivered
  <2>. QED
    BY <2>2, <2>4, StutterStep
<1>10. CASE Close
  <2>1. /\ dPc = "returned" /\ dPc' = "closed"
        /\ UNCHANGED <<txRows, g, msgs, dResult>>
    BY <1>10 DEF Close, St!Close, subVars
  <2>2. Phase = "stopped" /\ Phase' = "closed"
    BY <2>1 DEF Phase
  <2>3. DS!Close
    BY <2>1, <2>2 DEF DS!Close, Taken, Delivered
  <2>. QED
    BY <2>3 DEF DS!Next
<1>11. CASE \E i \in DOMAIN g : RecvTx(i)
  <2>1. PICK i \in DOMAIN g : RecvTx(i)
    BY <1>11
  <2> DEFINE t == msgs[i].txid
  <2>2. /\ dPc = "select" /\ g[i] = "deliverTx"
        /\ g' = [g EXCEPT ![i] = "done"] /\ UNCHANGED msgs
        /\ St!AddTransaction(t)
    BY <2>1 DEF RecvTx, Sub!Deliver
  <2>3. i \notin Taken /\ Taken' = Taken \cup {i}
    <3>1. Sub!Outcome(msgs[i]) = "deliverTx"
      BY <2>2 DEF GoroutineFollowsOutcome
    <3>. QED
      BY <2>2, <3>1 DEF Taken, Delivered
  <2>4. i \in 1..MaxMsgs
    BY SubAssumption DEF SP!SubscriberAssumption
  <2>5. t \in TxIds
    <3>1. Messages \subseteq SP!MessageType
      BY DaemonAssumption DEF Sub!SubscriberAssumption, Sub!MessageType, SP!MessageType
    <3>. QED
      BY <3>1 DEF SP!MessageType
  <2>6. Phase = "running"
    BY <2>2 DEF Phase
  <2>7. CASE lastResult' = "ok" /\ ~Stored(t) /\ txRows' = Append(txRows, t)
    <3>1. UNCHANGED <<dPc, dResult>>
      BY <2>1, <2>7 DEF RecvTx
    <3>2. Phase' = "running"
      BY <2>2, <3>1 DEF Phase
    <3>3. DS!Take(i, t)
      BY <2>3, <2>6, <2>7, <3>1, <3>2 DEF DS!Take, DS!InLog, Stored
    <3>. QED
      BY <2>4, <2>5, <3>3 DEF DS!Next
  <2>8. CASE lastResult' /= "ok" /\ txRows' = txRows
    <3>1. dPc' = "returned" /\ dResult' = Sub!Result("storeErr", i)
      BY <2>1, <2>8 DEF RecvTx, Result
    <3>2. Phase' = "stopped" /\ dResult.kind' = "storeErr"
      BY <3>1 DEF Phase, Sub!Result
    <3>3. DS!Take(i, t)
      BY <2>3, <2>6, <2>8, <3>2 DEF DS!Take
    <3>. QED
      BY <2>4, <2>5, <3>3 DEF DS!Next
  <2>. QED
    BY <2>2, <2>7, <2>8, AddTransactionEffect
<1>. QED
  BY <1>1, <1>2, <1>3, <1>4, <1>5, <1>6, <1>7, <1>8, <1>9, <1>10, <1>11
  DEF Next, SubscriberStep

(* The daemon implements DaemonSpec: every transaction the select takes   *)
(* from IncomingTx is added to the store once or ends Run() with the       *)
(* store's error, a stored txid always does, the rows change only then,    *)
(* and Run() otherwise ends once with what the subscriber returned.        *)
THEOREM DaemonImplementsSpec == Spec => ImplementsDaemonSpec
<1>1. IInv /\ [Next]_vars => [DS!Next]_(DS!avars)
  BY RefineStep
<1>. QED
  BY RefineInit, IInvInit, IInvStep, <1>1, PTL DEF Spec, ImplementsDaemonSpec, DS!Spec

(* What the design proves carries over to the daemon: the store never     *)
(* holds a txid twice, because the daemon appends one only through a step *)
(* of Take, which appends only a txid that is not stored.                  *)
THEOREM StoreRowsUnique == Spec => []DS!LogUnique
<1>1. DSP!Spec => []DSP!LogUnique
  BY DSP!SpecLogUnique
<1>2. DS!Spec <=> DSP!Spec
  BY DEF DS!Spec, DSP!Spec, DS!Init, DSP!Init, DS!Next, DSP!Next, DS!avars, DSP!avars,
         DS!Build, DSP!Build, DS!Take, DSP!Take, DS!Finish, DSP!Finish, DS!Close, DSP!Close,
         DS!InLog, DSP!InLog
<1>3. DS!LogUnique <=> DSP!LogUnique
  BY DEF DS!LogUnique, DSP!LogUnique
<1>. QED
  BY DaemonImplementsSpec, <1>1, <1>2, <1>3, PTL DEF ImplementsDaemonSpec

-----------------------------------------------------------------------------
(* The subscriber's mapping onto its contract, seen through the two        *)
(* instances, is the same: the same outcome of a message, so the same     *)
(* messages handed on and reported.                                        *)
LEMMA SameOutcome == \A m : SP!Outcome(m) = Sub!Outcome(m)
  BY Zenon DEF SP!Outcome, Sub!Outcome, SP!TxOutcome, Sub!TxOutcome,
     SP!BlockOutcome, Sub!BlockOutcome, SP!TopicRawTxWithFee, Sub!TopicRawTxWithFee,
     SP!TopicRawBlock, Sub!TopicRawBlock

LEMMA SameMapping ==
    /\ SP!PhaseOf = Sub!PhaseOf
    /\ SP!Handed = Sub!Handed
    /\ SP!Reported = Sub!Reported
    /\ SP!Handed' = Sub!Handed'
    /\ SP!Reported' = Sub!Reported'
  BY SameOutcome DEF SP!PhaseOf, Sub!PhaseOf, SP!Handed, Sub!Handed, SP!Reported, Sub!Reported

LEMMA SameContract ==
    /\ SP!SS!Init <=> Sub!SS!Init
    /\ [SP!SS!Next]_(SP!SS!svars) <=> [Sub!SS!Next]_(Sub!SS!svars)
  <1>1. SP!SS!Init <=> Sub!SS!Init
    BY SameMapping DEF SP!SS!Init, Sub!SS!Init
  <1>2. \A m : SP!SS!Decodes(m) <=> Sub!SS!Decodes(m)
    BY DEF SP!SS!Decodes, Sub!SS!Decodes, SP!SS!Kind, Sub!SS!Kind
  <1>3. /\ SP!SS!Connect <=> Sub!SS!Connect
        /\ SP!SS!StartRun <=> Sub!SS!StartRun
        /\ SP!SS!Stop <=> Sub!SS!Stop
        /\ SP!SS!EndOnStop <=> Sub!SS!EndOnStop
        /\ SP!SS!EndOnRecvError <=> Sub!SS!EndOnRecvError
    BY SameMapping DEF SP!SS!Connect, Sub!SS!Connect, SP!SS!StartRun, Sub!SS!StartRun,
       SP!SS!Stop, Sub!SS!Stop, SP!SS!EndOnStop, Sub!SS!EndOnStop,
       SP!SS!EndOnRecvError, Sub!SS!EndOnRecvError
  <1>4. \A m : SP!SS!Receive(m) <=> Sub!SS!Receive(m)
    BY SameMapping DEF SP!SS!Receive, Sub!SS!Receive
  <1>5. \A i : SP!SS!Hand(i) <=> Sub!SS!Hand(i)
    BY SameMapping, <1>2 DEF SP!SS!Hand, Sub!SS!Hand
  <1>6. \A i : SP!SS!Fail(i) <=> Sub!SS!Fail(i)
    BY SameMapping, <1>2 DEF SP!SS!Fail, Sub!SS!Fail
  <1>7. UNCHANGED SP!SS!svars <=> UNCHANGED Sub!SS!svars
    BY SameMapping DEF SP!SS!svars, Sub!SS!svars
  <1>8. [SP!SS!Next]_(SP!SS!svars) <=> [Sub!SS!Next]_(Sub!SS!svars)
    BY <1>3, <1>4, <1>5, <1>6, <1>7 DEF SP!SS!Next, Sub!SS!Next
  <1>. QED
    BY <1>1, <1>8

(* Inside the daemon the subscriber still keeps its contract: the daemon  *)
(* steps into the subscriber only through its own operations (the wrapper *)
(* runs Run(), the select's receives are Deliver), so it hands on exactly  *)
(* the messages that decode, each once, and Run() ends only as §4.2 and   *)
(* §7 allow.                                                               *)
THEOREM SubscriberKeepsContract == Spec => Sub!ImplementsSubscriberSpec
<1>1. Init => SP!RInv /\ SP!SS!Init
  <2>1. Init => SP!Init
    BY SameSubActions DEF Init
  <2>. QED
    BY <2>1, SP!RInvInit, SP!RefineInit, SubAssumption
<1>2. SP!RInv /\ [Next]_vars => SP!RInv'
  BY SubscriberProjection, SP!RInvStep, SubAssumption
<1>3. SP!RInv /\ [Next]_vars => [SP!SS!Next]_(SP!SS!svars)
  BY SubscriberProjection, SP!RefineStep, SubAssumption
<1>. QED
  BY <1>1, <1>2, <1>3, SameContract, PTL
  DEF Spec, Sub!ImplementsSubscriberSpec, Sub!SS!Spec

=============================================================================
