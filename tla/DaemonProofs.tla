---------------------------- MODULE DaemonProofs ----------------------------
(***************************************************************************)
(* Proofs about the daemon (Daemon.tla), the composition of a subscriber  *)
(* and a store, for every choice of topics, messages, transaction ids,    *)
(* stored versions and bound MaxMsgs.                                      *)
(*                                                                         *)
(* Every step of the daemon is a step of the subscriber or leaves its     *)
(* variables alone, and the same holds for the store, so the invariants   *)
(* proved of each component (SubscriberProofs, StoreProofs) carry over.   *)
(* On top of them come the daemon's own: the handoff of the subscriber's  *)
(* result through zmqSubErr and quit, and the fate of every transaction   *)
(* the daemon takes from IncomingTx.                                       *)
(***************************************************************************)
EXTENDS Daemon, TLAPS

SP  == INSTANCE SubscriberRefinement
StP == INSTANCE StoreProofs WITH MaxOpens <- 1

(* The daemon's own variables have their types. *)
DaemonVarsOK ==
    /\ dPc \in {"new", "newStorage", "failed", "ready", "select", "returned", "closed"}
    /\ quit \in Seq({"user", "wrapper"})
    /\ Len(quit) <= QuitCapacity
    /\ zmqSubErr \in [kind: Sub!ResultKinds, msg: 0..MaxMsgs]
    /\ wrapPc \in {"idle", "running", "stopping", "done"}
    /\ userPc \in {"idle", "stopping", "done"}
    /\ dResult \in [kind: DResultKinds, msg: 0..MaxMsgs]
    /\ returnedOn \in {"none", "user", "wrapper", "tx"}

(* The wrapper goroutine is only started by Run(). *)
WrapperAfterRun ==
    wrapPc /= "idle" => dPc \in {"select", "returned", "closed"}

(* Once the wrapper has recorded the subscriber's result, that result is  *)
(* final: Run() has returned and closed its socket, and zmqSubErr holds   *)
(* what it returned.                                                       *)
WrapperHandoff ==
    wrapPc \in {"stopping", "done"} => zmqSubErr = subResult /\ subPc = "closed"

(* A value the wrapper put on quit was sent after the handoff. *)
QuitFromWrapper ==
    \A j \in DOMAIN quit : quit[j] = "wrapper" => wrapPc = "done"

(* The strengthening of ErrorPropagated: when the select returned on the  *)
(* wrapper's value, the wrapper had finished and the subscriber had        *)
(* returned for good.                                                      *)
ReturnedOnWrapper ==
    returnedOn = "wrapper" => dResult = subResult /\ subPc = "closed" /\ wrapPc = "done"

(* A goroutine blocked on a send, or dead, holds a message whose decoding *)
(* ends there.                                                             *)
GoroutineFollowsOutcome ==
    \A i \in DOMAIN g :
        g[i] \in {"deliverTx", "deliverBlock", "report", "panicked"} => g[i] = Sub!Outcome(msgs[i])

(* The store's error ends the select loop for good. *)
StoreErrReturned ==
    dResult.kind = "storeErr" => dPc \in {"returned", "closed"}

(* What the daemon itself adds to the components' invariants. *)
DaemonInv ==
    /\ DaemonVarsOK
    /\ WrapperAfterRun
    /\ WrapperHandoff
    /\ QuitFromWrapper
    /\ ReturnedOnWrapper
    /\ GoroutineFollowsOutcome
    /\ StoreErrReturned
    /\ NoSilentDrop

(* The inductive invariant behind TypeOK, ErrorPropagated and NoSilentDrop. *)
IInv == SP!IInv /\ StP!IInv /\ DaemonInv

-----------------------------------------------------------------------------
(* The assumptions of the two components hold of the daemon's constants; *)
(* their lemmas are used under these.                                     *)
LEMMA SubAssumption == SP!SubscriberAssumption
  BY DaemonAssumption DEF Sub!SubscriberAssumption, SP!SubscriberAssumption,
     Sub!MessageType, SP!MessageType, Sub!TopicRawTxWithFee, SP!TopicRawTxWithFee,
     Sub!TopicRawBlock, SP!TopicRawBlock

LEMMA StoreAssumed == StP!StoreAssumption
  BY DaemonAssumption DEF St!StoreAssumption, StP!StoreAssumption

(* The subscriber's definitions, seen through the two instances, are the  *)
(* same formulas.                                                          *)
LEMMA SameSubTypeOK == Sub!TypeOK <=> SP!TypeOK
  BY DEF Sub!TypeOK, SP!TypeOK, Sub!ResultKinds, SP!ResultKinds, Sub!GStates, SP!GStates

(* The steps of the subscriber the daemon takes, seen through the two     *)
(* instances, are the same formulas.                                       *)
LEMMA SameSubActions ==
    /\ Sub!Init <=> SP!Init
    /\ Sub!NewZMQSubscriber <=> SP!NewZMQSubscriber
    /\ Sub!RunStart <=> SP!RunStart
    /\ Sub!RunLoopContinue <=> SP!RunLoopContinue
    /\ Sub!RunSelect <=> SP!RunSelect
    /\ Sub!RunRecv <=> SP!RunRecv
    /\ \A i : Sub!ProcessMessage(i) <=> SP!ProcessMessage(i)
    /\ \A i : Sub!Deliver(i) <=> SP!Deliver(i)
  BY DEF Sub!Init, SP!Init, Sub!NewZMQSubscriber, SP!NewZMQSubscriber,
         Sub!RunStart, SP!RunStart, Sub!RunLoopContinue, SP!RunLoopContinue,
         Sub!RunSelect, SP!RunSelect, Sub!RunRecv, SP!RunRecv,
         Sub!ProcessMessage, SP!ProcessMessage, Sub!Deliver, SP!Deliver,
         Sub!Return, SP!Return, Sub!Crashed, SP!Crashed, Sub!Result, SP!Result,
         Sub!NoResult, SP!NoResult, Sub!Outcome, SP!Outcome, Sub!TxOutcome, SP!TxOutcome,
         Sub!BlockOutcome, SP!BlockOutcome, Sub!TopicRawTxWithFee, SP!TopicRawTxWithFee,
         Sub!TopicRawBlock, SP!TopicRawBlock

(* The same for the store's steps. *)
LEMMA SameStoreActions ==
    /\ St!Init <=> StP!Init
    /\ St!TypeOK <=> StP!TypeOK
    /\ St!NewStorage <=> StP!NewStorage
    /\ St!Initialize <=> StP!Initialize
    /\ St!Migrate <=> StP!Migrate
    /\ \A t : St!AddTransaction(t) <=> StP!AddTransaction(t)
    /\ St!Close <=> StP!Close
  BY DEF St!Init, StP!Init, St!TypeOK, StP!TypeOK, St!NewStorage, StP!NewStorage,
         St!Initialize, StP!Initialize, St!Migrate, StP!Migrate,
         St!AddTransaction, StP!AddTransaction, St!Close, StP!Close,
         St!Apply, StP!Apply, St!InitSteps, StP!InitSteps, St!CreatedBy, StP!CreatedBy,
         St!currentVersion, StP!currentVersion, St!VersionReadable, StP!VersionReadable,
         St!getVersion, StP!getVersion, St!migrate, StP!migrate, St!Tables, StP!Tables,
         St!AddResults, StP!AddResults

(* Every step of the daemon is a step of the subscriber, or leaves its    *)
(* variables alone.                                                        *)
LEMMA SubscriberProjection == [Next]_vars => [SP!Next]_(SP!subVars)
<1> SUFFICES ASSUME [Next]_vars PROVE [SP!Next]_(SP!subVars)
  OBVIOUS
<1>. USE SameSubActions DEF SP!Next, SP!SubscriberStep, SP!subVars
<1>1. CASE NewDaemonSubscriber
  BY <1>1 DEF NewDaemonSubscriber
<1>2. CASE SubscriberStep
  BY <1>2 DEF SubscriberStep, WrapperRunStart, WrapperLoopContinue, WrapperSelect,
              WrapperRecv, DecodeMessage
<1>3. CASE \E i \in DOMAIN g : RecvTx(i) \/ RecvBlock(i)
  BY <1>3 DEF RecvTx, RecvBlock
<1>4. CASE \/ NewDaemonStorage \/ Run \/ WrapperSetErr \/ WrapperStop \/ UserStopCall
           \/ UserStopSend \/ RecvQuit \/ Close \/ UNCHANGED vars
  BY <1>4 DEF NewDaemonStorage, Run, WrapperSetErr, WrapperStop, UserStopCall,
              UserStopSend, RecvQuit, Close, vars, subVars
<1>. QED
  BY <1>1, <1>2, <1>3, <1>4 DEF Next

(* Every step of the daemon is a step of the store, or leaves its         *)
(* variables alone: the transaction the select hands to AddTransaction    *)
(* carries one of the ids TxIds.                                           *)
LEMMA StoreProjection == SP!TypeOK /\ [Next]_vars => [StP!Next]_(StP!storeVars)
<1> SUFFICES ASSUME SP!TypeOK, [Next]_vars PROVE [StP!Next]_(StP!storeVars)
  OBVIOUS
<1>. USE SameStoreActions DEF StP!Next, StP!storeVars
<1>1. CASE NewDaemonStorage
  BY <1>1 DEF NewDaemonStorage
<1>2. CASE \E i \in DOMAIN g : RecvTx(i)
  <2>1. PICK i \in DOMAIN g : RecvTx(i)
    BY <1>2
  <2>2. msgs[i].txid \in TxIds
    <3>1. i \in DOMAIN msgs /\ msgs \in Seq(Messages)
      BY DEF SP!TypeOK
    <3>2. Messages \subseteq SP!MessageType
      BY DaemonAssumption DEF Sub!SubscriberAssumption, Sub!MessageType, SP!MessageType
    <3>. QED
      BY <3>1, <3>2 DEF SP!MessageType
  <2>. QED
    BY <2>1, <2>2 DEF RecvTx
<1>3. CASE Close
  BY <1>3 DEF Close
<1>4. CASE \/ NewDaemonSubscriber \/ SubscriberStep \/ Run \/ WrapperSetErr \/ WrapperStop
           \/ UserStopCall \/ UserStopSend \/ RecvQuit \/ UNCHANGED vars
           \/ \E i \in DOMAIN g : RecvBlock(i)
  BY <1>4 DEF NewDaemonSubscriber, SubscriberStep, WrapperRunStart, WrapperLoopContinue,
              WrapperSelect, WrapperRecv, DecodeMessage, InWrapper, Run, WrapperSetErr,
              WrapperStop, UserStopCall, UserStopSend, RecvQuit, RecvBlock, vars, storeVars,
              dVars
<1>. QED
  BY <1>1, <1>2, <1>3, <1>4 DEF Next

(* The subscriber's typing, read through the daemon's instance. *)
LEMMA SubTyping ==
    ASSUME SP!TypeOK
    PROVE  /\ subPc \in {"new", "failed", "idle", "loop", "select", "recv", "closed"}
           /\ msgs \in Seq(Messages) /\ Len(msgs) <= MaxMsgs
           /\ g \in Seq(Sub!GStates) /\ Len(g) = Len(msgs)
           /\ subResult \in [kind: Sub!ResultKinds, msg: 0..MaxMsgs]
  BY DEF SP!TypeOK, SP!GStates, Sub!GStates, SP!ResultKinds, Sub!ResultKinds

-----------------------------------------------------------------------------
(* Nothing has happened yet. *)
LEMMA IInvInit == Init => IInv
<1> SUFFICES ASSUME Init PROVE IInv
  OBVIOUS
<1>1. SP!IInv
  <2>1. SP!Init => SP!IInv
    BY SP!IInvInit, SubAssumption
  <2>. QED
    BY <2>1, SameSubActions DEF Init
<1>2. StP!IInv
  <2>1. StP!Init => StP!IInv
    BY StP!IInvInit, StoreAssumed
  <2>. QED
    BY <2>1, SameStoreActions DEF Init
<1>3. DaemonVarsOK
  <2>1. MaxMsgs \in Nat
    BY DaemonAssumption DEF Sub!SubscriberAssumption
  <2>. QED
    BY <2>1 DEF Init, DaemonVarsOK, QuitCapacity, NoResult, Sub!NoResult, Sub!Result, DResultKinds, Sub!ResultKinds
<1>4. g = <<>> /\ dResult = Sub!NoResult
  BY DEF Init, Sub!Init, NoResult
<1>. QED
  BY <1>1, <1>2, <1>3, <1>4 DEF Init, IInv, DaemonInv, WrapperAfterRun, WrapperHandoff,
     QuitFromWrapper, ReturnedOnWrapper, GoroutineFollowsOutcome, StoreErrReturned,
     NoSilentDrop, NoResult, Sub!NoResult, Sub!Result

(* A decoded message ends in a send or a panic, never in "done". *)
LEMMA OutcomeValues ==
    \A m : Sub!Outcome(m) \in {"deliverTx", "deliverBlock", "report", "panicked"}
  BY DEF Sub!Outcome, Sub!TxOutcome, Sub!BlockOutcome

(* Opening the storage writes no transaction row. *)
LEMMA SetupKeepsRows ==
    St!NewStorage \/ St!Initialize \/ St!Migrate => UNCHANGED txRows
  BY DEF St!NewStorage, St!Initialize, St!Migrate

(* The daemon's own invariant is kept by each of its steps. *)
LEMMA DaemonStep == IInv /\ [Next]_vars => DaemonInv'
<1> SUFFICES ASSUME IInv, [Next]_vars PROVE DaemonInv'
  OBVIOUS
<1>0. /\ subPc \in {"new", "failed", "idle", "loop", "select", "recv", "closed"}
      /\ msgs \in Seq(Messages) /\ Len(msgs) <= MaxMsgs
      /\ g \in Seq(Sub!GStates) /\ Len(g) = Len(msgs)
      /\ subResult \in [kind: Sub!ResultKinds, msg: 0..MaxMsgs]
  BY SubTyping DEF IInv, SP!IInv
<1>. USE DEF IInv, DaemonInv, DaemonVarsOK, WrapperAfterRun, WrapperHandoff, QuitFromWrapper,
             ReturnedOnWrapper, GoroutineFollowsOutcome, StoreErrReturned, NoSilentDrop,
             Delivered, Stored, subVars, storeVars, dVars, QuitCapacity, Result, Sub!Result
<1>. USE <1>0
<1>1. CASE NewDaemonSubscriber
  BY <1>1 DEF NewDaemonSubscriber, Sub!NewZMQSubscriber
<1>2. CASE NewDaemonStorage
  BY <1>2, SetupKeepsRows DEF NewDaemonStorage
<1>3. CASE Run
  BY <1>3 DEF Run
<1>4. CASE WrapperRunStart
  BY <1>4 DEF WrapperRunStart, InWrapper, Sub!RunStart, Sub!Return
<1>5. CASE WrapperLoopContinue
  BY <1>5 DEF WrapperLoopContinue, InWrapper, Sub!RunLoopContinue
<1>6. CASE WrapperSelect
  BY <1>6 DEF WrapperSelect, InWrapper, Sub!RunSelect, Sub!Return
<1>7. CASE WrapperRecv
  <2>1. /\ wrapPc = "running" /\ UNCHANGED <<storeVars, dVars>>
        /\ UNCHANGED cancel
    BY <1>7 DEF WrapperRecv, InWrapper, Sub!RunRecv
  <2>2. CASE subPc' = "loop" /\ UNCHANGED <<socket, msgs, g, subResult>>
    BY <2>1, <2>2
  <2>3. CASE Sub!Return(Sub!Result("recvErr", 0)) /\ UNCHANGED <<msgs, g>>
    BY <2>1, <2>3 DEF Sub!Return
  <2>4. CASE /\ \E m \in Messages : msgs' = Append(msgs, m) /\ g' = Append(g, "decoding")
             /\ subPc' = "loop"
             /\ UNCHANGED <<socket, subResult>>
    <3>1. PICK m \in Messages : msgs' = Append(msgs, m) /\ g' = Append(g, "decoding")
      BY <2>4
    <3>2. /\ DOMAIN g' = 1..Len(g) + 1
          /\ \A j \in 1..Len(g) : g'[j] = g[j] /\ msgs'[j] = msgs[j]
          /\ g'[Len(g) + 1] = "decoding"
      BY <1>0, <3>1
    <3>3. DOMAIN g = 1..Len(g)
      BY <1>0
    <3>4. GoroutineFollowsOutcome'
      BY <3>2, <3>3
    <3>5. NoSilentDrop'
      BY <2>1, <2>4, <3>2, <3>3
    <3>. QED
      BY <2>1, <2>4, <3>4, <3>5
  <2>. QED
    BY <1>7, <2>2, <2>3, <2>4 DEF WrapperRecv, Sub!RunRecv
<1>8. CASE \E i \in DOMAIN g : DecodeMessage(i)
  BY <1>8, OutcomeValues DEF DecodeMessage, Sub!ProcessMessage
<1>9. CASE WrapperSetErr
  BY <1>9 DEF WrapperSetErr
<1>10. CASE WrapperStop
  <2>1. quit = <<>>
    BY <1>10 DEF WrapperStop, SendQuit
  <2>2. quit' = <<"wrapper">> /\ wrapPc' = "done"
    BY <1>10, <2>1 DEF WrapperStop, SendQuit
  <2>. QED
    BY <1>10, <2>2 DEF WrapperStop
<1>11. CASE UserStopCall
  BY <1>11 DEF UserStopCall
<1>12. CASE UserStopSend
  BY <1>12 DEF UserStopSend, SendQuit, QuitCapacity
<1>13. CASE RecvQuit
  BY <1>13 DEF RecvQuit, QuitCapacity, DResultKinds
<1>14. CASE \E i \in DOMAIN g : RecvTx(i)
  <2>1. PICK i \in DOMAIN g : RecvTx(i)
    BY <1>14
  <2>2. /\ g[i] = "deliverTx" /\ dPc = "select"
        /\ g' = [g EXCEPT ![i] = "done"]
        /\ UNCHANGED <<subPc, socket, cancel, msgs, subResult, quit, zmqSubErr, wrapPc, userPc>>
    BY <2>1 DEF RecvTx, Sub!Deliver
  <2>3. \A j \in DOMAIN g : Delivered(j) => Stored(msgs[j].txid)
    BY <2>2
  <2>4. \/ txRows' = txRows /\ lastResult' /= "ok"
        \/ txRows' = Append(txRows, msgs[i].txid) /\ lastResult' = "ok"
    BY <2>1 DEF RecvTx, St!AddTransaction
  <2>5. txRows \in Seq(TxIds)
    BY DEF StP!IInv, StP!TypeOK
  <2>6. ASSUME NEW t, Stored(t) PROVE Stored(t)'
    <3>1. PICK r \in DOMAIN txRows : txRows[r] = t
      BY <2>6
    <3>2. CASE txRows' = txRows
      BY <3>1, <3>2
    <3>3. CASE txRows' = Append(txRows, msgs[i].txid)
      <4>1. r \in 1..Len(txRows)
        BY <2>5, <3>1
      <4>. QED
        BY <2>5, <3>1, <3>3, <4>1
    <3>. QED
      BY <2>4, <3>2, <3>3
  <2>7. lastResult' = "ok" => Stored(msgs[i].txid)'
    BY <2>2, <2>4, <2>5
  <2>8. lastResult' = "ok" => UNCHANGED <<dPc, dResult, returnedOn>>
    BY <2>1 DEF RecvTx
  <2>9. lastResult' /= "ok" =>
           /\ dPc' = "returned"
           /\ dResult' = Sub!Result("storeErr", i)
           /\ returnedOn' = "tx"
    BY <2>1 DEF RecvTx
  <2>10. NoSilentDrop'
    <3>1. SUFFICES ASSUME NEW j \in DOMAIN g', Delivered(j)'
                   PROVE  Stored(msgs[j].txid)' \/ dResult' = Sub!Result("storeErr", j)
      BY <2>2
    <3>2. CASE j = i
      BY <2>7, <2>9, <3>2
    <3>3. CASE j /= i
      <4>1. j \in DOMAIN g /\ Delivered(j)
        BY <2>2, <3>1, <3>3
      <4>. QED
        BY <2>2, <2>3, <2>6, <4>1
    <3>. QED
      BY <3>2, <3>3
  <2>11. i \in 1..MaxMsgs
    BY <1>0, <2>1, SubAssumption DEF SP!SubscriberAssumption
  <2>12. dResult' \in [kind: DResultKinds, msg: 0..MaxMsgs]
    BY <2>8, <2>9, <2>11 DEF DResultKinds
  <2>13. GoroutineFollowsOutcome'
    BY <2>2
  <2>. QED
    BY <2>2, <2>8, <2>9, <2>10, <2>12, <2>13
<1>15. CASE \E i \in DOMAIN g : RecvBlock(i)
  BY <1>15 DEF RecvBlock, Sub!Deliver
<1>16. CASE Close
  BY <1>16 DEF Close, St!Close
<1>17. CASE UNCHANGED vars
  BY <1>17 DEF vars, subVars, storeVars, dVars
<1>. QED
  BY <1>1, <1>2, <1>3, <1>4, <1>5, <1>6, <1>7, <1>8, <1>9, <1>10, <1>11, <1>12, <1>13,
     <1>14, <1>15, <1>16, <1>17 DEF Next, SubscriberStep

(* Every step of the daemon keeps IInv: the subscriber's and the store's  *)
(* part by their own lemmas, through the projections, and the rest by      *)
(* DaemonStep.                                                             *)
LEMMA IInvStep == IInv /\ [Next]_vars => IInv'
<1> SUFFICES ASSUME IInv, [Next]_vars PROVE IInv'
  OBVIOUS
<1>1. SP!IInv'
  <2>1. SP!IInv /\ [SP!Next]_(SP!subVars) => SP!IInv'
    BY SP!IInvStep, SubAssumption
  <2>. QED
    BY <2>1, SubscriberProjection DEF IInv
<1>2. StP!IInv'
  <2>1. StP!IInv /\ [StP!Next]_(StP!storeVars) => StP!IInv'
    BY StP!IInvStep, StoreAssumed
  <2>2. SP!TypeOK
    BY DEF IInv, SP!IInv
  <2>. QED
    BY <2>1, <2>2, StoreProjection DEF IInv
<1>3. DaemonInv'
  BY DaemonStep
<1>. QED
  BY <1>1, <1>2, <1>3 DEF IInv

(* IInv gives the daemon's type invariant. *)
LEMMA IInvTypeOK == IInv => TypeOK
<1> SUFFICES ASSUME IInv PROVE TypeOK
  OBVIOUS
<1>1. Sub!TypeOK
  BY SameSubTypeOK DEF IInv, SP!IInv
<1>2. St!TypeOK
  BY SameStoreActions DEF IInv, StP!IInv
<1>. QED
  BY <1>1, <1>2 DEF IInv, DaemonInv, DaemonVarsOK, TypeOK

(* The daemon, its subscriber and its store are well typed in every       *)
(* reachable state, whatever the messages, transaction ids and bounds.    *)
THEOREM DaemonTypeCorrect == Spec => []TypeOK
  BY IInvInit, IInvStep, IInvTypeOK, PTL DEF Spec

(* When the daemon's Run() returns because the wrapper goroutine called   *)
(* Stop(), it returns exactly the error the subscriber's Run() returned:  *)
(* zmqSubErr is written before the send on quit and read after the        *)
(* receive, and nothing writes either again.                               *)
THEOREM ErrorReachesCaller == Spec => []ErrorPropagated
<1>1. IInv => ErrorPropagated
  BY DEF IInv, DaemonInv, ReturnedOnWrapper, ErrorPropagated
<1>. QED
  BY IInvInit, IInvStep, <1>1, PTL DEF Spec

(* No transaction the daemon took from IncomingTx is lost: its txid is in *)
(* the store, or Run() returned the store's error for that very message.  *)
THEOREM NoTransactionDropped == Spec => []NoSilentDrop
<1>1. IInv => NoSilentDrop
  BY DEF IInv, DaemonInv
<1>. QED
  BY IInvInit, IInvStep, <1>1, PTL DEF Spec

=============================================================================
