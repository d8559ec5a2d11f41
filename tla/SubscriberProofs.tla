-------------------------- MODULE SubscriberProofs --------------------------
(***************************************************************************)
(* Proofs about the ZMQ subscriber (Subscriber.tla), for every choice of   *)
(* topics, messages and bound MaxMsgs.                                     *)
(***************************************************************************)
EXTENDS Subscriber, TLAPS

(* The loop's own results: whatever message a goroutine was started for,  *)
(* the values Run() records are of the kinds it declares.                 *)
LEMMA ResultTyping ==
    ASSUME NEW k \in ResultKinds, NEW i \in 0..MaxMsgs
    PROVE  Result(k, i) \in [kind: ResultKinds, msg: 0..MaxMsgs]
BY DEF Result

(* The kinds of result Run() records. *)
LEMMA KindsTyping ==
    {"none", "nil", "setupErr", "recvErr", "parseErr"} \subseteq ResultKinds
BY DEF ResultKinds

(* A result recorded for no message, as setup, receive errors and nil are. *)
LEMMA PlainResultTyping ==
    ASSUME NEW k \in {"none", "nil", "setupErr", "recvErr", "parseErr"}
    PROVE  Result(k, 0) \in [kind: ResultKinds, msg: 0..MaxMsgs]
<1>1. 0 \in 0..MaxMsgs
  BY SubscriberAssumption
<1>2. k \in ResultKinds
  BY KindsTyping
<1>. QED
  BY <1>1, <1>2, ResultTyping

(* A goroutine waiting to report a parse error holds a message that does *)
(* fail to decode: processMessage sends on parseErrors only from the      *)
(* error branches of parseTransaction and parseBlock.                     *)
ReportsFailed ==
    \A i \in DOMAIN g : g[i] = "report" => Outcome(msgs[i]) = "report"

(* The inductive invariant behind RunResultSound. *)
IInv == TypeOK /\ RunResultSound /\ ReportsFailed

-----------------------------------------------------------------------------
(* The initial state of the subscriber is well typed. *)
LEMMA TypeInit == Init => TypeOK
<1> SUFFICES ASSUME Init PROVE TypeOK
  OBVIOUS
<1>1. subResult \in [kind: ResultKinds, msg: 0..MaxMsgs]
  BY PlainResultTyping DEF Init, NoResult
<1>2. msgs = <<>> /\ g = <<>>
  BY DEF Init
<1>3. msgs \in Seq(Messages) /\ g \in Seq(GStates) /\ Len(g) = Len(msgs)
  BY <1>2
<1>4. Len(msgs) <= MaxMsgs
  BY <1>2, SubscriberAssumption
<1>. QED
  BY <1>1, <1>3, <1>4 DEF Init, TypeOK

(* Every step of the subscriber, and of the goroutines it starts, keeps   *)
(* the state well typed. *)
LEMMA TypeStep == TypeOK /\ [Next]_subVars => TypeOK'
<1> SUFFICES ASSUME TypeOK, [Next]_subVars PROVE TypeOK'
  OBVIOUS
<1>. USE DEF TypeOK
<1>1. CASE NewZMQSubscriber
  BY <1>1 DEF NewZMQSubscriber
<1>2. CASE RunStart
  <2>1. Result("setupErr", 0) \in [kind: ResultKinds, msg: 0..MaxMsgs]
    BY PlainResultTyping
  <2>. QED
    BY <1>2, <2>1 DEF RunStart, Return
<1>3. CASE RunLoopExit
  <2>1. Result("nil", 0) \in [kind: ResultKinds, msg: 0..MaxMsgs]
    BY PlainResultTyping
  <2>. QED
    BY <1>3, <2>1 DEF RunLoopExit, Return
<1>4. CASE RunLoopContinue
  BY <1>4 DEF RunLoopContinue
<1>5. CASE RunSelect
  <2>1. CASE \E i \in DOMAIN g : /\ g[i] = "report"
                                 /\ g' = [g EXCEPT ![i] = "done"]
                                 /\ Return(Result("parseErr", i))
    <3>1. PICK i \in DOMAIN g : /\ g[i] = "report"
                                /\ g' = [g EXCEPT ![i] = "done"]
                                /\ Return(Result("parseErr", i))
      BY <2>1
    <3>2. i \in 0..MaxMsgs
      BY <3>1, SubscriberAssumption
    <3>3. subResult' \in [kind: ResultKinds, msg: 0..MaxMsgs]
      BY <3>1, <3>2, KindsTyping, ResultTyping DEF Return
    <3>4. g' \in Seq(GStates) /\ Len(g') = Len(msgs)
      BY <3>1 DEF GStates
    <3>. QED
      BY <1>5, <3>1, <3>3, <3>4 DEF RunSelect, Return
  <2>2. CASE /\ \A i \in DOMAIN g : g[i] # "report"
             /\ subPc' = "recv"
             /\ UNCHANGED <<socket, g, subResult>>
    BY <1>5, <2>2 DEF RunSelect
  <2>. QED
    BY <1>5, <2>1, <2>2 DEF RunSelect
<1>6. CASE RunRecv
  <2>1. CASE /\ subPc' = "loop"
             /\ UNCHANGED <<socket, msgs, g, subResult>>
    BY <1>6, <2>1 DEF RunRecv
  <2>2. CASE /\ Return(Result("recvErr", 0))
             /\ UNCHANGED <<msgs, g>>
    <3>1. Result("recvErr", 0) \in [kind: ResultKinds, msg: 0..MaxMsgs]
      BY PlainResultTyping
    <3>. QED
      BY <1>6, <2>2, <3>1 DEF RunRecv, Return
  <2>3. CASE /\ Len(msgs) < MaxMsgs
             /\ \E m \in Messages : /\ msgs' = Append(msgs, m)
                                    /\ g' = Append(g, "decoding")
             /\ subPc' = "loop"
             /\ UNCHANGED <<socket, subResult>>
    <3>1. PICK m \in Messages : /\ msgs' = Append(msgs, m)
                                /\ g' = Append(g, "decoding")
      BY <2>3
    <3>2. msgs' \in Seq(Messages) /\ Len(msgs') <= MaxMsgs
      BY <2>3, <3>1, SubscriberAssumption
    <3>3. g' \in Seq(GStates) /\ Len(g') = Len(msgs')
      BY <3>1 DEF GStates
    <3>. QED
      BY <1>6, <2>3, <3>2, <3>3 DEF RunRecv
  <2>. QED
    BY <1>6, <2>1, <2>2, <2>3 DEF RunRecv
<1>7. CASE \E i \in DOMAIN g : ProcessMessage(i)
  <2>1. PICK i \in DOMAIN g : ProcessMessage(i)
    BY <1>7
  <2>2. Outcome(msgs[i]) \in GStates
    BY DEF Outcome, TxOutcome, BlockOutcome, GStates
  <2>. QED
    BY <2>1, <2>2 DEF ProcessMessage
<1>8. CASE Stop
  BY <1>8 DEF Stop
<1>9. CASE \E i \in DOMAIN g : Deliver(i)
  BY <1>9 DEF Deliver, GStates
<1>10. CASE UNCHANGED subVars
  BY <1>10 DEF subVars
<1>. QED
  BY <1>1, <1>2, <1>3, <1>4, <1>5, <1>6, <1>7, <1>8, <1>9, <1>10
     DEF Next, SubscriberStep

(* Every state the subscriber reaches is well typed: in particular the     *)
(* goroutine table g has one entry per received message (RunRecv starts   *)
(* exactly one goroutine per message), at most MaxMsgs messages are       *)
(* received, and a parse error names one of them.                         *)
THEOREM TypeCorrect == Spec => []TypeOK
BY TypeInit, TypeStep, PTL DEF Spec

-----------------------------------------------------------------------------
(* The initial state satisfies the inductive invariant: nothing returned, *)
(* no goroutine. *)
LEMMA IInvInit == Init => IInv
<1> SUFFICES ASSUME Init PROVE IInv
  OBVIOUS
<1>1. subResult.kind = "none" /\ g = <<>>
  BY DEF Init, NoResult, Result
<1>. QED
  BY <1>1, TypeInit DEF IInv, RunResultSound, ReportsFailed

(* Every step keeps the inductive invariant.  The steps that record a     *)
(* result are RunStart, RunLoopExit (nil, guarded by cancel, which no step *)
(* resets), RunSelect (a parse error, taken from a goroutine in "report") *)
(* and RunRecv; the steps of the goroutines only move a goroutine forward, *)
(* and RunRecv only appends messages, so msgs[i] never changes.           *)
LEMMA IInvStep == IInv /\ [Next]_subVars => IInv'
<1> SUFFICES ASSUME IInv, [Next]_subVars PROVE IInv'
  OBVIOUS
<1>0. TypeOK /\ RunResultSound /\ ReportsFailed /\ TypeOK'
  BY TypeStep DEF IInv
<1>. USE DEF IInv
<1>1. CASE NewZMQSubscriber
  BY <1>0, <1>1 DEF NewZMQSubscriber, RunResultSound, ReportsFailed
<1>2. CASE RunStart
  <2>1. \/ UNCHANGED <<cancel, msgs, g, subResult>>
        \/ subResult'.kind = "setupErr" /\ UNCHANGED <<msgs, g>>
    BY <1>2 DEF RunStart, Return, Result
  <2>. QED
    BY <1>0, <2>1 DEF RunResultSound, ReportsFailed
<1>3. CASE RunLoopExit
  <2>1. subResult'.kind = "nil" /\ cancel' /\ UNCHANGED <<msgs, g>>
    BY <1>3 DEF RunLoopExit, Return, Result
  <2>. QED
    BY <1>0, <2>1 DEF RunResultSound, ReportsFailed
<1>4. CASE RunLoopContinue
  BY <1>0, <1>4 DEF RunLoopContinue, RunResultSound, ReportsFailed
<1>5. CASE RunSelect
  <2>1. CASE \E i \in DOMAIN g : /\ g[i] = "report"
                                 /\ g' = [g EXCEPT ![i] = "done"]
                                 /\ Return(Result("parseErr", i))
    <3>1. PICK i \in DOMAIN g : /\ g[i] = "report"
                                /\ g' = [g EXCEPT ![i] = "done"]
                                /\ Return(Result("parseErr", i))
      BY <2>1
    <3>2. subResult' = [kind |-> "parseErr", msg |-> i] /\ UNCHANGED msgs
      BY <1>5, <3>1 DEF RunSelect, Return, Result
    <3>3. Outcome(msgs[i]) = "report"
      BY <1>0, <3>1 DEF ReportsFailed
    <3>4. RunResultSound'
      BY <1>0, <3>1, <3>2, <3>3 DEF RunResultSound
    <3>5. ReportsFailed'
      BY <1>0, <3>1, <3>2 DEF ReportsFailed
    <3>. QED
      BY <1>0, <3>4, <3>5
  <2>2. CASE UNCHANGED <<g, subResult>>
    BY <1>0, <1>5, <2>2 DEF RunSelect, RunResultSound, ReportsFailed
  <2>. QED
    BY <1>5, <2>1, <2>2 DEF RunSelect
<1>6. CASE RunRecv
  <2>1. CASE UNCHANGED <<msgs, g, subResult>>
    BY <1>0, <1>6, <2>1 DEF RunRecv, RunResultSound, ReportsFailed
  <2>2. CASE subResult'.kind = "recvErr" /\ UNCHANGED <<msgs, g>>
    BY <1>0, <1>6, <2>2 DEF RunRecv, RunResultSound, ReportsFailed
  <2>3. CASE /\ \E m \in Messages : /\ msgs' = Append(msgs, m)
                                    /\ g' = Append(g, "decoding")
             /\ UNCHANGED <<cancel, subResult>>
    <3>1. PICK m \in Messages : /\ msgs' = Append(msgs, m)
                                /\ g' = Append(g, "decoding")
      BY <2>3
    <3>2. \A i \in DOMAIN g : i \in DOMAIN g' /\ g'[i] = g[i] /\ msgs'[i] = msgs[i]
      BY <1>0, <3>1 DEF TypeOK
    <3>3. \A i \in DOMAIN g' \ DOMAIN g : g'[i] = "decoding"
      BY <1>0, <3>1 DEF TypeOK
    <3>4. RunResultSound'
      BY <1>0, <2>3, <3>2 DEF RunResultSound
    <3>5. ReportsFailed'
      BY <1>0, <3>2, <3>3 DEF ReportsFailed
    <3>. QED
      BY <1>0, <3>4, <3>5
  <2>. QED
    BY <1>6, <2>1, <2>2, <2>3 DEF RunRecv, Return, Result
<1>7. CASE \E i \in DOMAIN g : ProcessMessage(i)
  <2>1. PICK i \in DOMAIN g : ProcessMessage(i)
    BY <1>7
  <2>2. /\ g' = [g EXCEPT ![i] = Outcome(msgs[i])]
        /\ UNCHANGED <<cancel, msgs, subResult>>
        /\ g[i] = "decoding"
    BY <2>1 DEF ProcessMessage
  <2>3. RunResultSound'
    BY <1>0, <2>2 DEF RunResultSound
  <2>4. ReportsFailed'
    BY <1>0, <2>2 DEF ReportsFailed
  <2>. QED
    BY <1>0, <2>3, <2>4
<1>8. CASE Stop
  BY <1>0, <1>8 DEF Stop, RunResultSound, ReportsFailed
<1>9. CASE \E i \in DOMAIN g : Deliver(i)
  <2>1. PICK i \in DOMAIN g : Deliver(i)
    BY <1>9
  <2>2. /\ g' = [g EXCEPT ![i] = "done"]
        /\ UNCHANGED <<cancel, msgs, subResult>>
        /\ g[i] \in {"deliverTx", "deliverBlock"}
    BY <2>1 DEF Deliver
  <2>3. RunResultSound'
    BY <1>0, <2>2 DEF RunResultSound
  <2>4. ReportsFailed'
    BY <1>0, <2>2 DEF ReportsFailed
  <2>. QED
    BY <1>0, <2>3, <2>4
<1>10. CASE UNCHANGED subVars
  BY <1>0, <1>10 DEF subVars, RunResultSound, ReportsFailed
<1>. QED
  BY <1>1, <1>2, <1>3, <1>4, <1>5, <1>6, <1>7, <1>8, <1>9, <1>10
     DEF Next, SubscriberStep

(* What Run() returns is backed by what happened, in every run and for    *)
(* every bound: nil only after Stop(), a parse error only from a goroutine *)
(* whose message fails to decode and whose error the loop took.           *)
THEOREM ResultSound == Spec => []RunResultSound
<1>1. IInv => RunResultSound
  BY DEF IInv
<1>. QED
  BY IInvInit, IInvStep, <1>1, PTL DEF Spec

=============================================================================
