------------------------ MODULE SubscriberRefinement ------------------------
(***************************************************************************)
(* Proof that the ZMQ subscriber (Subscriber.tla) implements the design's *)
(* contract (SubscriberSpec.tla) under the mapping SS of Subscriber.tla,  *)
(* for every choice of topics, messages and bound MaxMsgs.                *)
(***************************************************************************)
EXTENDS SubscriberProofs, Naturals, TLAPS

(* A goroutine that has decoded its message is in the state processMessage *)
(* chose for it; only the send that was taken moves it on, to "done".     *)
GOutcome ==
    \A i \in DOMAIN g :
        g[i] \in {"deliverTx", "deliverBlock", "report", "panicked"} => g[i] = Outcome(msgs[i])

(* The inductive invariant behind the refinement. *)
RInv == IInv /\ GOutcome

-----------------------------------------------------------------------------
(* processMessage branches on the topic: parseTransaction, parseBlock, or *)
(* the unknown-topic error.                                                *)
LEMMA OutcomeCases ==
    ASSUME NEW m
    PROVE  /\ m.topic = "rawtxwithfee" => Outcome(m) = TxOutcome(m)
           /\ m.topic = "rawblock" => Outcome(m) = BlockOutcome(m)
           /\ m.topic \notin {"rawtxwithfee", "rawblock"} => Outcome(m) = "report"
BY Zenon DEF Outcome, TopicRawTxWithFee, TopicRawBlock

(* processMessage sends a record on IncomingTx or IncomingBlocks exactly  *)
(* for the messages the design says decode, and an error only for the     *)
(* others; the goroutine never ends up "done" or "decoding" by itself.    *)
LEMMA OutcomeDecodes ==
    ASSUME NEW m \in MessageType
    PROVE  /\ Outcome(m) \in {"deliverTx", "deliverBlock"} <=> SS!Decodes(m)
           /\ Outcome(m) = "report" => ~SS!Decodes(m)
           /\ Outcome(m) \in {"deliverTx", "deliverBlock", "report", "panicked"}
<1>1. CASE m.topic = "rawtxwithfee"
  BY <1>1, OutcomeCases DEF TxOutcome, SS!Decodes, SS!Kind
<1>2. CASE m.topic = "rawblock"
  <2>1. m.nframes \in 0..3
    BY DEF MessageType
  <2>. QED
    BY <1>2, <2>1, OutcomeCases DEF BlockOutcome, SS!Decodes, SS!Kind
<1>3. CASE m.topic \notin {"rawtxwithfee", "rawblock"}
  BY <1>3, OutcomeCases DEF SS!Decodes, SS!Kind
<1>. QED
  BY <1>1, <1>2, <1>3

(* Where a step keeps the messages received, does not finish a goroutine  *)
(* and starts none finished, the sets of handed and reported messages do  *)
(* not change.                                                             *)
LEMMA DoneFrame ==
    ASSUME DOMAIN g \subseteq DOMAIN g',
           \A i \in DOMAIN g' : (g'[i] = "done") = (i \in DOMAIN g /\ g[i] = "done"),
           \A i \in DOMAIN g : msgs'[i] = msgs[i]
    PROVE  Handed' = Handed /\ Reported' = Reported
BY DEF Handed, Reported

(* The phases the mapping gives the program counter of Run(). *)
LEMMA PhaseValues ==
    /\ PhaseOf["new"] = "connecting"
    /\ PhaseOf["failed"] = "connectFailed"
    /\ PhaseOf["idle"] = "connected"
    /\ PhaseOf["loop"] = "receiving"
    /\ PhaseOf["select"] = "receiving"
    /\ PhaseOf["recv"] = "receiving"
    /\ PhaseOf["closed"] = "closed"
BY DEF PhaseOf

-----------------------------------------------------------------------------
(* No goroutine exists at the start. *)
LEMMA GOutcomeInit == Init => GOutcome
BY DEF Init, GOutcome

(* Every step keeps GOutcome: RunRecv starts a goroutine in "decoding",   *)
(* ProcessMessage sets it to Outcome of its message, and the other steps  *)
(* only move a goroutine to "done" or keep g and msgs.                    *)
LEMMA GOutcomeStep == TypeOK /\ GOutcome /\ [Next]_subVars => GOutcome'
<1> SUFFICES ASSUME TypeOK, GOutcome, [Next]_subVars PROVE GOutcome'
  OBVIOUS
<1>1. CASE UNCHANGED <<msgs, g>>
  BY <1>1 DEF GOutcome
<1>2. CASE RunSelect /\ ~UNCHANGED <<msgs, g>>
  <2>1. PICK i \in DOMAIN g : g' = [g EXCEPT ![i] = "done"] /\ UNCHANGED msgs
    BY <1>2 DEF RunSelect
  <2>. QED
    BY <2>1 DEF GOutcome, TypeOK
<1>3. CASE RunRecv /\ ~UNCHANGED <<msgs, g>>
  <2>1. PICK m \in Messages : msgs' = Append(msgs, m) /\ g' = Append(g, "decoding")
    BY <1>3 DEF RunRecv
  <2>. QED
    BY <2>1 DEF GOutcome, TypeOK
<1>4. CASE \E i \in DOMAIN g : ProcessMessage(i)
  <2>1. PICK i \in DOMAIN g : ProcessMessage(i)
    BY <1>4
  <2>. QED
    BY <2>1 DEF ProcessMessage, GOutcome, TypeOK
<1>5. CASE \E i \in DOMAIN g : Deliver(i)
  <2>1. PICK i \in DOMAIN g : Deliver(i)
    BY <1>5
  <2>. QED
    BY <2>1 DEF Deliver, GOutcome, TypeOK
<1>. QED
  BY <1>1, <1>2, <1>3, <1>4, <1>5
     DEF Next, SubscriberStep, NewZMQSubscriber, RunStart, RunLoopExit,
         RunLoopContinue, Stop, subVars

LEMMA RInvInit == Init => RInv
BY IInvInit, GOutcomeInit DEF RInv

LEMMA RInvStep == RInv /\ [Next]_subVars => RInv'
BY IInvStep, GOutcomeStep DEF RInv, IInv

-----------------------------------------------------------------------------
(* The subscriber starts where the design starts: connecting, nothing     *)
(* received, handed or reported, no Stop() and no result.                 *)
LEMMA RefineInit == Init => SS!Init
<1> SUFFICES ASSUME Init PROVE SS!Init
  OBVIOUS
<1>1. PhaseOf[subPc] = "connecting"
  BY PhaseValues DEF Init
<1>2. Handed = {} /\ Reported = {}
  BY DEF Init, Handed, Reported
<1>. QED
  BY <1>1, <1>2 DEF Init, SS!Init, NoResult, Result

(* A step that keeps the phase, the messages, the goroutines, the flag    *)
(* and the result is a stutter of the design.                              *)
LEMMA StutterStep ==
    ASSUME PhaseOf[subPc'] = PhaseOf[subPc], UNCHANGED <<msgs, g, cancel, subResult>>
    PROVE  UNCHANGED SS!svars
BY DEF SS!svars, Handed, Reported

(* Every step of the subscriber is a step of the design or a stutter:     *)
(* NewZMQSubscriber connects, RunStart starts the run, RunRecv receives   *)
(* or ends the run on an error, the loop's exit ends it on Stop(), the    *)
(* parseErrors case of its select reports a message that does not decode, *)
(* a consumer's receive hands a record on, and polling, timeouts and      *)
(* decoding change nothing the design sees.                                *)
LEMMA RefineStep == RInv /\ [Next]_subVars => [SS!Next]_SS!svars
<1> SUFFICES ASSUME RInv, [Next]_subVars PROVE [SS!Next]_SS!svars
  OBVIOUS
<1>0. /\ TypeOK /\ GOutcome
      /\ DOMAIN g = DOMAIN msgs
      /\ DOMAIN g \subseteq 1..MaxMsgs
      /\ \A i \in DOMAIN msgs : msgs[i] \in MessageType
  BY SubscriberAssumption DEF RInv, IInv, TypeOK
<1>1. CASE NewZMQSubscriber
  <2>1. PhaseOf[subPc] = "connecting" /\ PhaseOf[subPc'] \in {"connected", "connectFailed"}
    BY <1>1, PhaseValues DEF NewZMQSubscriber
  <2>2. UNCHANGED <<Handed, Reported>>
    BY <1>1 DEF NewZMQSubscriber, Handed, Reported
  <2>. QED
    BY <1>1, <2>1, <2>2 DEF NewZMQSubscriber, SS!Next, SS!Connect
<1>2. CASE RunStart
  <2>1. PhaseOf[subPc] = "connected"
    BY <1>2, PhaseValues DEF RunStart
  <2>2. UNCHANGED <<Handed, Reported>>
    BY <1>2 DEF RunStart, Handed, Reported
  <2>3. \/ PhaseOf[subPc'] = "receiving" /\ UNCHANGED subResult
        \/ PhaseOf[subPc'] = "closed" /\ subResult' = [kind |-> "setupErr", msg |-> 0]
    BY <1>2, PhaseValues DEF RunStart, Return, Result
  <2>. QED
    BY <1>2, <2>1, <2>2, <2>3 DEF RunStart, SS!Next, SS!StartRun
<1>3. CASE RunLoopExit
  <2>1. /\ PhaseOf[subPc] = "receiving" /\ PhaseOf[subPc'] = "closed"
        /\ subResult' = [kind |-> "nil", msg |-> 0]
    BY <1>3, PhaseValues DEF RunLoopExit, Return, Result
  <2>2. UNCHANGED <<Handed, Reported>>
    BY <1>3 DEF RunLoopExit, Handed, Reported
  <2>. QED
    BY <1>3, <2>1, <2>2 DEF RunLoopExit, SS!Next, SS!EndOnStop
<1>4. CASE RunLoopContinue
  <2>1. PhaseOf[subPc'] = PhaseOf[subPc]
    BY <1>4, PhaseValues DEF RunLoopContinue
  <2>. QED
    BY <1>4, <2>1, StutterStep DEF RunLoopContinue
<1>5. CASE RunSelect
  <2>1. CASE \E i \in DOMAIN g : /\ g[i] = "report"
                                 /\ g' = [g EXCEPT ![i] = "done"]
                                 /\ Return(Result("parseErr", i))
    <3>1. PICK i \in DOMAIN g : /\ g[i] = "report"
                                /\ g' = [g EXCEPT ![i] = "done"]
                                /\ Return(Result("parseErr", i))
      BY <2>1
    <3>2. /\ PhaseOf[subPc] = "receiving" /\ PhaseOf[subPc'] = "closed"
          /\ subResult' = [kind |-> "parseErr", msg |-> i]
          /\ UNCHANGED <<msgs, cancel>>
      BY <1>5, <3>1, PhaseValues DEF RunSelect, Return, Result
    <3>3. Outcome(msgs[i]) = "report" /\ ~SS!Decodes(msgs[i])
      BY <1>0, <3>1, OutcomeDecodes DEF GOutcome
    <3>4. Handed' = Handed /\ Reported' = Reported \cup {i}
      BY <1>0, <3>1, <3>2, <3>3 DEF Handed, Reported, TypeOK
    <3>5. SS!Fail(i)
      BY <1>0, <3>1, <3>2, <3>3, <3>4 DEF SS!Fail
    <3>. QED
      BY <1>0, <3>1, <3>5 DEF SS!Next
  <2>2. CASE subPc' = "recv" /\ UNCHANGED <<g, subResult>>
    <3>1. PhaseOf[subPc'] = PhaseOf[subPc]
      BY <1>5, <2>2, PhaseValues DEF RunSelect
    <3>. QED
      BY <1>5, <2>2, <3>1, StutterStep DEF RunSelect
  <2>. QED
    BY <1>5, <2>1, <2>2 DEF RunSelect
<1>6. CASE RunRecv
  <2>1. PhaseOf[subPc] = "receiving"
    BY <1>6, PhaseValues DEF RunRecv
  <2>2. CASE subPc' = "loop" /\ UNCHANGED <<msgs, g, subResult>>
    BY <1>6, <2>1, <2>2, PhaseValues, StutterStep DEF RunRecv
  <2>3. CASE Return(Result("recvErr", 0)) /\ UNCHANGED <<msgs, g>>
    <3>1. PhaseOf[subPc'] = "closed" /\ subResult' = [kind |-> "recvErr", msg |-> 0]
      BY <2>3, PhaseValues DEF Return, Result
    <3>2. UNCHANGED <<Handed, Reported>>
      BY <2>3 DEF Handed, Reported
    <3>. QED
      BY <1>6, <2>1, <2>3, <3>1, <3>2 DEF RunRecv, SS!Next, SS!EndOnRecvError
  <2>4. CASE /\ Len(msgs) < MaxMsgs
             /\ \E m \in Messages : /\ msgs' = Append(msgs, m)
                                    /\ g' = Append(g, "decoding")
             /\ subPc' = "loop"
             /\ UNCHANGED <<socket, subResult>>
    <3>1. PICK m \in Messages : /\ msgs' = Append(msgs, m)
                                /\ g' = Append(g, "decoding")
      BY <2>4
    <3>2. Handed' = Handed /\ Reported' = Reported
      <4>1. /\ DOMAIN g \subseteq DOMAIN g'
            /\ \A i \in DOMAIN g' : (g'[i] = "done") = (i \in DOMAIN g /\ g[i] = "done")
            /\ \A i \in DOMAIN g : msgs'[i] = msgs[i]
        BY <1>0, <3>1 DEF TypeOK
      <4>. QED
        BY <4>1, DoneFrame
    <3>3. PhaseOf[subPc'] = "receiving"
      BY <2>4, PhaseValues
    <3>4. SS!Receive(m)
      BY <1>6, <2>1, <2>4, <3>1, <3>2, <3>3 DEF RunRecv, SS!Receive
    <3>. QED
      BY <3>4 DEF SS!Next
  <2>. QED
    BY <1>6, <2>2, <2>3, <2>4 DEF RunRecv
<1>7. CASE \E i \in DOMAIN g : ProcessMessage(i)
  <2>1. PICK i \in DOMAIN g : ProcessMessage(i)
    BY <1>7
  <2>2. Outcome(msgs[i]) # "done"
    BY <1>0, OutcomeDecodes
  <2>3. Handed' = Handed /\ Reported' = Reported
    <3>1. /\ DOMAIN g \subseteq DOMAIN g'
          /\ \A j \in DOMAIN g' : (g'[j] = "done") = (j \in DOMAIN g /\ g[j] = "done")
          /\ \A j \in DOMAIN g : msgs'[j] = msgs[j]
      BY <1>0, <2>1, <2>2 DEF ProcessMessage, TypeOK
    <3>. QED
      BY <3>1, DoneFrame
  <2>. QED
    BY <2>1, <2>3 DEF ProcessMessage, SS!svars
<1>8. CASE Stop
  <2>1. UNCHANGED <<Handed, Reported>>
    BY <1>8 DEF Stop, Handed, Reported
  <2>. QED
    BY <1>8, <2>1 DEF Stop, SS!Next, SS!Stop
<1>9. CASE \E i \in DOMAIN g : Deliver(i)
  <2>1. PICK i \in DOMAIN g : Deliver(i)
    BY <1>9
  <2>2. /\ g[i] = Outcome(msgs[i])
        /\ Outcome(msgs[i]) \in {"deliverTx", "deliverBlock"}
        /\ SS!Decodes(msgs[i])
    BY <1>0, <2>1, OutcomeDecodes DEF Deliver, GOutcome
  <2>3. Handed' = Handed \cup {i} /\ Reported' = Reported /\ i \notin Handed
    BY <1>0, <2>1, <2>2 DEF Deliver, Handed, Reported, TypeOK
  <2>4. SS!Hand(i)
    BY <1>0, <2>1, <2>2, <2>3 DEF Deliver, SS!Hand
  <2>. QED
    BY <1>0, <2>4 DEF SS!Next
<1>10. CASE UNCHANGED subVars
  BY <1>10, StutterStep DEF subVars
<1>. QED
  BY <1>1, <1>2, <1>3, <1>4, <1>5, <1>6, <1>7, <1>8, <1>9, <1>10
     DEF Next, SubscriberStep

(* The subscriber implements the design's contract of §4.2 and §7: it    *)
(* hands on exactly the messages that decode, each once, ends Run() only  *)
(* on Stop(), a setup or receive error or the error of a message that     *)
(* does not decode, and returns what ended it.                            *)
THEOREM SubscriberImplementsSpec == Spec => ImplementsSubscriberSpec
BY RInvInit, RInvStep, RefineInit, RefineStep, PTL
   DEF Spec, ImplementsSubscriberSpec, SS!Spec

=============================================================================
