----------------------------- MODULE Subscriber -----------------------------
(***************************************************************************)
(* The ZMQ subscriber of bademeister-go (package zmqsubscriber).           *)
(*                                                                         *)
(* NewZMQSubscriber opens a SUB socket on the two topics.  Run() loops:   *)
(* it reads the unsynchronised flag z.cancel, polls the unbuffered channel *)
(* parseErrors without blocking, and receives with a one second timeout.   *)
(* Every received message is handed to a fresh goroutine running          *)
(* processMessage, which decodes it and then blocks on the unbuffered      *)
(* channel IncomingTx or IncomingBlocks until a consumer takes the record, *)
(* or blocks on parseErrors until the loop polls it.  The deferred        *)
(* socket.Close() runs on every return of Run().                           *)
(*                                                                         *)
(* Goroutine i handles the i-th received message msgs[i]; g[i] is where it *)
(* is.  A message is a record whose fields are what processMessage tells   *)
(* apart: its topic, its number of payload frames and whether its body    *)
(* decodes under the wire format (WireCodec models that decoding).        *)
(***************************************************************************)
EXTENDS Naturals, Sequences

CONSTANTS
    TxIds,        \* transaction ids the feed may carry (model values)
    Topics,       \* topic names a message may be tagged with
    Messages,     \* the messages the socket may deliver
    MaxMsgs       \* bound on the number of messages received in a run

TopicRawTxWithFee == "rawtxwithfee"
TopicRawBlock     == "rawblock"

MessageType ==
    [topic: Topics, nframes: 0..3, wellFormed: BOOLEAN, txid: TxIds]

ASSUME SubscriberAssumption ==
    /\ {TopicRawTxWithFee, TopicRawBlock} \subseteq Topics
    /\ Messages \subseteq MessageType
    /\ MaxMsgs \in Nat

(* Where the goroutine of a message is. *)
GStates == {"decoding", "deliverTx", "deliverBlock", "report", "done", "panicked"}

(* What Run() returned: nothing yet, nil, or an error of some origin.  A   *)
(* parse error names the message whose goroutine reported it.              *)
ResultKinds == {"none", "nil", "setupErr", "recvErr", "parseErr"}
Result(k, i) == [kind |-> k, msg |-> i]
NoResult == Result("none", 0)

VARIABLES
    subPc,        \* "new", "failed", "idle", "loop", "select", "recv", "closed"
    socket,       \* "none", "open", "closed"
    cancel,       \* the field z.cancel
    msgs,         \* the messages received so far, in order of receipt
    g,            \* g[i]: the state of the goroutine that handles msgs[i]
    subResult     \* the value Run() returned

subVars == <<subPc, socket, cancel, msgs, g, subResult>>

(* The whole process has died: a goroutine panicked and nothing recovers. *)
Crashed == \E i \in DOMAIN g : g[i] = "panicked"

-----------------------------------------------------------------------------
(* processMessage(topic, payload), lines 156-170, with the early returns   *)
(* of parseTransaction and parseBlock: the state the goroutine reaches     *)
(* once the message is decoded.                                            *)

(* Mutant: the error of the deserialisation of the body is dropped. *)
TxOutcomeNoDecodeCheck(m) ==
    IF m.nframes = 2 THEN "deliverTx" ELSE "report"

(* parseTransaction: len(payload) != 2 is an error, so is a body that is  *)
(* too short for the fee trailer or that does not deserialize.            *)
TxOutcome(m) ==
    IF m.nframes = 2 /\ m.wellFormed THEN "deliverTx" ELSE "report"

(* parseBlock indexes msg[0] and msg[1] without checking the length: a    *)
(* payload of fewer than two frames is an index-out-of-range panic.       *)
BlockOutcome(m) ==
    IF m.nframes < 2 THEN "panicked"
    ELSE IF m.wellFormed THEN "deliverBlock" ELSE "report"

Outcome(m) ==
    CASE m.topic = TopicRawTxWithFee -> TxOutcome(m)
      [] m.topic = TopicRawBlock     -> BlockOutcome(m)
      [] OTHER                       -> "report"

-----------------------------------------------------------------------------
Init ==
    /\ subPc = "new"
    /\ socket = "none"
    /\ cancel = FALSE
    /\ msgs = <<>>
    /\ g = <<>>
    /\ subResult = NoResult

(* NewZMQSubscriber: zmq4.NewSocket, SetSubscribe for both topics, then   *)
(* Connect.  A failure after NewSocket returns without closing the socket. *)
NewZMQSubscriber ==
    /\ subPc = "new"
    /\ \/ /\ subPc' = "failed"                  \* NewSocket failed
          /\ UNCHANGED socket
       \/ /\ subPc' = "failed"                  \* SetSubscribe or Connect failed
          /\ socket' = "open"
       \/ /\ subPc' = "idle"
          /\ socket' = "open"
    /\ UNCHANGED <<cancel, msgs, g, subResult>>

(* Return from Run() with result r; the deferred socket.Close() runs. *)
Return(r) ==
    /\ subPc' = "closed"
    /\ socket' = "closed"
    /\ subResult' = r

(* Run() up to the loop: SetRcvtimeo(time.Second) may fail. *)
RunStart ==
    /\ subPc = "idle"
    /\ ~Crashed
    /\ \/ subPc' = "loop" /\ UNCHANGED <<socket, subResult>>
       \/ Return(Result("setupErr", 0))
    /\ UNCHANGED <<cancel, msgs, g>>

(* for !z.cancel: the loop ends with nil once it reads cancel as TRUE.    *)
RunLoopExit ==
    /\ subPc = "loop"
    /\ ~Crashed
    /\ cancel
    /\ Return(Result("nil", 0))
    /\ UNCHANGED <<cancel, msgs, g>>

(* The loop goes on when it reads cancel as FALSE.  Stop() writes the flag *)
(* from another goroutine without synchronisation, so the read may still   *)
(* see the old value after Stop(); fairness makes the write visible.       *)
RunLoopContinue ==
    /\ subPc = "loop"
    /\ ~Crashed
    /\ subPc' = "select"
    /\ UNCHANGED <<socket, cancel, msgs, g, subResult>>

(* Mutant: the loop never polls parseErrors. *)
RunSelectNoPoll ==
    /\ subPc = "select"
    /\ ~Crashed
    /\ subPc' = "recv"
    /\ UNCHANGED <<socket, cancel, msgs, g, subResult>>

(* select { case err := <-parseErrors: return err; default: }  A goroutine *)
(* blocked sending its error is a ready case and is taken before default. *)
RunSelect ==
    /\ subPc = "select"
    /\ ~Crashed
    /\ \/ \E i \in DOMAIN g :
             /\ g[i] = "report"
             /\ g' = [g EXCEPT ![i] = "done"]
             /\ Return(Result("parseErr", i))
       \/ /\ \A i \in DOMAIN g : g[i] # "report"
          /\ subPc' = "recv"
          /\ UNCHANGED <<socket, g, subResult>>
    /\ UNCHANGED <<cancel, msgs>>

(* Mutant: a receive timeout is taken for the end of the stream. *)
RunRecvTimeoutReturns ==
    /\ subPc = "recv"
    /\ ~Crashed
    /\ \/ /\ Return(Result("nil", 0))
          /\ UNCHANGED <<msgs, g>>
       \/ /\ Len(msgs) < MaxMsgs
          /\ \E m \in Messages :
               /\ msgs' = Append(msgs, m)
               /\ g' = Append(g, "decoding")
          /\ subPc' = "loop"
          /\ UNCHANGED <<socket, subResult>>
    /\ UNCHANGED cancel

(* Mutant: no receive timeout; RecvMessageBytes blocks until a message or *)
(* an error arrives.                                                       *)
RunRecvBlocking ==
    /\ subPc = "recv"
    /\ ~Crashed
    /\ \/ /\ Return(Result("recvErr", 0))
          /\ UNCHANGED <<msgs, g>>
       \/ /\ Len(msgs) < MaxMsgs
          /\ \E m \in Messages :
               /\ msgs' = Append(msgs, m)
               /\ g' = Append(g, "decoding")
          /\ subPc' = "loop"
          /\ UNCHANGED <<socket, subResult>>
    /\ UNCHANGED cancel

(* Mutant: the message is received but no goroutine is started for it. *)
RunRecvNoGoroutine ==
    /\ subPc = "recv"
    /\ ~Crashed
    /\ \/ /\ subPc' = "loop"
          /\ UNCHANGED <<socket, msgs, g, subResult>>
       \/ /\ Return(Result("recvErr", 0))
          /\ UNCHANGED <<msgs, g>>
       \/ /\ Len(msgs) < MaxMsgs
          /\ \E m \in Messages : msgs' = Append(msgs, m)
          /\ subPc' = "loop"
          /\ UNCHANGED <<socket, g, subResult>>
    /\ UNCHANGED cancel

(* RecvMessageBytes with the one second timeout: EAGAIN and EINTR go back *)
(* to the loop head, any other error ends Run(), a message is given to a  *)
(* new goroutine.                                                          *)
RunRecv ==
    /\ subPc = "recv"
    /\ ~Crashed
    /\ \/ /\ subPc' = "loop"
          /\ UNCHANGED <<socket, msgs, g, subResult>>
       \/ /\ Return(Result("recvErr", 0))
          /\ UNCHANGED <<msgs, g>>
       \/ /\ Len(msgs) < MaxMsgs
          /\ \E m \in Messages :
               /\ msgs' = Append(msgs, m)
               /\ g' = Append(g, "decoding")
          /\ subPc' = "loop"
          /\ UNCHANGED <<socket, subResult>>
    /\ UNCHANGED cancel

(* The goroutine of message i runs processMessage up to its channel send. *)
ProcessMessage(i) ==
    /\ i \in DOMAIN g
    /\ g[i] = "decoding"
    /\ ~Crashed
    /\ g' = [g EXCEPT ![i] = Outcome(msgs[i])]
    /\ UNCHANGED <<subPc, socket, cancel, msgs, subResult>>

(* Stop() sets the flag; it neither waits nor closes anything. *)
Stop ==
    /\ ~Crashed
    /\ ~cancel
    /\ cancel' = TRUE
    /\ UNCHANGED <<subPc, socket, msgs, g, subResult>>

(* A consumer takes the record goroutine i is blocked sending on           *)
(* IncomingTx or IncomingBlocks; the goroutine returns.                    *)
Deliver(i) ==
    /\ g[i] \in {"deliverTx", "deliverBlock"}
    /\ ~Crashed
    /\ g' = [g EXCEPT ![i] = "done"]
    /\ UNCHANGED <<subPc, socket, cancel, msgs, subResult>>

-----------------------------------------------------------------------------
(* The subscriber's own steps, which the daemon's goroutine runs. *)
SubscriberStep ==
    \/ NewZMQSubscriber
    \/ RunStart
    \/ RunLoopExit
    \/ RunLoopContinue
    \/ RunSelect
    \/ RunRecv
    \/ \E i \in DOMAIN g : ProcessMessage(i)

Next ==
    \/ SubscriberStep
    \/ Stop
    \/ \E i \in DOMAIN g : Deliver(i)

(* The Go scheduler runs every runnable goroutine, and the receive returns *)
(* within its timeout with a message or EAGAIN (an error is not promised), *)
(* so each step of Run() and of a goroutine is weakly fair.  RunLoopExit is strongly fair: the write of z.cancel eventually   *)
(* becomes visible to the loop, which reads it once per iteration.  The    *)
(* caller of Stop() and the consumer get no fairness.                      *)
SubscriberFairness ==
    /\ WF_subVars(NewZMQSubscriber)
    /\ WF_subVars(RunStart)
    /\ SF_subVars(RunLoopExit)
    /\ WF_subVars(RunLoopContinue)
    /\ WF_subVars(RunSelect)
    /\ WF_subVars(RunRecv /\ subPc' = "loop")
    /\ \A i \in 1..MaxMsgs : WF_subVars(ProcessMessage(i))

Spec == Init /\ [][Next]_subVars /\ SubscriberFairness

-----------------------------------------------------------------------------
TypeOK ==
    /\ subPc \in {"new", "failed", "idle", "loop", "select", "recv", "closed"}
    /\ socket \in {"none", "open", "closed"}
    /\ cancel \in BOOLEAN
    /\ msgs \in Seq(Messages)
    /\ Len(msgs) <= MaxMsgs
    /\ g \in Seq(GStates)
    /\ Len(g) = Len(msgs)
    /\ subResult \in [kind: ResultKinds, msg: 0..MaxMsgs]

(* What Run() returns is backed by what happened: nil only after Stop()   *)
(* was called, and a parse error only from a goroutine whose message       *)
(* really failed to decode and whose send on parseErrors was taken.        *)
RunResultSound ==
    /\ subResult.kind = "nil" => cancel
    /\ subResult.kind = "parseErr" =>
           /\ subResult.msg \in DOMAIN g
           /\ Outcome(msgs[subResult.msg]) = "report"
           /\ g[subResult.msg] = "done"

Running == subPc \in {"loop", "select", "recv"}

(* Stop() ends Run() within the receive timeout: once the flag is set the *)
(* loop closes the socket and returns (unless the process died).          *)
StopEndsRun == (cancel /\ Running) ~> (subPc = "closed" \/ Crashed)

(* A goroutine whose message failed to decode ends Run(): the loop polls  *)
(* parseErrors on every iteration, so the blocked send is eventually      *)
(* taken, or the loop ends for another reason.                            *)
FailureEndsRun ==
    (\E i \in DOMAIN g : g[i] = "report") ~> (subPc = "closed" \/ Crashed)

(* A decode that failed before Stop() was called is what Run() reports:   *)
(* §4.2 and §7 of the design say the error terminates the loop on the     *)
(* next check and is propagated.  The loop tests z.cancel before it polls *)
(* parseErrors, so a Stop() that comes after the failure, before the next *)
(* poll, makes Run() return nil and the error is lost.                    *)
FailureReturned ==
    (~cancel /\ \E i \in DOMAIN g : g[i] = "report")
        ~> (subResult.kind \in {"parseErr", "recvErr"} \/ Crashed)

-----------------------------------------------------------------------------
(* The subscriber implements the design's contract (SubscriberSpec): the  *)
(* phase is read off the program counter of Run(), a message is handed on *)
(* once its goroutine's send on IncomingTx or IncomingBlocks was taken,   *)
(* and reported once the loop took its send on parseErrors.               *)
PhaseOf == [new |-> "connecting", failed |-> "connectFailed", idle |-> "connected",
            loop |-> "receiving", select |-> "receiving", recv |-> "receiving",
            closed |-> "closed"]

Handed ==
    {i \in DOMAIN g : g[i] = "done" /\ Outcome(msgs[i]) \in {"deliverTx", "deliverBlock"}}

Reported == {i \in DOMAIN g : g[i] = "done" /\ Outcome(msgs[i]) = "report"}

SS == INSTANCE SubscriberSpec WITH sphase <- PhaseOf[subPc], received <- msgs,
         handed <- Handed, reported <- Reported, stopReq <- cancel, sresult <- subResult

(* The subscriber hands on exactly the messages the design says decode,   *)
(* each once, ends only on Stop(), a receive or setup error, or the error *)
(* of a message that does not decode, and reports what ended it.          *)
ImplementsSubscriberSpec == SS!Spec

=============================================================================
