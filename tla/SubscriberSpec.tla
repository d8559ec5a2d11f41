--------------------------- MODULE SubscriberSpec ---------------------------
(***************************************************************************)
(* What the ZMQ subscriber promises (design §4.2, §6 and §7), without      *)
(* goroutines, channels or the polling loop.  It connects, or fails to.    *)
(* While it receives, each message is appended to what was received.  A    *)
(* message of the transaction topic with two payload frames and a body     *)
(* that decodes, or of the block topic with its payload frames and a body  *)
(* that decodes, is handed to the consumer once, in any order (§5).  Any   *)
(* other message is malformed or of an unknown topic, is never handed on,  *)
(* and may end the run with its error.  Run() otherwise ends with nil      *)
(* after Stop(), or with a receive or setup error.                         *)
(***************************************************************************)
EXTENDS Naturals, Sequences

CONSTANTS
    Messages,    \* the messages the feed may carry
    MaxMsgs      \* bound on the number of messages received

(* §7: what decoding a message gives: a record of either type, or the    *)
(* error MalformedPayload or UnknownTopic.                                 *)
Kind(m) ==
    IF m.topic = "rawtxwithfee"
    THEN IF m.nframes = 2 /\ m.wellFormed THEN "tx" ELSE "malformed"
    ELSE IF m.topic = "rawblock"
    THEN IF m.nframes >= 2 /\ m.wellFormed THEN "block" ELSE "malformed"
    ELSE "unknownTopic"

Decodes(m) == Kind(m) \in {"tx", "block"}

VARIABLES
    sphase,      \* "connecting", "connectFailed", "connected", "receiving", "closed"
    received,    \* the messages received, in order
    handed,      \* the indices of the received messages handed to the consumer
    reported,    \* the indices of the messages whose error ended the run
    stopReq,     \* Stop() was called
    sresult      \* what Run() returned: [kind, msg]

svars == <<sphase, received, handed, reported, stopReq, sresult>>

Init ==
    /\ sphase = "connecting"
    /\ received = <<>>
    /\ handed = {}
    /\ reported = {}
    /\ stopReq = FALSE
    /\ sresult = [kind |-> "none", msg |-> 0]

Connect ==
    /\ sphase = "connecting"
    /\ sphase' \in {"connected", "connectFailed"}
    /\ UNCHANGED <<received, handed, reported, stopReq, sresult>>

(* Run() starts receiving, or returns its setup error at once. *)
StartRun ==
    /\ sphase = "connected"
    /\ \/ sphase' = "receiving" /\ UNCHANGED sresult
       \/ sphase' = "closed" /\ sresult' = [kind |-> "setupErr", msg |-> 0]
    /\ UNCHANGED <<received, handed, reported, stopReq>>

Receive(m) ==
    /\ sphase = "receiving"
    /\ Len(received) < MaxMsgs
    /\ received' = Append(received, m)
    /\ UNCHANGED <<sphase, handed, reported, stopReq, sresult>>

(* The record of message i reaches the consumer, once; this may happen    *)
(* after Run() has returned.                                               *)
Hand(i) ==
    /\ i \in DOMAIN received
    /\ Decodes(received[i])
    /\ i \notin handed
    /\ handed' = handed \cup {i}
    /\ UNCHANGED <<sphase, received, reported, stopReq, sresult>>

(* The error of message i ends the run. *)
Fail(i) ==
    /\ sphase = "receiving"
    /\ i \in DOMAIN received
    /\ ~Decodes(received[i])
    /\ sphase' = "closed"
    /\ reported' = reported \cup {i}
    /\ sresult' = [kind |-> "parseErr", msg |-> i]
    /\ UNCHANGED <<received, handed, stopReq>>

Stop ==
    /\ ~stopReq
    /\ stopReq' = TRUE
    /\ UNCHANGED <<sphase, received, handed, reported, sresult>>

EndOnStop ==
    /\ sphase = "receiving"
    /\ stopReq
    /\ sphase' = "closed"
    /\ sresult' = [kind |-> "nil", msg |-> 0]
    /\ UNCHANGED <<received, handed, reported, stopReq>>

EndOnRecvError ==
    /\ sphase = "receiving"
    /\ sphase' = "closed"
    /\ sresult' = [kind |-> "recvErr", msg |-> 0]
    /\ UNCHANGED <<received, handed, reported, stopReq>>

Next ==
    \/ Connect
    \/ StartRun
    \/ \E m \in Messages : Receive(m)
    \/ \E i \in 1..MaxMsgs : Hand(i) \/ Fail(i)
    \/ Stop
    \/ EndOnStop
    \/ EndOnRecvError

Spec == Init /\ [][Next]_svars

=============================================================================
