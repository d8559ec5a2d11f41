------------------------------ MODULE RPCClient ------------------------------
(***************************************************************************)
(* The Bitcoin Core RPC test client of bademeister-go (package             *)
(* bitcoinrpcclient): NewBitcoinRPCClient and its readiness loop           *)
(* waitTillRPCServerReady.                                                 *)
(*                                                                         *)
(* The loop calls GetBlockCount; on an error it adds checkInterval to      *)
(* currentWaitTime and sleeps for checkInterval, and it gives up once      *)
(* currentWaitTime reaches the timeout.  Time is counted in ticks of       *)
(* checkInterval (100 ms).  now is the real time spent in the loop; a call *)
(* takes between 0 and MaxCall ticks (an HTTP round trip, or a server that *)
(* accepts the connection and answers late).  The server comes up at a     *)
(* moment of its own choosing, or never.                                   *)
(***************************************************************************)
EXTENDS Naturals

CONSTANTS
    Timeout,   \* the timeout argument, in ticks (10 s is 100 ticks)
    MaxCall    \* the longest a GetBlockCount call may take, in ticks

CheckInterval == 1

(* The longest the loop can take: Timeout failed calls of MaxCall ticks,  *)
(* each followed by a sleep, and one last call.  Steps that would pass it *)
(* are cut off; no behaviour of the code reaches it.                       *)
MaxNow == Timeout * (CheckInterval + MaxCall) + MaxCall

ASSUME RPCClientAssumption == Timeout \in Nat /\ MaxCall \in Nat

VARIABLES
    pc,               \* "new", "loop", "call", "sleep", "ready", "timedOut", "failed"
    currentWaitTime,  \* the local currentWaitTime
    now,              \* ticks spent since the loop started
    server            \* "down" or "up": whether GetBlockCount succeeds

vars == <<pc, currentWaitTime, now, server>>

Init ==
    /\ pc = "new"
    /\ currentWaitTime = 0
    /\ now = 0
    /\ server \in {"down", "up"}

(* rpcclient.New succeeds (HTTP POST mode opens no connection) or fails. *)
NewClient ==
    /\ pc = "new"
    /\ pc' \in {"loop", "failed"}
    /\ UNCHANGED <<currentWaitTime, now, server>>

(* Mutant: the loop condition is currentWaitTime <= timeout. *)
LoopCheckOffByOne ==
    /\ pc = "loop"
    /\ pc' = IF currentWaitTime <= Timeout THEN "call" ELSE "timedOut"
    /\ UNCHANGED <<currentWaitTime, now, server>>

(* for currentWaitTime < timeout *)
LoopCheck ==
    /\ pc = "loop"
    /\ pc' = IF currentWaitTime < Timeout THEN "call" ELSE "timedOut"
    /\ UNCHANGED <<currentWaitTime, now, server>>

(* Mutant: a failed call does not count towards currentWaitTime. *)
CallFailsNoCount(d) ==
    /\ pc = "call"
    /\ server = "down"
    /\ now + d <= MaxNow
    /\ now' = now + d
    /\ pc' = "sleep"
    /\ UNCHANGED <<currentWaitTime, server>>

(* GetBlockCount fails after d ticks: currentWaitTime += checkInterval. *)
CallFails(d) ==
    /\ pc = "call"
    /\ server = "down"
    /\ now + d <= MaxNow
    /\ now' = now + d
    /\ currentWaitTime' = currentWaitTime + CheckInterval
    /\ pc' = "sleep"
    /\ UNCHANGED server

(* GetBlockCount answers after d ticks: return nil. *)
CallSucceeds(d) ==
    /\ pc = "call"
    /\ server = "up"
    /\ now + d <= MaxNow
    /\ now' = now + d
    /\ pc' = "ready"
    /\ UNCHANGED <<currentWaitTime, server>>

(* Mutant: the wait time is advanced without the sleep. *)
SleepSkipped ==
    /\ pc = "sleep"
    /\ pc' = "loop"
    /\ UNCHANGED <<currentWaitTime, now, server>>

(* time.Sleep(checkInterval) *)
Sleep ==
    /\ pc = "sleep"
    /\ now + CheckInterval <= MaxNow
    /\ now' = now + CheckInterval
    /\ pc' = "loop"
    /\ UNCHANGED <<currentWaitTime, server>>

(* bitcoind finishes starting up, at any moment. *)
ServerStarts ==
    /\ server = "down"
    /\ server' = "up"
    /\ UNCHANGED <<pc, currentWaitTime, now>>

Next ==
    \/ NewClient
    \/ LoopCheck
    \/ \E d \in 0..MaxCall : CallFails(d) \/ CallSucceeds(d)
    \/ Sleep
    \/ ServerStarts

(* The client's goroutine runs until the function returns, and a call     *)
(* returns (the test's bitcoind answers or refuses); the server gets no   *)
(* fairness.                                                               *)
Spec ==
    /\ Init /\ [][Next]_vars
    /\ WF_vars(NewClient) /\ WF_vars(LoopCheck) /\ WF_vars(Sleep)
    /\ WF_vars(\E d \in 0..MaxCall : CallFails(d) \/ CallSucceeds(d))

-----------------------------------------------------------------------------
Done == pc \in {"ready", "timedOut", "failed"}

TypeOK ==
    /\ pc \in {"new", "loop", "call", "sleep", "ready", "timedOut", "failed"}
    /\ currentWaitTime \in 0..Timeout
    /\ now \in 0..MaxNow
    /\ server \in {"down", "up"}

(* The loop never gives up early: when waitTillRPCServerReady returns its *)
(* timeout error, at least `timeout` of real time has passed, all of it   *)
(* in calls that failed and in the sleeps after them.                      *)
GivesUpOnlyAfterTimeout ==
    pc = "timedOut" => now >= Timeout

(* NewBitcoinRPCClient returns: the readiness loop ends, whether or not   *)
(* the server ever comes up.                                               *)
WaitEnds == <>Done

(* "waits for a maximum of 10 seconds for the corresponding RPC server to *)
(* be ready.  Otherwise it returns a timeout" (the comment on             *)
(* NewBitcoinRPCClient) and "times out after `timeout`" (the comment on   *)
(* waitTillRPCServerReady): the loop returns within the timeout.          *)
ReturnsWithinTimeout ==
    Done => now <= Timeout

=============================================================================
