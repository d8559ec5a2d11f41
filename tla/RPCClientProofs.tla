-------------------------- MODULE RPCClientProofs --------------------------
(***************************************************************************)
(* Proofs about waitTillRPCServerReady (RPCClient.tla), for every timeout  *)
(* and every call duration.                                                *)
(***************************************************************************)
EXTENDS RPCClient, TLAPS

(* currentWaitTime never runs ahead of the time really spent: it grows by  *)
(* one tick per failed call, and the sleep after the call pays that tick   *)
(* back (a call may take no time, so only the sleep catches up).          *)
WaitTimeBehindClock ==
    /\ pc = "sleep" => currentWaitTime <= now + CheckInterval
    /\ pc /= "sleep" => currentWaitTime <= now

(* The loop only leaves for "timedOut" once the counter reached the       *)
(* timeout.                                                                *)
TimedOutCounted == pc = "timedOut" => currentWaitTime >= Timeout

(* A call is only made when the loop condition held. *)
CallBelowTimeout == pc = "call" => currentWaitTime < Timeout

(* The inductive invariant behind GivesUpOnlyAfterTimeout. *)
IInv == TypeOK /\ WaitTimeBehindClock /\ TimedOutCounted /\ CallBelowTimeout

LEMMA IInvInit == Init => IInv
  BY RPCClientAssumption DEF Init, IInv, TypeOK, WaitTimeBehindClock, TimedOutCounted,
                                 CallBelowTimeout, MaxNow, CheckInterval

(* Every step of the loop, and the server coming up, keeps IInv. *)
LEMMA IInvStep == IInv /\ [Next]_vars => IInv'
<1> SUFFICES ASSUME IInv, [Next]_vars PROVE IInv'
  OBVIOUS
<1>. USE RPCClientAssumption DEF IInv, TypeOK, WaitTimeBehindClock, TimedOutCounted,
                                 CallBelowTimeout, CheckInterval
<1>1. CASE NewClient
  BY <1>1 DEF NewClient
<1>2. CASE LoopCheck
  BY <1>2 DEF LoopCheck
<1>3. CASE \E d \in 0..MaxCall : CallFails(d)
  <2>1. PICK d \in 0..MaxCall : CallFails(d)
    BY <1>3
  <2>. QED
    BY <2>1 DEF CallFails
<1>4. CASE \E d \in 0..MaxCall : CallSucceeds(d)
  BY <1>4 DEF CallSucceeds
<1>5. CASE Sleep
  BY <1>5 DEF Sleep
<1>6. CASE ServerStarts
  BY <1>6 DEF ServerStarts
<1>7. CASE UNCHANGED vars
  BY <1>7 DEF vars
<1>. QED
  BY <1>1, <1>2, <1>3, <1>4, <1>5, <1>6, <1>7 DEF Next

(* The readiness loop is well typed: currentWaitTime stays within the    *)
(* timeout and the clock within the longest the loop can take, for every *)
(* timeout and every call duration.                                        *)
THEOREM RPCClientTypeCorrect == Spec => []TypeOK
<1>1. IInv => TypeOK
  BY DEF IInv
<1>. QED
  BY IInvInit, IInvStep, <1>1, PTL DEF Spec

(* waitTillRPCServerReady never returns its timeout error before          *)
(* `timeout` of real time has passed, whatever the timeout and however    *)
(* long each GetBlockCount call takes.                                     *)
THEOREM GiveUpAfterTimeout == Spec => []GivesUpOnlyAfterTimeout
<1>1. IInv => GivesUpOnlyAfterTimeout
  BY RPCClientAssumption DEF IInv, WaitTimeBehindClock, TimedOutCounted,
                             GivesUpOnlyAfterTimeout, TypeOK, MaxNow, CheckInterval
<1>. QED
  BY IInvInit, IInvStep, <1>1, PTL DEF Spec
====
