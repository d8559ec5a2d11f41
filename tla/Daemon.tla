------------------------------- MODULE Daemon -------------------------------
(***************************************************************************)
(* The bademeister daemon (package daemon): the composition of one        *)
(* subscriber and one store.                                               *)
(*                                                                         *)
(* NewBademeisterDaemon creates the subscriber, then the storage, and a   *)
(* quit channel of capacity one.  Run() starts a goroutine (the wrapper)   *)
(* that runs the subscriber's Run(), stores its result in the shared      *)
(* variable zmqSubErr and calls Stop(); Run() itself selects among quit,  *)
(* IncomingTx and IncomingBlocks.  A transaction goes to AddTransaction,  *)
(* whose error ends Run(); a block is dropped (processBlock is a stub).   *)
(* Stop() sends on quit, blocking while it is full.  Close() closes the   *)
(* storage.  The daemon never calls the subscriber's Stop().               *)
(*                                                                         *)
(* The caller of the daemon (main) is the environment: it calls Run()     *)
(* once construction succeeded, may call Stop() once from another         *)
(* goroutine, and calls Close() after Run() returned.                      *)
(***************************************************************************)
EXTENDS Naturals, Sequences

CONSTANTS TxIds, Topics, Messages, MaxMsgs, StoredVersions

VARIABLES
    subPc, socket, cancel, msgs, g, subResult,                  \* subscriber
    file, tables, config, txRows, storePc, initStep, opens, lastResult, \* store
    dPc,         \* "new", "newStorage", "failed", "ready", "select", "returned", "closed"
    quit,        \* the buffered channel quit: who sent each pending value
    zmqSubErr,   \* the variable the wrapper writes the subscriber's result to
    wrapPc,      \* "idle", "running", "stopping", "done": the wrapper goroutine
    userPc,      \* "idle", "stopping", "done": the caller's one Stop()
    dResult,     \* what the daemon's Run() returned
    returnedOn   \* "none", "user", "wrapper", "tx": why Run() returned

Sub == INSTANCE Subscriber
St  == INSTANCE Store WITH MaxOpens <- 1

(* The constants are the subscriber's and the storage's, with the same    *)
(* assumptions: the daemon passes them through unchanged.                  *)
ASSUME DaemonAssumption == Sub!SubscriberAssumption /\ St!StoreAssumption

subVars   == <<subPc, socket, cancel, msgs, g, subResult>>
storeVars == <<file, tables, config, txRows, storePc, initStep, opens, lastResult>>
dVars     == <<dPc, quit, zmqSubErr, wrapPc, userPc, dResult, returnedOn>>
vars      == <<subVars, storeVars, dVars>>

QuitCapacity == 1

Result(k, i) == Sub!Result(k, i)
NoResult == Sub!NoResult
DResultKinds == Sub!ResultKinds \cup {"storeErr"}

(* The process has died: a decode goroutine or getVersion panicked. *)
Crashed == Sub!Crashed \/ storePc = "down"


DaemonDone == dPc \in {"failed", "returned", "closed"}

-----------------------------------------------------------------------------
Init ==
    /\ Sub!Init
    /\ St!Init
    /\ dPc = "new"
    /\ quit = <<>>
    /\ zmqSubErr = NoResult
    /\ wrapPc = "idle"
    /\ userPc = "idle"
    /\ dResult = NoResult
    /\ returnedOn = "none"

(* NewBademeisterDaemon, first half: NewZMQSubscriber.  Its error is      *)
(* returned; otherwise NewStorage follows.                                 *)
NewDaemonSubscriber ==
    /\ dPc = "new"
    /\ Sub!NewZMQSubscriber
    /\ dPc' = IF subPc' = "failed" THEN "failed" ELSE "newStorage"
    /\ UNCHANGED <<storeVars, quit, zmqSubErr, wrapPc, userPc, dResult, returnedOn>>

(* NewBademeisterDaemon, second half: the steps of NewStorage.  Its error *)
(* is returned without closing the subscriber's socket.                    *)
NewDaemonStorage ==
    /\ dPc = "newStorage"
    /\ ~Crashed
    /\ \/ St!NewStorage
       \/ St!Initialize
       \/ St!Migrate
    /\ dPc' = CASE storePc' = "open"   -> "ready"
                [] storePc' = "closed" -> "failed"
                [] OTHER               -> dPc
    /\ UNCHANGED <<subVars, quit, zmqSubErr, wrapPc, userPc, dResult, returnedOn>>

(* Run(): start the wrapper goroutine and enter the select loop. *)
Run ==
    /\ dPc = "ready"
    /\ ~Crashed
    /\ dPc' = "select"
    /\ wrapPc' = "running"
    /\ UNCHANGED <<subVars, storeVars, quit, zmqSubErr, userPc, dResult, returnedOn>>

(* The frame of a step of the subscriber's Run() in the wrapper, or of   *)
(* one of its decode goroutines: the daemon's own state stays.             *)
InWrapper ==
    /\ wrapPc = "running"
    /\ UNCHANGED <<storeVars, dVars>>

(* The steps of the subscriber's Run() and of its decode goroutines.  The *)
(* daemon never calls the subscriber's Stop(), so z.cancel stays false and *)
(* the loop never leaves through its condition (RunLoopExit).              *)
WrapperRunStart == InWrapper /\ Sub!RunStart
WrapperLoopContinue == InWrapper /\ Sub!RunLoopContinue
WrapperSelect == InWrapper /\ Sub!RunSelect
WrapperRecv == InWrapper /\ Sub!RunRecv

(* A decode goroutine's step.  It runs on its own goroutine, so it goes on *)
(* after the wrapper and the daemon have returned.                         *)
DecodeMessage(i) == Sub!ProcessMessage(i) /\ UNCHANGED <<storeVars, dVars>>

SubscriberStep ==
    \/ WrapperRunStart
    \/ WrapperLoopContinue
    \/ WrapperSelect
    \/ WrapperRecv
    \/ \E i \in DOMAIN g : DecodeMessage(i)

(* Mutant: the wrapper records the result but never calls b.Stop(). *)
WrapperSetErrNoStop ==
    /\ wrapPc = "running"
    /\ subPc = "closed"
    /\ ~Crashed
    /\ zmqSubErr' = subResult
    /\ wrapPc' = "done"
    /\ UNCHANGED <<subVars, storeVars, dPc, quit, userPc, dResult, returnedOn>>

(* The wrapper: zmqSubErr = b.zmqSub.Run() once the subscriber returned. *)
WrapperSetErr ==
    /\ wrapPc = "running"
    /\ subPc = "closed"
    /\ ~Crashed
    /\ zmqSubErr' = subResult
    /\ wrapPc' = "stopping"
    /\ UNCHANGED <<subVars, storeVars, dPc, quit, userPc, dResult, returnedOn>>

(* Mutant: the send does not wait for room in the buffer. *)
SendQuitNoWait(who) == quit' = Append(quit, who)

(* Stop(): b.quit <- struct{}{}, which waits for room in the buffer. *)
SendQuit(who) ==
    /\ Len(quit) < QuitCapacity
    /\ quit' = Append(quit, who)

(* The wrapper's b.Stop(). *)
WrapperStop ==
    /\ wrapPc = "stopping"
    /\ ~Crashed
    /\ SendQuit("wrapper")
    /\ wrapPc' = "done"
    /\ UNCHANGED <<subVars, storeVars, dPc, zmqSubErr, userPc, dResult, returnedOn>>

(* The caller calls Stop() once the daemon is built ... *)
UserStopCall ==
    /\ userPc = "idle"
    /\ dPc \in {"ready", "select", "returned"}
    /\ ~Crashed
    /\ userPc' = "stopping"
    /\ UNCHANGED <<subVars, storeVars, dPc, quit, zmqSubErr, wrapPc, dResult, returnedOn>>

(* ... and the call returns once its value is in the buffer. *)
UserStopSend ==
    /\ userPc = "stopping"
    /\ ~Crashed
    /\ SendQuit("user")
    /\ userPc' = "done"
    /\ UNCHANGED <<subVars, storeVars, dPc, zmqSubErr, wrapPc, dResult, returnedOn>>

(* Mutant: the quit case returns nil instead of zmqSubErr. *)
RecvQuitNil ==
    /\ dPc = "select"
    /\ ~Crashed
    /\ quit # <<>>
    /\ quit' = Tail(quit)
    /\ dResult' = Result("nil", 0)
    /\ returnedOn' = Head(quit)
    /\ dPc' = "returned"
    /\ UNCHANGED <<subVars, storeVars, zmqSubErr, wrapPc, userPc>>

(* case <-b.quit: return zmqSubErr. *)
RecvQuit ==
    /\ dPc = "select"
    /\ ~Crashed
    /\ quit # <<>>
    /\ quit' = Tail(quit)
    /\ dResult' = zmqSubErr
    /\ returnedOn' = Head(quit)
    /\ dPc' = "returned"
    /\ UNCHANGED <<subVars, storeVars, zmqSubErr, wrapPc, userPc>>

(* Mutant: an error of processTransaction is logged and the loop goes on. *)
RecvTxLogOnly(i) ==
    /\ dPc = "select"
    /\ ~Crashed
    /\ g[i] = "deliverTx"
    /\ Sub!Deliver(i)
    /\ St!AddTransaction(msgs[i].txid)
    /\ UNCHANGED <<dPc, dResult, returnedOn>>
    /\ UNCHANGED <<quit, zmqSubErr, wrapPc, userPc>>

(* case tx := <-IncomingTx: processTransaction, i.e. AddTransaction; its  *)
(* error is returned.  dumpStats only reads TxCount().                     *)
RecvTx(i) ==
    /\ dPc = "select"
    /\ ~Crashed
    /\ g[i] = "deliverTx"
    /\ Sub!Deliver(i)
    /\ St!AddTransaction(msgs[i].txid)
    /\ IF lastResult' = "ok"
       THEN UNCHANGED <<dPc, dResult, returnedOn>>
       ELSE /\ dPc' = "returned"
            /\ dResult' = Result("storeErr", i)
            /\ returnedOn' = "tx"
    /\ UNCHANGED <<quit, zmqSubErr, wrapPc, userPc>>

(* case block := <-IncomingBlocks: processBlock logs and returns nil. *)
RecvBlock(i) ==
    /\ dPc = "select"
    /\ ~Crashed
    /\ g[i] = "deliverBlock"
    /\ Sub!Deliver(i)
    /\ UNCHANGED <<storeVars, dVars>>

(* Close(): the storage is closed; the subscriber is not touched. *)
Close ==
    /\ dPc = "returned"
    /\ ~Crashed
    /\ St!Close
    /\ dPc' = "closed"
    /\ UNCHANGED <<subVars, quit, zmqSubErr, wrapPc, userPc, dResult, returnedOn>>

-----------------------------------------------------------------------------
Next ==
    \/ NewDaemonSubscriber
    \/ NewDaemonStorage
    \/ Run
    \/ SubscriberStep
    \/ WrapperSetErr
    \/ WrapperStop
    \/ UserStopCall
    \/ UserStopSend
    \/ RecvQuit
    \/ \E i \in DOMAIN g : RecvTx(i) \/ RecvBlock(i)
    \/ Close

(* Every goroutine the program starts is scheduled (weak fairness); a     *)
(* receive returns within its timeout with a message or EAGAIN; Go's      *)
(* select picks uniformly among ready cases, so each ready case is weakly *)
(* fair; a sender blocked on the full quit channel waits in FIFO order,   *)
(* so it is served once room keeps reappearing (strong fairness).  main   *)
(* calls Run() after construction.  The caller's Stop() and Close() are   *)
(* its own choice and get no fairness.                                     *)
Fairness ==
    /\ WF_vars(NewDaemonSubscriber)
    /\ WF_vars(NewDaemonStorage)
    /\ WF_vars(Run)
    /\ WF_vars(WrapperRunStart)
    /\ WF_vars(WrapperLoopContinue)
    /\ WF_vars(WrapperSelect)
    /\ WF_vars(WrapperRecv /\ subPc' = "loop")
    /\ \A i \in 1..MaxMsgs : WF_vars(DecodeMessage(i))
    /\ WF_vars(WrapperSetErr)
    /\ SF_vars(WrapperStop)
    /\ SF_vars(UserStopSend)
    /\ WF_vars(RecvQuit)
    /\ \A i \in 1..MaxMsgs : WF_vars(i \in DOMAIN g /\ (RecvTx(i) \/ RecvBlock(i)))

Spec == Init /\ [][Next]_vars /\ Fairness

-----------------------------------------------------------------------------
TypeOK ==
    /\ Sub!TypeOK
    /\ St!TypeOK
    /\ dPc \in {"new", "newStorage", "failed", "ready", "select", "returned", "closed"}
    /\ quit \in Seq({"user", "wrapper"})
    /\ Len(quit) <= QuitCapacity
    /\ zmqSubErr \in [kind: Sub!ResultKinds, msg: 0..MaxMsgs]
    /\ wrapPc \in {"idle", "running", "stopping", "done"}
    /\ userPc \in {"idle", "stopping", "done"}
    /\ dResult \in [kind: DResultKinds, msg: 0..MaxMsgs]
    /\ returnedOn \in {"none", "user", "wrapper", "tx"}

(* What the daemon's Run() returns after the wrapper's Stop() is what the *)
(* subscriber's Run() returned: the wrapper writes zmqSubErr before it    *)
(* sends on quit, and the select reads it after receiving.  zmqSubErr is  *)
(* shared without a lock, so only that order makes the handoff sound.     *)
ErrorPropagated == returnedOn = "wrapper" => dResult = subResult

Delivered(i) == g[i] = "done" /\ Sub!Outcome(msgs[i]) = "deliverTx"

Stored(t) == \E r \in DOMAIN txRows : txRows[r] = t

(* No decoded transaction is silently dropped: every one the daemon took  *)
(* from IncomingTx has its txid in the store, or made Run() return the    *)
(* store's error for it (a duplicate txid or an I/O error).               *)
NoSilentDrop ==
    \A i \in DOMAIN g :
        Delivered(i) => (Stored(msgs[i].txid) \/ dResult = Result("storeErr", i))

(* The daemon seen as DaemonSpec: its phase from dPc, the store's rows as *)
(* the log, the transactions taken from IncomingTx as the deliveries, the *)
(* kind of what Run() returned as the result.                              *)
Phase ==
    CASE dPc \in {"new", "newStorage"} -> "starting"
      [] dPc \in {"ready", "select"}   -> "running"
      [] dPc = "returned"              -> "stopped"
      [] dPc = "failed"                -> "failed"
      [] dPc = "closed"                -> "closed"

Taken == {i \in DOMAIN g : Delivered(i)}

DS == INSTANCE DaemonSpec
        WITH phase <- Phase, log <- txRows, taken <- Taken, result <- dResult.kind,
             Deliveries <- 1..MaxMsgs, RunResults <- Sub!ResultKinds

(* The daemon implements its design (§4.4, §7): each transaction taken    *)
(* from IncomingTx is added to the store once or ends Run() with the       *)
(* store's error, a duplicate always does, the store changes only then,    *)
(* and Run() otherwise returns what the wrapper left in zmqSubErr, once.   *)
ImplementsDaemonSpec == DS!Spec

(* Fail-fast (§7): a message that fails to decode ends the daemon's Run() *)
(* with an error, unless the caller's own Stop() ended it first.  The     *)
(* error travels through parseErrors, the subscriber's return, zmqSubErr  *)
(* and quit.                                                               *)
FailFast ==
    (\E i \in DOMAIN g : g[i] = "report")
        ~> (/\ dPc \in {"returned", "closed"}
            /\ (dResult.kind \notin {"none", "nil"} \/ returnedOn = "user"))
           \/ Crashed

(* The socket is closed on every path (§5: closed exactly once, on loop   *)
(* exit, regardless of exit cause; §7: no partial-failure mode in which   *)
(* the subscriber keeps running).  NewBademeisterDaemon leaks it when      *)
(* NewStorage or Connect fails, and Run() returns on a store error or on  *)
(* Stop() without stopping the subscriber.                                 *)
SocketEventuallyClosed == (socket = "open") ~> (socket = "closed" \/ Crashed)

(* Every decode goroutine finishes: "it is not possible to cancel an      *)
(* in-flight decode task - callers must let it finish naturally" (§5).    *)
(* processMessage blocks on the unbuffered IncomingTx, IncomingBlocks or  *)
(* parseErrors until the other side receives, and nobody receives once    *)
(* the daemon's select or the subscriber's loop has returned.              *)
DecodeTasksFinish ==
    \A i \in 1..MaxMsgs :
        (i \in DOMAIN g /\ g[i] /= "done") ~> ((i \in DOMAIN g /\ g[i] = "done") \/ Crashed)

=============================================================================
