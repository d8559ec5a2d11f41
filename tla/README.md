# TLA+ models of bademeister-go

These modules model the ingestion pipeline of bademeister-go. A ZMQ subscriber
receives transactions and blocks from Bitcoin Core. It decodes them on goroutines
and hands them to a daemon, which writes transactions to a SQLite store. The
models are checked with TLC on small instances. The safety invariants of the
subscriber, the store, the daemon and the RPC readiness loop, and the daemon's
refinement of its design, are proved with TLAPS for every instance.

## The system

| Part | Source | What it does |
|---|---|---|
| Subscriber | `src/unnamed/part_000` lines 30-276 (`package zmqsubscriber`) | `NewZMQSubscriber` opens a SUB socket on two topics. `Run` loops: it checks `z.cancel`, polls `parseErrors`, and receives with a 1 s timeout. It starts one goroutine per message (`processMessage`), which decodes the message and blocks on `IncomingTx`, `IncomingBlocks` or `parseErrors`. `Stop` sets the flag. |
| WireCodec | the same file, `parseTransaction` (182-216) and `parseBlock` (218-276) | Frame-count checks, the fee trailer, wire decoding, and the coinbase height rule (`parseHeight`, with `txscript.PushedData`). |
| Store | `src/src/types/transaction.go` lines 118-335 (`package storage`) | `NewStorage` stats the path. A missing file runs `initialize`: five statements, each committed on its own. An existing file runs `getVersion`, then `migrate`. There are also `TxCount` and `Close`. `AddTransaction` is called, but it is not in this snapshot of the source. |
| Daemon | the same file, lines 24-117 (`package daemon`) | `NewBademeisterDaemon` builds the subscriber, then the store, then a `quit` channel of capacity 1. `Run` starts a wrapper goroutine: `zmqSubErr = zmqSub.Run(); b.Stop()`. It then selects over `quit`, `IncomingTx` and `IncomingBlocks`. A store error ends `Run`. `Stop` sends on `quit`, and `Close` closes the store. |
| types | the same file, lines 1-23 | Record types. |
| RPC test client | `src/unnamed/part_001` | A test-only client that generates feed traffic. `NewBitcoinRPCClient` polls `GetBlockCount` in `waitTillRPCServerReady` until bitcoind answers or a timeout passes. `GenerateToAddress` makes Bitcoin Core mine blocks. |
| pre-commit hook | `src/unnamed/part_000` lines 1-29 | A goimports/golint shell hook. |

How the parts interact:

- The daemon's goroutine runs the subscriber's `Run` (this is the "wrapper").
- Decode goroutines hand records to the daemon's select through unbuffered channels. Each handoff is a joint step.
- The subscriber's result reaches the daemon through the unsynchronised variable `zmqSubErr` and the `quit` channel.
- Only the daemon touches the store.

## Modules

- **Subscriber.tla**, one action per step of the code:
  - State:
    - `subPc`: where `Run` is
    - `socket`
    - `cancel`
    - `msgs`: the messages received
    - `g[i]`: where the goroutine of message i is
    - `subResult`: what `Run` returned
  - Actions:
    - `NewZMQSubscriber`. This includes the failure after `NewSocket`, which leaks the socket.
    - `RunStart` (`SetRcvtimeo`)
    - `RunLoopExit` and `RunLoopContinue` (the `for !z.cancel` check)
    - `RunSelect` (the non-blocking poll; a ready case beats `default`)
    - `RunRecv` (timeout or EINTR, error, or a message plus its goroutine)
    - `ProcessMessage(i)`: decodes to a deliver, report or panic state
    - `Deliver(i)`: the consumer's receive
    - `Stop`
  - Data is abstracted. A message is a record of its topic, its frame count, whether its body decodes, and its txid. Decoding gives the control outcome of `parseTransaction` or `parseBlock`. This includes the panic of `parseBlock` on fewer than two frames, which kills the process (`Crashed`).
- **Store.tla**:
  - State:
    - `file` and `tables`
    - `config`: the version rows
    - `txRows`
    - `storePc`
    - `initStep`: the next statement of `initialize`
  - Actions:
    - `NewStorage`, `Initialize` (one statement per step; a failure keeps what was done), `Migrate` (`getVersion` panics on a missing row), `AddTransaction`, `Close`
    - `Crash` and `Restart` of the process. The file persists across them.
- **SubscriberSpec.tla** is the subscriber's contract (§4.2, §6, §7) without goroutines, channels or the polling loop. Its state is a phase, the messages `received`, the indices `handed` to the consumer and `reported` as the run's error, the Stop flag and the result. `Kind(m)` is the design's decoding: a transaction record for the transaction topic with two frames and a body that decodes, a block record for the block topic with at least two frames and a body that decodes, and otherwise `MalformedPayload` or `UnknownTopic`. Its steps are:
  - `Connect` and `StartRun` (which may fail with a setup error)
  - `Receive(m)`
  - `Hand(i)`: a message that decodes reaches the consumer once, in any phase
  - `Fail(i)`: a message that does not decode ends the run with its error
  - `Stop`, `EndOnStop` (nil, only after Stop) and `EndOnRecvError`

  `Subscriber` maps to it with `SS == INSTANCE SubscriberSpec WITH ...`:
  - the phase is `PhaseOf[subPc]`
  - `received` is `msgs`, and the Stop flag is `cancel`
  - `Handed` is the goroutines in `"done"` whose outcome was a delivery, and `Reported` those whose outcome was a report.

  A goroutine's panic maps to a stutter after which nothing moves. The contract has no liveness, so the refinement allows this; the liveness properties of the runs treat `Crashed` as an end of their own. For the same reason, the refinement does not say that a failed decode is reported. That is the liveness question `FailureReturned` answers, and it fails (`MC_Subscriber_lost`).
- **Daemon.tla** composes `INSTANCE Subscriber` and `INSTANCE Store` over shared variables, and adds the daemon's state: `dPc`, `quit` (who sent each buffered value), `zmqSubErr`, the wrapper, the caller's `Stop`, and `dResult`.
  - `InWrapper /\ A` runs a subscriber step `A` on the wrapper goroutine.
  - The daemon never calls the subscriber's `Stop()`, so inside the daemon `z.cancel` stays false and the subscriber's loop never exits through its condition. It ends only on an error or on a panic. This is one cause of the socket leak found by `MC_Daemon_socket`.
  - `RecvTx(i)` is the joint step of the channel handoff and `AddTransaction`.
  - `DecodeMessage(i)` is a decode goroutine's step. It is not tied to the wrapper: it goes on after the wrapper and the daemon have returned.
- **DaemonSpec.tla** is the daemon's design (§4.4, §7) without goroutines or channels. Its state is a phase, the `log` of stored txids, the deliveries `taken`, and the `result`. Its steps are:
  - `Build`: the daemon is built, or fails to be.
  - `Take(e, t)`: a transaction is taken while the daemon runs. It is appended if its txid is not stored; otherwise, or on any store error, the run ends with `"storeErr"`.
  - `Finish`: the run ends with a result from the feed.
  - `Close`.

  `Daemon` maps to it with `DS == INSTANCE DaemonSpec WITH ...`:
  - the phase comes from `dPc`
  - the log is `txRows`
  - the deliveries taken are the goroutines in `"done"` whose message decodes to a transaction
  - the result is `dResult.kind`

  The subscriber's, the wrapper's and `Stop()`'s steps are stutters. `RecvTx` is `Take` and `RecvQuit` is `Finish`.
- **Script.tla** holds the pure script functions:
  - `PushedData(s)` is a recursive function over the script position. It gives each push's data position and length, and whether the item is the nil slice of `OP_0`, or an error for a push that runs past the end.
  - `LE` reads a byte sequence as an unsigned little-endian number.
  - `RuleAccepts` and `RuleHeight` state the design's coinbase height rule on a block as received. `BIP34Height` is the height Bitcoin Core writes.
- **WireCodec.tla** models one call of `parseBlock` at byte level:
  - State:
    - `orig`: the block BtcDecode produced
    - `blk`: the transactions as `parseBlock` leaves them
    - `k`: the loop index
    - `height`, `txHashes`, `result`
  - Actions:
    - `Receive(b)` and `DecodeFails` (BtcDecode)
    - `PlainTx`
    - `CoinbaseRejected` and `CoinbaseHeight` (`parseHeight`)
    - `HeightNotFound` and `Accept` (the `height < 0` check)
  - `CoinbaseHeight` applies `AppendZeros`, the in-place effect of `append` on the aliased `heightLE`, before `TxHash` hashes the transaction.
  - Slice capacities follow btcd. `MsgTx.BtcDecode` makes each script a full slice `scripts[offset:end:end]`, and `PushedData` returns two-index subslices, so an item starting at byte `a` has capacity `len(script) - a`.
  - `TxHash` is modelled as the identity on transactions. It is injective, and it sees the script as it is when it runs.
- **ParseBlockSpec.tla** is the abstract promise of `parseBlock`. It takes one `Decide` step per block: accept exactly by the coinbase height rule, with the rule's height and one txid per transaction, and always answer. `WireCodec` maps to it (`PB == INSTANCE ParseBlockSpec WITH ...`):
  - The loop's steps are stutters.
  - Its return is `Decide`.
  - `aheight` and `acount` are visible only once `parseBlock` has returned.
- **RPCClient.tla** models `NewBitcoinRPCClient` and `waitTillRPCServerReady`. Time counts in ticks of `checkInterval`:
  - `now` is real time spent.
  - A `GetBlockCount` call takes 0 to `MaxCall` ticks.
  - bitcoind comes up at any moment, or never (`ServerStarts`, unfair).
- **MC_\*.tla** give the constants for TLC. `MC_WireCodec_regtest` builds the coinbases that Bitcoin Core 0.19's `generatetoaddress` writes (`CScript() << nHeight << CScriptNum(nExtraNonce)`, extra nonce 1), which is how the test client makes blocks.
- **SubscriberProofs.tla**, **SubscriberRefinement.tla**, **StoreProofs.tla**, **DaemonProofs.tla**, **DaemonSpecProofs.tla**, **DaemonRefinement.tla** and **RPCClientProofs.tla** hold the TLAPS proofs.

## Runs

| Run | Expect | Checks | Shows |
|---|---|---|---|
| `MC_Subscriber.cfg` | pass (45,292 states) | `TypeOK`, `RunResultSound`, `StopEndsRun`, `FailureEndsRun`, `ImplementsSubscriberSpec` | `Run`'s result is backed by what happened. Stop, or a failed decode, ends the loop despite the racy flag. The subscriber refines `SubscriberSpec`. |
| `MC_Subscriber_lost.cfg` | violation | `FailureReturned` | A decode fails while `cancel` is still false, and `Stop()` comes before the loop's next poll of `parseErrors`. The loop then tests `cancel` first and `Run` returns nil: the error is lost (§4.2, §7). The property only counts failures made before `Stop()`, so the trace shows this order. |
| `MC_Store.cfg` | pass (593 states) | `TypeOK`, `OpenedVersionIsCurrent`, `InitializeOnEmptyFile` | Through failures, crashes and reopens, an open store is at version 5. `initialize` only ever starts on a file with no data, as its comment requires of the caller. |
| `MC_Store_schema.cfg` | violation | `OpenedSchemaComplete` | A failed or killed `initialize` after the version row leaves a file that reopens without its tables. |
| `MC_Daemon.cfg` | pass (11,223 states) | `TypeOK`, `ErrorPropagated`, `NoSilentDrop`, `FailFast`, `ImplementsDaemonSpec` | The subscriber's error reaches the daemon's return. No delivered transaction is dropped silently. A failed decode ends the daemon. The daemon refines `DaemonSpec`. |
| `MC_Daemon_socket.cfg` | violation | `SocketEventuallyClosed` | The socket stays open after a Connect or NewStorage failure, or after the daemon returns without stopping the subscriber (§5, §7). |
| `MC_Daemon_tasks.cfg` | violation | `DecodeTasksFinish` | After the daemon returns on a store error, the next decode goroutine blocks on `IncomingTx` forever. §5 says in-flight decode tasks finish naturally. |
| `MC_WireCodec.cfg` | pass (7,012 states) | `TypeOK`, `ImplementsParseBlockSpec` | On every coinbase script of up to four bytes, `parseBlock` refines `ParseBlockSpec`. |
| `MC_WireCodec_height.cfg` | violation | `MinedBlockDecodes` | A block that Bitcoin Core mined at height 16 (`OP_16`, then one push) is rejected. So are heights 1-15, and a daemon on a fresh regtest chain stops at block 1. |
| `MC_WireCodec_txid.cfg` | violation | `TxIDsMatchBlock` | The height-17 coinbase `01 11 01 01` is hashed as `01 11 00 00`: the padding of `heightLE` overwrote the extra-nonce push. |
| `MC_RPCClient.cfg` | pass (344 states) | `TypeOK`, `GivesUpOnlyAfterTimeout`, `WaitEnds` | The readiness loop always ends. Its timeout error comes only after the timeout has passed. |
| `MC_RPCClient_timeout.cfg` | violation | `ReturnsWithinTimeout` | Slow calls are not counted, so the loop returns after the timeout its comment promises. |

Bounds:

- **Subscriber:** up to three messages, drawn from seven message kinds: a transaction (good, bad, one frame), a block (good, bad, one frame), and an unknown topic. With three messages you get two concurrent failures, and a failure plus a pending delivery.
- **Store:** stored versions {4, 5, 6} (older, current, newer) and three opens. That is enough for a failed initialisation, a reopen, and a crash between them.
- **Daemon:** two messages and one txid. That gives the duplicate-key path, a bad tx together with a good one, and the block panic.
- **WireCodec:** every script of up to four bytes over `OP_0`, `OP_DATA_1`, `OP_DATA_2`, `OP_PUSHDATA1`, `OP_1` and the data byte `0x80`, in a block alone, followed by a plain transaction, or missing. Four bytes hold:
  - zero, one, two and three pushes
  - a push cut off, and a PUSHDATA1 whose length runs past the end
  - a padded one- and two-byte height
  - a padding that writes over the next push's opcode

  TLC's integers are 32-bit, so the inputs keep every value read below 2^31.
- **Regtest blocks:** heights 1, 16, 17 and 200. These are the boundaries of Core's encoding: `OP_n`, a one-byte push, and a push with a sign byte.
- **RPCClient:** a timeout of six ticks and calls of up to two. That is enough for the server to come up before, between or after attempts, and for slow calls to add up past the timeout. `MaxNow` is the longest a correct loop can take; steps past it are cut off.

Deadlock checking is off in every run. Every path of the program ends in a state where nothing can move: `Run`, `parseBlock` or `NewBitcoinRPCClient` returned, or a goroutine blocked for good. Those are the terminal states of the program, not model errors.

Every property of a passing run has a mutant in `PROJECT.json`: a plausible bug in the mapped code that TLC finds under that run.

### Fairness

- The Go scheduler runs every runnable goroutine, so each step of `Run` and of each decode goroutine is weakly fair.
- `RecvMessageBytes` returns within its 1 s timeout, so the receive returning to the loop is weakly fair. An error is not promised, so it has no fairness.
- The write of `z.cancel` is racy but eventually visible. The loop reads it on every iteration, so `RunLoopExit` is strongly fair.
- The ready cases of Go's `select` are chosen at random, so each is weakly fair.
- A blocked sender on `quit` is strongly fair.
- The caller's `Stop` and `Close`, and the consumer in the standalone subscriber model, get no fairness: they are the environment's choice.
- `parseBlock` is straight-line code on its goroutine, so its loop steps are weakly fair. `ParseBlockSpec` asks for weak fairness of `Decide`.
- The client's goroutine in `waitTillRPCServerReady` is weakly fair, and so is each call's return. The test's bitcoind answers or refuses. bitcoind coming up gets no fairness.

## Proofs (TLAPS)

`SubscriberProofs.tla` proves, for every `Topics`, `Messages` and `MaxMsgs` allowed by `SubscriberAssumption`:

- `TypeCorrect`: `Spec => []TypeOK`, from `TypeInit` and `TypeStep`. There is one step per action, and `RunRecv` is split into its three outcomes. The key fact is `Len(g) = Len(msgs)`: each received message has exactly one goroutine.
- `ResultSound`: `Spec => []RunResultSound`. `RunResultSound` is not inductive as it stands. `RunSelect` must know that a goroutine in `"report"` holds a message that fails to decode, so the inductive invariant is `IInv == TypeOK /\ RunResultSound /\ ReportsFailed`. It was checked first with TLC as an invariant of the `MC_Subscriber` instance (45,292 states). `IInvInit` and `IInvStep` prove it. The argument is:
  - `cancel` is never reset.
  - `msgs` is only appended to.
  - `"done"` is a final state of a goroutine.

`StoreProofs.tla` proves, for every `TxIds`, `StoredVersions` and `MaxOpens` allowed by `StoreAssumption`:

- `StoreTypeCorrect`: `Spec => []TypeOK`.
- `VersionCurrent`: `Spec => []OpenedVersionIsCurrent`.

`OpenedVersionIsCurrent` is not inductive. `Migrate` must know that a readable config table has exactly one row, and `Initialize`'s last statement must know that the version row is already written. The inductive invariant is `IInv == TypeOK /\ AbsentIsEmpty /\ InitConfig /\ OneVersionRow /\ OpenedVersionIsCurrent`:

- A missing file is empty.
- While `initialize` runs, the version row exists exactly when its second statement has run, because `NewStorage` only initialises a missing file.
- config never holds two rows.

It was checked with TLC on the `MC_Store` instance (593 states) before the proof. The lemmas `ApplyEffect` (what each statement of `initialize` does) and `OneRow` (a one-row sequence) carry the step cases.

- `InitializeOnEmpty`: `Spec => InitializeOnEmptyFile`, the action property that a step entering `"init"` starts from a file with no table and no version row. The lemma `InitStartsEmpty` shows that from a state of `IInv` only `NewStorage` on a missing file enters `"init"`, and `AbsentIsEmpty` says a missing file is empty. `AbsentIsEmpty` carries the history: every statement that writes to the file also creates it, whether it succeeds or fails.

`RPCClientProofs.tla` proves, for every `Timeout` and `MaxCall` in `Nat`:

- `GiveUpAfterTimeout`: `Spec => []GivesUpOnlyAfterTimeout`. The inductive invariant adds two facts to `TypeOK`:
  - `currentWaitTime` never runs ahead of `now`. It may be one tick ahead while the loop is at the sleep that follows a failed call of zero ticks.
  - `"call"` is only reached below the timeout, and `"timedOut"` only at or above it.

  The run `rpc_client` checks the property on one instance. The proof covers calls of any duration, which is why the early exit cannot happen. The opposite bound, `ReturnsWithinTimeout`, fails (see the findings).
- `RPCClientTypeCorrect`: `Spec => []TypeOK`. It follows from the same invariant.

`DaemonProofs.tla` proves, for every set of topics, messages, txids and stored versions and every `MaxMsgs` allowed by `DaemonAssumption`:

- `DaemonTypeCorrect`: `Spec => []TypeOK`
- `ErrorReachesCaller`: `Spec => []ErrorPropagated`
- `NoTransactionDropped`: `Spec => []NoSilentDrop`

`SubscriberRefinement.tla` proves `SubscriberImplementsSpec`, `Spec => ImplementsSubscriberSpec`:

- `RefineInit`: the initial state maps to `SS!Init`.
- `RefineStep`: from a state of `RInv`, each step is a `SubscriberSpec` step or a stutter. There is one case per action:
  - `NewZMQSubscriber` is `Connect`, and `RunStart` is `StartRun`.
  - `RunLoopExit` is `EndOnStop`.
  - `RunRecv` is `Receive`, `EndOnRecvError` or a stutter.
  - The parseErrors case of `RunSelect` is `Fail(i)`.
  - `Deliver(i)` is `Hand(i)`.
  - `RunLoopContinue`, the default case of `RunSelect` and `ProcessMessage` are stutters.
- The inductive invariant is `RInv == IInv /\ GOutcome` (with `IInv` from `SubscriberProofs`). `GOutcome` says a goroutine past decoding is in the state its message's outcome gives. `Deliver` and `RunSelect` need it to know whether the message decodes.
- The lemma `OutcomeDecodes` ties the code's outcome to the design's `Kind`: `processMessage` delivers exactly the messages the design says decode, and reports only the others. Its block case relies on the frame count being a number (`MessageType`). The lemma `DoneFrame` shows that receiving or decoding leaves `Handed` and `Reported` alone.

`DaemonAssumption` in `Daemon.tla` is the conjunction of `SubscriberAssumption` and `StoreAssumption`, because the daemon passes its constants through to both. The proof reuses the component proofs. It instantiates them (`SP == INSTANCE SubscriberRefinement`, which extends `SubscriberProofs`; `StP == INSTANCE StoreProofs`) and cites their `IInvInit` and `IInvStep` together with the instantiated assumption, which is a hypothesis of every theorem of an instance. The projection lemmas `SubscriberProjection` and `StoreProjection` show that every daemon step is a step of each component or leaves its variables alone. The inductive invariant is `IInv == SP!IInv /\ StP!IInv /\ DaemonInv`. TLC checked it on the `MC_Daemon` instance (11,223 states) before the proof. `DaemonInv` adds:

- `WrapperAfterRun`: the wrapper exists only after `Run()`.
- `WrapperHandoff`: once the wrapper has written `zmqSubErr`, it equals the subscriber's result, and the subscriber has returned for good. `RecvQuit` needs this.
- `QuitFromWrapper`: a value the wrapper put on `quit` was sent after the handoff.
- `ReturnedOnWrapper`: the strengthening of `ErrorPropagated` itself.
- `GoroutineFollowsOutcome`: a goroutine waiting on a send holds a message whose decoding ended there. `RecvTx` needs this to know the message is a transaction.
- `StoreErrReturned`: a store error has ended the select.
- `NoSilentDrop`. It is inductive given the rest, because rows are only appended.

`DaemonSpecProofs.tla` proves the lemma `SpecLogUnique`, `Spec => []LogUnique`, for `DaemonSpec`: no txid is in the log twice. On its own this says nothing about the code, because it follows from `Take`'s guard. It is used only to obtain `StoreRowsUnique` below.

`DaemonRefinement.tla` proves `DaemonImplementsSpec`, `Spec => ImplementsDaemonSpec`. The argument has two steps:

- `RefineInit`: the initial state maps to `DS!Init`.
- `RefineStep`: from a state of `IInv`, each daemon step is a `DaemonSpec` step or a stutter. There is one case per action.
  - `RecvTx` is `Take`, and the lemma `AddTransactionEffect` splits it on the store's answer.
  - The subscriber's `RunSelect`, `RecvBlock` and the decode goroutines change `g`. They leave the set of taken deliveries alone, because a goroutine reaches `"done"` with a transaction only through `RecvTx`. `GoroutineFollowsOutcome` and `OutcomeValues` show this.

`StoreRowsUnique`, `Spec => []DS!LogUnique`, then carries `SpecLogUnique` over through the refinement.

`SubscriberKeepsContract`, `Spec => Sub!ImplementsSubscriberSpec`, shows that the subscriber still implements `SubscriberSpec` inside the daemon. `SubscriberProjection` turns each daemon step into a subscriber step, so the subscriber's `RInvStep` and `RefineStep` apply. The lemmas `SameOutcome`, `SameMapping` and `SameContract` show that the mapping and the contract, seen through the daemon's `Sub` instance and through `SP`, are the same formulas.

These stay with TLC only:

- **Liveness** (`StopEndsRun`, `FailureEndsRun`, `FailFast`, `WaitEnds`). TLAPS cannot reason about fairness and ENABLED.
- **WireCodec: `TypeOK` and the refinement `ImplementsParseBlockSpec`.** `PushedData` and `LE` are recursive functions on the script. The facts the proof needs are what they compute for every script: the bounds of each pushed item, and that `LE` is a natural number (in the code, the height is an `int` made from a `uint32`). Both are induction over data, and the provers cannot instantiate the library's induction theorems. A property of `Script.tla` for all scripts therefore stays with TLC's exhaustive check of the scripts up to four bytes.

## Not modelled

- **`parseTransaction` at byte level.** Its control outcome is in `Subscriber`:
  - the frame count
  - the `length <= 8` check
  - a decode failure

  Its fee is a 64-bit little-endian read, beyond TLC's 32-bit integers, and its weight is a size sum. No property tells them apart.
- **The height of a push longer than four bytes** is silently truncated by `Uint32` (part_000:243). The design gives no rule for such a push, and it needs a script longer than the bound of `MC_WireCodec`.
- **The rest of the RPC test client.** `GenerateToAddress` and `SendSimpleTransaction` are single RPC calls with JSON conversion and hold no state. `SendCustomTransaction` is commented out. Only the coinbase shape that `generatetoaddress` makes Core write is used, as the input of `MC_WireCodec_regtest`.
- **The pre-commit hook** (a shell script), logging, `formatQuery`/`StaticQuery` (SQL text only) and `dumpStats` are left out. `dumpStats` only reads `TxCount`. As written, `log.Printf("%d", b.storage.TxCount())` passes a two-valued call to a variadic, which Go rejects, so this snapshot does not compile as is.
