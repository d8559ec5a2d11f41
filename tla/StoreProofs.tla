---------------------------- MODULE StoreProofs ----------------------------
(***************************************************************************)
(* Proofs about the storage (Store.tla), for every set of transaction     *)
(* ids, every set of stored versions and every bound MaxOpens.            *)
(***************************************************************************)
EXTENDS Store, SequenceTheorems, TLAPS

(* A missing file has no tables and no version row: the only way to a     *)
(* file is the first statement of initialize.                              *)
AbsentIsEmpty == file = "absent" => tables = {} /\ config = <<>>

(* While initialize runs, the version row is there exactly when its       *)
(* second statement has run: NewStorage only initialises a missing file.  *)
InitConfig ==
    storePc = "init" =>
        /\ initStep <= 2 => config = <<>>
        /\ initStep > 2 => config = <<currentVersion>>

(* The config table never holds more than one row. *)
OneVersionRow == Len(config) <= 1

(* The inductive invariant behind OpenedVersionIsCurrent. *)
IInv == TypeOK /\ AbsentIsEmpty /\ InitConfig /\ OneVersionRow /\ OpenedVersionIsCurrent

-----------------------------------------------------------------------------
(* What a statement of initialize that succeeds does: it creates one of   *)
(* the schema's tables, except the second, which writes the version row.  *)
LEMMA ApplyEffect ==
    ASSUME NEW i \in 1..Len(InitSteps), Apply(InitSteps[i])
    PROVE  /\ tables' \subseteq tables \cup Tables
           /\ config' = IF i = 2 THEN Append(config, currentVersion) ELSE config
<1>1. Len(InitSteps) = 5
  BY DEF InitSteps
<1>2. CASE i = 1
  BY <1>2 DEF Apply, InitSteps, CreatedBy, Tables
<1>3. CASE i = 2
  BY <1>3 DEF Apply, InitSteps
<1>4. CASE i = 3
  BY <1>4 DEF Apply, InitSteps, CreatedBy, Tables
<1>5. CASE i = 4
  BY <1>5 DEF Apply, InitSteps, CreatedBy, Tables
<1>6. CASE i = 5
  BY <1>6 DEF Apply, InitSteps, CreatedBy, Tables
<1>. QED
  BY <1>1, <1>2, <1>3, <1>4, <1>5, <1>6

(* A one-row config table is the sequence of its one row. *)
LEMMA OneRow ==
    ASSUME NEW S, NEW c \in Seq(S), Len(c) <= 1, c /= <<>>
    PROVE  c = <<c[1]>>
<1>0. Len(c) \in Nat \ {0}
  <2>1. \A seq \in Seq(S) : seq # << >> => Len(seq) \in Nat \ {0}
    BY EmptySeq
  <2>. QED
    BY <2>1
<1>1. Len(c) = 1
  BY <1>0
<1>2. DOMAIN c = 1..1
  BY <1>1, LenProperties
<1>. QED
  BY <1>1, <1>2

-----------------------------------------------------------------------------
(* The path holds nothing, or a complete file at a stored version. *)
LEMMA IInvInit == Init => IInv
<1> SUFFICES ASSUME Init PROVE IInv
  OBVIOUS
<1>1. TypeOK
  <2>1. initStep \in 1..Len(InitSteps)
    BY DEF Init, InitSteps
  <2>2. opens \in 0..MaxOpens
    BY StoreAssumption DEF Init
  <2>3. lastResult \in AddResults
    BY DEF Init, AddResults
  <2>4. config \in Seq(StoredVersions \cup {currentVersion}) /\ Len(config) <= 1
    <3>1. CASE config = <<>>
      BY <3>1
    <3>2. CASE \E v \in StoredVersions : config = <<v>>
      BY <3>2
    <3>. QED
      BY <3>1, <3>2 DEF Init
  <2>5. file \in {"absent", "present"} /\ tables \subseteq Tables
    BY DEF Init
  <2>6. txRows \in Seq(TxIds) /\ storePc = "closed"
    BY DEF Init
  <2>. QED
    BY <2>1, <2>2, <2>3, <2>4, <2>5, <2>6 DEF TypeOK
<1>2. OneVersionRow
  <2>1. CASE config = <<>>
    BY <2>1 DEF OneVersionRow
  <2>2. CASE \E v \in StoredVersions : config = <<v>>
    BY <2>2 DEF OneVersionRow
  <2>. QED
    BY <2>1, <2>2 DEF Init
<1>. QED
  BY <1>1, <1>2 DEF Init, IInv, AbsentIsEmpty, InitConfig, OpenedVersionIsCurrent

(* Every step of the storage, a crash and a restart included, keeps IInv. *)
LEMMA IInvStep == IInv /\ [Next]_storeVars => IInv'
<1> SUFFICES ASSUME IInv, [Next]_storeVars PROVE IInv'
  OBVIOUS
<1>. USE DEF IInv
<1>1. CASE NewStorage
  <2>1. TypeOK'
    BY <1>1, StoreAssumption DEF NewStorage, TypeOK, InitSteps
  <2>2. InitConfig'
    BY <1>1 DEF NewStorage, InitConfig, AbsentIsEmpty
  <2>. QED
    BY <1>1, <2>1, <2>2 DEF NewStorage, AbsentIsEmpty, OneVersionRow, OpenedVersionIsCurrent
<1>2. CASE Initialize
  <2>1. CASE /\ Apply(InitSteps[initStep])
             /\ file' = "present"
             /\ IF initStep = Len(InitSteps)
                THEN storePc' = "open" /\ UNCHANGED initStep
                ELSE initStep' = initStep + 1 /\ UNCHANGED storePc
    <3>. USE <1>2 DEF Initialize
    <3>1. storePc = "init" /\ initStep \in 1..Len(InitSteps)
      BY DEF TypeOK
    <3>2. /\ tables' \subseteq tables \cup Tables
          /\ config' = IF initStep = 2 THEN Append(config, currentVersion) ELSE config
      BY <2>1, <3>1, ApplyEffect
    <3>3. Len(InitSteps) = 5
      BY DEF InitSteps
    <3>4. initStep <= 2 => config = <<>>
      BY <3>1 DEF InitConfig
    <3>5. initStep > 2 => config = <<currentVersion>>
      BY <3>1 DEF InitConfig
    <3>6. TypeOK'
      <4>1. config' \in Seq(StoredVersions \cup {currentVersion})
        BY <3>2 DEF TypeOK
      <4>2. initStep' \in 1..Len(InitSteps)
        BY <2>1, <3>1, <3>3
      <4>3. tables' \subseteq Tables
        BY <3>2 DEF TypeOK
      <4>. QED
        BY <2>1, <4>1, <4>2, <4>3 DEF TypeOK
    <3>7. InitConfig'
      <4>1. CASE initStep = 5
        BY <2>1, <3>3, <4>1 DEF InitConfig
      <4>2. CASE initStep \in 1..4
        <5>1. initStep' = initStep + 1 /\ storePc' = "init"
          BY <2>1, <3>1, <3>3, <4>2
        <5>2. CASE initStep = 1
          BY <3>2, <3>4, <5>1, <5>2 DEF InitConfig
        <5>3. CASE initStep = 2
          BY <3>2, <3>4, <5>1, <5>3 DEF InitConfig
        <5>4. CASE initStep \in 3..4
          BY <3>2, <3>5, <5>1, <5>4 DEF InitConfig
        <5>. QED
          BY <4>2, <5>2, <5>3, <5>4
      <4>. QED
        BY <3>1, <3>3, <4>1, <4>2
    <3>8. OneVersionRow'
      <4>1. CASE initStep = 2
        BY <3>2, <3>4, <4>1 DEF OneVersionRow
      <4>2. CASE initStep # 2
        BY <3>2, <4>2 DEF OneVersionRow
      <4>. QED
        BY <4>1, <4>2
    <3>9. OpenedVersionIsCurrent'
      BY <2>1, <3>1, <3>2, <3>3, <3>5 DEF OpenedVersionIsCurrent
    <3>. QED
      BY <2>1, <3>6, <3>7, <3>8, <3>9 DEF AbsentIsEmpty
  <2>2. CASE /\ file' \in {file, "present"}
             /\ storePc' = "closed"
             /\ UNCHANGED <<tables, config, initStep>>
    BY <1>2, <2>2 DEF Initialize, TypeOK, AbsentIsEmpty, InitConfig, OneVersionRow,
                      OpenedVersionIsCurrent
  <2>. QED
    BY <1>2, <2>1, <2>2 DEF Initialize
<1>3. CASE Migrate
  <2>1. storePc' = "open" => config = <<currentVersion>>
    <3>1. SUFFICES ASSUME storePc' = "open" PROVE config = <<currentVersion>>
      OBVIOUS
    <3>2. VersionReadable /\ getVersion = currentVersion
      BY <1>3, <3>1 DEF Migrate, migrate
    <3>3. config = <<config[1]>>
      BY <3>2, OneRow DEF VersionReadable, TypeOK, OneVersionRow
    <3>. QED
      BY <3>2, <3>3 DEF getVersion
  <2>2. storePc' \in {"open", "closed", "down"}
    BY <1>3 DEF Migrate, migrate
  <2>. QED
    BY <1>3, <2>1, <2>2 DEF Migrate, TypeOK, AbsentIsEmpty, InitConfig, OneVersionRow,
                            OpenedVersionIsCurrent
<1>4. CASE \E t \in TxIds : AddTransaction(t)
  <2>1. PICK t \in TxIds : AddTransaction(t)
    BY <1>4
  <2>2. lastResult' \in AddResults
    BY <2>1 DEF AddTransaction, AddResults
  <2>3. txRows' \in Seq(TxIds)
    <3>1. txRows' = txRows \/ txRows' = Append(txRows, t)
      BY <2>1 DEF AddTransaction
    <3>. QED
      BY <3>1 DEF TypeOK
  <2>. QED
    BY <2>1, <2>2, <2>3 DEF AddTransaction, TypeOK, AbsentIsEmpty, InitConfig, OneVersionRow,
                      OpenedVersionIsCurrent
<1>5. CASE Close
  BY <1>5 DEF Close, TypeOK, AbsentIsEmpty, InitConfig, OneVersionRow, OpenedVersionIsCurrent
<1>6. CASE Crash
  BY <1>6 DEF Crash, TypeOK, AbsentIsEmpty, InitConfig, OneVersionRow, OpenedVersionIsCurrent
<1>7. CASE Restart
  BY <1>7 DEF Restart, TypeOK, AbsentIsEmpty, InitConfig, OneVersionRow, OpenedVersionIsCurrent
<1>8. CASE UNCHANGED storeVars
  BY <1>8 DEF storeVars, TypeOK, AbsentIsEmpty, InitConfig, OneVersionRow,
              OpenedVersionIsCurrent
<1>. QED
  BY <1>1, <1>2, <1>3, <1>4, <1>5, <1>6, <1>7, <1>8 DEF Next

(* The storage is well typed in every reachable state. *)
THEOREM StoreTypeCorrect == Spec => []TypeOK
<1>1. IInv => TypeOK
  BY DEF IInv
<1>. QED
  BY IInvInit, IInvStep, <1>1, PTL DEF Spec

(* Through failed and killed initialisations, crashes, restarts and       *)
(* reopens, a store NewStorage hands out is at version currentVersion.    *)
THEOREM VersionCurrent == Spec => []OpenedVersionIsCurrent
<1>1. IInv => OpenedVersionIsCurrent
  BY DEF IInv
<1>. QED
  BY IInvInit, IInvStep, <1>1, PTL DEF Spec
(* No step but NewStorage on a missing file enters initialize, and a      *)
(* missing file holds nothing.                                             *)
LEMMA InitStartsEmpty ==
    IInv /\ [Next]_storeVars =>
        (storePc # "init" /\ storePc' = "init" => tables = {} /\ config = <<>>)
<1> SUFFICES ASSUME IInv, [Next]_storeVars, storePc # "init", storePc' = "init"
             PROVE  tables = {} /\ config = <<>>
  OBVIOUS
<1>1. CASE NewStorage
  <2>1. file = "absent"
    BY <1>1 DEF NewStorage
  <2>. QED
    BY <2>1 DEF IInv, AbsentIsEmpty
<1>2. CASE Migrate
  BY <1>2 DEF Migrate, migrate
<1>3. CASE Initialize \/ (\E t \in TxIds : AddTransaction(t)) \/ Close \/ Crash
             \/ Restart \/ UNCHANGED storeVars
  BY <1>3 DEF Initialize, AddTransaction, Close, Crash, Restart, storeVars
<1>. QED
  BY <1>1, <1>2, <1>3 DEF Next

(* Through failed and killed initialisations, crashes, restarts and       *)
(* reopens, initialize is started only on a file that holds no table and  *)
(* no version row: a database is never initialised twice.                 *)
THEOREM InitializeOnEmpty == Spec => InitializeOnEmptyFile
BY IInvInit, IInvStep, InitStartsEmpty, PTL DEF Spec, InitializeOnEmptyFile
=============================================================================
