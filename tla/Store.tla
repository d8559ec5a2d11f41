------------------------------- MODULE Store -------------------------------
(***************************************************************************)
(* The SQLite storage of bademeister-go (package storage).                 *)
(*                                                                         *)
(* The database file outlives the process.  NewStorage stats the path: a  *)
(* missing file is initialised by five statements run one after another,  *)
(* each committed on its own (CREATE config, INSERT the version, CREATE   *)
(* transaction, block and transaction_block); an existing file has its    *)
(* version read by getVersion and checked by migrate.  A failed statement *)
(* returns an error and leaves what the earlier ones did.  The process    *)
(* may be killed at any point and started again; the file stays.         *)
(*                                                                         *)
(* AddTransaction is called by the daemon but its code is not in this     *)
(* snapshot of the repository; it is modelled from the design (§4.3): a   *)
(* row per transaction, txid UNIQUE.                                       *)
(***************************************************************************)
EXTENDS Naturals, Sequences

CONSTANTS
    TxIds,            \* transaction ids (model values)
    StoredVersions,   \* schema versions an existing database file may have
    MaxOpens          \* bound on the number of NewStorage calls

currentVersion == 5

Tables == {"config", "transaction", "block", "transaction_block"}

(* The statements of initialize, in order, and what each creates. *)
InitSteps == <<"createConfig", "fillConfig", "createTransaction",
               "createBlock", "createTransactionBlock">>
CreatedBy == [createConfig |-> "config", createTransaction |-> "transaction",
              createBlock |-> "block", createTransactionBlock |-> "transaction_block"]

ASSUME StoreAssumption ==
    /\ StoredVersions \subseteq Nat
    /\ MaxOpens \in Nat

VARIABLES
    file,        \* "absent" or "present": the database file at the path
    tables,      \* the tables the file holds
    config,      \* the rows of table config, in insertion order
    txRows,      \* the txid column of table transaction, in id order
    storePc,     \* "closed", "init", "migrate", "open", "down"
    initStep,    \* the statement of initialize to run next
    opens,       \* NewStorage calls so far
    lastResult   \* what the last AddTransaction returned

storeVars == <<file, tables, config, txRows, storePc, initStep, opens, lastResult>>

AddResults == {"none", "ok", "duplicateKey", "noSuchTable", "storageError"}

-----------------------------------------------------------------------------
(* The path holds nothing, or the file of an earlier run with its whole   *)
(* schema at some version.                                                 *)
Init ==
    /\ \/ file = "absent" /\ tables = {} /\ config = <<>>
       \/ file = "present" /\ tables = Tables
          /\ \E v \in StoredVersions : config = <<v>>
    /\ txRows = <<>>
    /\ storePc = "closed"
    /\ initStep = 1
    /\ opens = 0
    /\ lastResult = "none"

(* Mutant: any error of os.Stat, not only "does not exist", leads to      *)
(* initialize.                                                             *)
NewStorageInitOnStatError ==
    /\ storePc = "closed"
    /\ opens < MaxOpens
    /\ opens' = opens + 1
    /\ \/ file = "absent" /\ storePc' = "init" /\ initStep' = 1
       \/ file = "present" /\ storePc' = "migrate" /\ UNCHANGED initStep
       \/ storePc' = "init" /\ initStep' = 1
    /\ UNCHANGED <<file, tables, config, txRows, lastResult>>

(* NewStorage: os.Stat decides between initialize and migrate; a Stat     *)
(* error other than "does not exist" is returned.                          *)
NewStorage ==
    /\ storePc = "closed"
    /\ opens < MaxOpens
    /\ opens' = opens + 1
    /\ \/ file = "absent" /\ storePc' = "init" /\ initStep' = 1
       \/ file = "present" /\ storePc' = "migrate" /\ UNCHANGED initStep
       \/ UNCHANGED <<storePc, initStep>>
    /\ UNCHANGED <<file, tables, config, txRows, lastResult>>

(* The effect of a statement of initialize that succeeds. *)
Apply(step) ==
    /\ tables' = IF step = "fillConfig" THEN tables
                 ELSE tables \cup {CreatedBy[step]}
    /\ config' = IF step = "fillConfig" THEN Append(config, currentVersion)
                 ELSE config

(* Mutant: the last statement moves on to a sixth one instead of ending. *)
InitializeOffByOne ==
    /\ storePc = "init"
    /\ \/ /\ Apply(InitSteps[initStep])
          /\ file' = "present"
          /\ initStep' = initStep + 1
          /\ storePc' = IF initStep = Len(InitSteps) THEN "open" ELSE storePc
       \/ /\ file' \in {file, "present"}
          /\ storePc' = "closed"
          /\ UNCHANGED <<tables, config, initStep>>
    /\ UNCHANGED <<txRows, opens, lastResult>>

(* initialize: s.db.Exec of the next statement.  The first connection     *)
(* creates the file.  On an error NewStorage returns it; nothing is undone. *)
Initialize ==
    /\ storePc = "init"
    /\ \/ /\ Apply(InitSteps[initStep])
          /\ file' = "present"
          /\ IF initStep = Len(InitSteps)
             THEN storePc' = "open" /\ UNCHANGED initStep
             ELSE initStep' = initStep + 1 /\ UNCHANGED storePc
       \/ /\ file' \in {file, "present"}
          /\ storePc' = "closed"
          /\ UNCHANGED <<tables, config, initStep>>
    /\ UNCHANGED <<txRows, opens, lastResult>>

(* getVersion: SELECT version FROM config.  A missing table or an empty   *)
(* table makes row.Scan fail, and getVersion panics: the process dies.    *)
VersionReadable == "config" \in tables /\ config # <<>>
getVersion == config[1]

(* Mutant: a database newer than the code is taken as current. *)
migrateNewerOK(v) == IF v >= currentVersion THEN "open" ELSE "closed"

(* migrate(fromVersion): nothing to do at currentVersion, an error for    *)
(* any other version (no migration is implemented).                       *)
migrate(v) == IF v = currentVersion THEN "open" ELSE "closed"

Migrate ==
    /\ storePc = "migrate"
    /\ storePc' = IF VersionReadable THEN migrate(getVersion) ELSE "down"
    /\ UNCHANGED <<file, tables, config, txRows, initStep, opens, lastResult>>

(* Mutant: the transaction table has no UNIQUE constraint on txid. *)
AddTransactionNoUnique(t) ==
    /\ storePc = "open"
    /\ \/ /\ "transaction" \notin tables
          /\ lastResult' = "noSuchTable"
          /\ UNCHANGED txRows
       \/ /\ "transaction" \in tables
          /\ txRows' = Append(txRows, t)
          /\ lastResult' = "ok"
       \/ /\ lastResult' = "storageError"
          /\ UNCHANGED txRows
    /\ UNCHANGED <<file, tables, config, storePc, initStep, opens>>

(* AddTransaction(tx): INSERT INTO "transaction"; txid is UNIQUE.         *)
AddTransaction(t) ==
    /\ storePc = "open"
    /\ \/ /\ "transaction" \notin tables
          /\ lastResult' = "noSuchTable"
          /\ UNCHANGED txRows
       \/ /\ "transaction" \in tables
          /\ \E i \in DOMAIN txRows : txRows[i] = t
          /\ lastResult' = "duplicateKey"
          /\ UNCHANGED txRows
       \/ /\ "transaction" \in tables
          /\ \A i \in DOMAIN txRows : txRows[i] # t
          /\ txRows' = Append(txRows, t)
          /\ lastResult' = "ok"
       \/ /\ lastResult' = "storageError"   \* an I/O error of SQLite
          /\ UNCHANGED txRows
    /\ UNCHANGED <<file, tables, config, storePc, initStep, opens>>

(* TxCount: SELECT COUNT(txid) FROM "transaction"; it changes nothing. *)
TxCount == Len(txRows)

(* Close: s.db.Close(). *)
Close ==
    /\ storePc = "open"
    /\ storePc' = "closed"
    /\ UNCHANGED <<file, tables, config, txRows, initStep, opens, lastResult>>

(* The process is killed; every committed statement stays in the file. *)
Crash ==
    /\ storePc \in {"init", "migrate", "open"}
    /\ storePc' = "down"
    /\ UNCHANGED <<file, tables, config, txRows, initStep, opens, lastResult>>

(* The process is started again, with no database handle. *)
Restart ==
    /\ storePc = "down"
    /\ storePc' = "closed"
    /\ UNCHANGED <<file, tables, config, txRows, initStep, opens, lastResult>>

Next ==
    \/ NewStorage
    \/ Initialize
    \/ Migrate
    \/ \E t \in TxIds : AddTransaction(t)
    \/ Close
    \/ Crash
    \/ Restart

Spec == Init /\ [][Next]_storeVars

-----------------------------------------------------------------------------
TypeOK ==
    /\ file \in {"absent", "present"}
    /\ tables \subseteq Tables
    /\ config \in Seq(StoredVersions \cup {currentVersion})
    /\ txRows \in Seq(TxIds)
    /\ storePc \in {"closed", "init", "migrate", "open", "down"}
    /\ initStep \in 1..Len(InitSteps)
    /\ opens \in 0..MaxOpens
    /\ lastResult \in AddResults

(* A store NewStorage hands out runs at the version the code was written  *)
(* for: an existing file at any other version, older or newer, and a file *)
(* whose version row was never written, are refused (migrate, getVersion). *)
OpenedVersionIsCurrent == storePc = "open" => config = <<currentVersion>>

(* A store NewStorage hands out has its whole schema (§7: the daemon must *)
(* not run against a store it cannot trust).  initialize runs its five    *)
(* statements without a transaction, and a later NewStorage only reads    *)
(* the version: an initialisation that failed or was killed after the     *)
(* version row leaves a file that opens without its other tables.         *)
OpenedSchemaComplete == storePc = "open" => tables = Tables

(* initialize only ever starts on a file that holds no data: its comment  *)
(* says "the caller must make sure that the database isn't initialized    *)
(* already", and NewStorage makes sure of it by os.Stat alone.  A file    *)
(* left by an earlier run, whole or half initialised, failed or killed,   *)
(* must go to migrate, never be written over.                             *)
InitializeOnEmptyFile ==
    [][storePc # "init" /\ storePc' = "init" => tables = {} /\ config = <<>>]_storeVars

=============================================================================
