------------------------------ MODULE Migrator ------------------------------
(***************************************************************************)
(* The schema migrator, tools/migrations/postgres/migration.go, on top of  *)
(* the transactions of persistent/sql/implementations/gorm/postgres.       *)
(*                                                                         *)
(* Several processes may hold a migrator over one PostgreSQL database.     *)
(* Init, Up and Down are cut at their database calls: whatever another     *)
(* process commits between two of them is seen by the second.  The scripts *)
(* are those template.go generates: Up creates the version's own table and *)
(* Down drops it, so `tables` is the schema and `rows` what the migrations *)
(* table says of it.  Any database call may fail.                          *)
(***************************************************************************)
EXTENDS Naturals

CONSTANTS
    Processes,      \* programs holding a migrator (one Scripts map each)
    Versions,       \* versions every program registers; timestamps, so ordered
    All,            \* Down's target "all" or ""
    CommitMayFail   \* whether COMMIT may fail (its error is ignored)

ASSUME MigratorAssumption ==
    /\ Versions \subseteq Nat
    /\ All \notin Versions
    /\ CommitMayFail \in BOOLEAN

VARIABLES
    migrations, \* does the migrations table exist
    rows,       \* rows[v]: rows of the migrations table with version v
    tables,     \* versions whose table exists in the schema
    scripts,    \* scripts[p]: keys of m.Scripts, from which Up deletes
    pc,         \* pc[p]: the next database call of the running method
    op,         \* op[p]: the method called last
    target,     \* target[p]: downToVersion
    todo,       \* todo[p][v]: iterations of the loop left for v
    tx,         \* tx[p]: what p's open transaction has done
    result      \* result[p]: what the last call returned

database == <<migrations, rows, tables>>
vars == <<migrations, rows, tables, scripts, pc, op, target, todo, tx, result>>

Recorded == {v \in Versions : rows[v] > 0}
NothingTodo == [v \in Versions |-> 0]

(* A transaction: the version it migrates, whether its script's CREATE or   *)
(* DROP TABLE did something (and so locks that table's name until the end), *)
(* and how many rows it inserted (Up) or deleted (Down).                    *)
Transactions == [version : Versions \cup {All}, ddl : BOOLEAN, row : Nat]
NoTx == [version |-> All, ddl |-> FALSE, row |-> 0]
InTx(p) == pc[p] \in {"record", "commit"}

TypeOK ==
    /\ migrations \in BOOLEAN
    /\ rows \in [Versions -> Nat]
    /\ tables \in SUBSET Versions
    /\ scripts \in [Processes -> SUBSET Versions]
    /\ pc \in [Processes -> {"idle", "create", "query", "loop", "record", "commit"}]
    /\ op \in [Processes -> {"none", "init", "up", "down"}]
    /\ target \in [Processes -> Versions \cup {All}]
    /\ todo \in [Processes -> [Versions -> Nat]]
    /\ tx \in [Processes -> Transactions]
    /\ \A p \in Processes : ~InTx(p) => tx[p] = NoTx
    /\ result \in [Processes -> {"none", "ok", "error", "panic"}]

Init ==
    /\ migrations = FALSE
    /\ rows = [v \in Versions |-> 0]
    /\ tables = {}
    /\ scripts = [p \in Processes |-> Versions]
    /\ pc = [p \in Processes |-> "idle"]
    /\ op = [p \in Processes |-> "none"]
    /\ target = [p \in Processes |-> All]
    /\ todo = [p \in Processes |-> NothingTodo]
    /\ tx = [p \in Processes |-> NoTx]
    /\ result = [p \in Processes |-> "none"]
-----------------------------------------------------------------------------
(***************************************************************************)
(* Calls and returns.                                                      *)
(***************************************************************************)

(* The method goes on to the database call `next`. *)
Goto(p, next) ==
    /\ pc' = [pc EXCEPT ![p] = next]
    /\ UNCHANGED <<op, target, result>>

(* Mutant: Rollback is forgotten. *)
Return_NoRollback(p, outcome) ==
    /\ pc' = [pc EXCEPT ![p] = "idle"]
    /\ result' = [result EXCEPT ![p] = outcome]
    /\ todo' = [todo EXCEPT ![p] = NothingTodo]
    /\ UNCHANGED <<op, target, tx>>

(* A return; a transaction still open is rolled back and leaves no trace. *)
Return(p, outcome) ==
    /\ pc' = [pc EXCEPT ![p] = "idle"]
    /\ result' = [result EXCEPT ![p] = outcome]
    /\ todo' = [todo EXCEPT ![p] = NothingTodo]
    /\ tx' = [tx EXCEPT ![p] = NoTx]
    /\ UNCHANGED <<op, target>>

(* A call that gets as far as `next`, with `outcome` if that is its return. *)
Call(p, method, to, next, outcome) ==
    /\ pc[p] = "idle"
    /\ op' = [op EXCEPT ![p] = method]
    /\ target' = [target EXCEPT ![p] = to]
    /\ pc' = [pc EXCEPT ![p] = next]
    /\ result' = [result EXCEPT ![p] = outcome]
    /\ UNCHANGED <<database, scripts, todo, tx>>

(* HasTable swallows the error of its query: it may answer FALSE at any     *)
(* time, and TRUE only if the table is there.                               *)
HasTable(answer) == answer \in BOOLEAN /\ (answer => migrations)

(* Init refuses if the table is there, else creates it in a second call. *)
CallInit(p) ==
    \/ HasTable(TRUE) /\ Call(p, "init", All, "idle", "error")
    \/ HasTable(FALSE) /\ Call(p, "init", All, "create", "none")

CreateMigrations(p) ==
    /\ pc[p] = "create"
    /\ \/ /\ ~migrations
          /\ migrations' = TRUE
          /\ Return(p, "ok")
       \/ /\ Return(p, "error")
          /\ UNCHANGED migrations
    /\ UNCHANGED <<rows, tables, scripts>>

(* Up before its first query. *)
CallUp(p) ==
    \/ HasTable(FALSE) /\ Call(p, "up", All, "idle", "error")
    \/ HasTable(TRUE) /\ scripts[p] = {} /\ Call(p, "up", All, "idle", "ok")
    \/ HasTable(TRUE) /\ scripts[p] # {} /\ Call(p, "up", All, "query", "none")

(* Down before its first query; the target must be a registered version. *)
KnownTarget(p, to) == to \in scripts[p] \cup {All}

CallDown(p, to) ==
    \/ HasTable(FALSE) /\ Call(p, "down", to, "idle", "error")
    \/ HasTable(TRUE) /\ scripts[p] = {} /\ Call(p, "down", to, "idle", "ok")
    \/ /\ HasTable(TRUE)
       /\ scripts[p] # {}
       /\ IF KnownTarget(p, to) THEN Call(p, "down", to, "query", "none")
                                ELSE Call(p, "down", to, "idle", "error")
-----------------------------------------------------------------------------
(***************************************************************************)
(* getMigratedVersions, and what each method makes of its answer.          *)
(***************************************************************************)

(* What is left of m.Scripts when Up has deleted the recorded versions. *)
Pruned(p) == scripts[p] \ Recorded

QueryFails(p) ==
    /\ pc[p] = "query"
    /\ Return(p, "error")
    /\ UNCHANGED <<database, scripts>>

QueryUp(p) ==
    /\ pc[p] = "query"
    /\ op[p] = "up"
    /\ scripts' = [scripts EXCEPT ![p] = Pruned(p)]
    /\ \/ /\ Pruned(p) = {}
          /\ Return(p, "ok")
       \/ /\ Pruned(p) # {}
          /\ todo' = [todo EXCEPT ![p] = [v \in Versions |-> IF v \in Pruned(p) THEN 1 ELSE 0]]
          /\ Goto(p, "loop")
          /\ UNCHANGED tx
    /\ UNCHANGED database

QueryDown(p) ==
    /\ pc[p] = "query"
    /\ op[p] = "down"
    /\ \/ /\ Recorded = {}
          /\ Return(p, "ok")
       \/ /\ Recorded # {}
          /\ todo' = [todo EXCEPT ![p] = rows]
          /\ Goto(p, "loop")
          /\ UNCHANGED tx
    /\ UNCHANGED <<database, scripts>>
-----------------------------------------------------------------------------
(***************************************************************************)
(* One iteration of the loop: Begin and the script, the row, Commit.       *)
(***************************************************************************)
Pending(p) == {v \in Versions : todo[p][v] > 0}

(* Mutant: the keys of the map are not sorted. *)
Oldest_Unsorted(p, v) == v \in Pending(p)

(* sort.Strings(keys) for Up, ORDER BY version desc for Down. *)
Oldest(p, v) == v \in Pending(p) /\ \A w \in Pending(p) : v <= w
(* Mutant: the versions arrive in ascending order. *)
Newest_Ascending(p, v) == Oldest(p, v)

Newest(p, v) == v \in Pending(p) /\ \A w \in Pending(p) : w <= v

(* Another open transaction has created or dropped v's table. *)
NameLocked(p, v) ==
    \E q \in Processes \ {p} : tx[q].ddl /\ tx[q].version = v

(* Another open transaction has deleted rows of version v. *)
RowsLocked(p, v) ==
    \E q \in Processes \ {p} :
        op[q] = "down" /\ tx[q].version = v /\ tx[q].row > 0

LoopEnds(p) ==
    /\ pc[p] = "loop"
    /\ Pending(p) = {}
    /\ Return(p, "ok")
    /\ UNCHANGED <<database, scripts>>

(* The version whose script runs next; Down runs none for its target, and   *)
(* none if it has lost the script.                                          *)
NextScript(p, v) ==
    IF op[p] = "up" THEN Oldest(p, v)
    ELSE Newest(p, v) /\ v # target[p] /\ v \in scripts[p]

(* Mutant: the error is shadowed and nil is returned. *)
StepFails_Shadowed(p) ==
    /\ pc[p] \in {"loop", "record"}
    /\ pc[p] = "loop" => \E v \in Versions : NextScript(p, v)
    /\ Return(p, "ok")
    /\ UNCHANGED <<database, scripts>>

(* Begin, the script, or the write of the row fails: Rollback and return. *)
StepFails(p) ==
    /\ pc[p] \in {"loop", "record"}
    /\ pc[p] = "loop" => \E v \in Versions : NextScript(p, v)
    /\ Return(p, "error")
    /\ UNCHANGED <<database, scripts>>

OpenTx(p, v, didDDL) ==
    /\ tx' = [tx EXCEPT ![p] = [version |-> v, ddl |-> didDDL, row |-> 0]]
    /\ Goto(p, "record")
    /\ UNCHANGED <<database, scripts, todo>>

(* CREATE TABLE: a table another transaction is creating makes it wait, an  *)
(* existing one is an error at once.                                        *)
RunUpScript(p) ==
    \E v \in Versions :
        /\ pc[p] = "loop"
        /\ op[p] = "up"
        /\ NextScript(p, v)
        /\ v \notin tables
        /\ ~NameLocked(p, v)
        /\ OpenTx(p, v, TRUE)

(* Mutant: CREATE TABLE IF NOT EXISTS. *)
TableExists_Tolerated(p) ==
    \E v \in Versions :
        /\ pc[p] = "loop"
        /\ op[p] = "up"
        /\ NextScript(p, v)
        /\ v \in tables
        /\ OpenTx(p, v, FALSE)

TableExists(p) ==
    \E v \in Versions :
        /\ pc[p] = "loop"
        /\ op[p] = "up"
        /\ NextScript(p, v)
        /\ v \in tables
        /\ Return(p, "error")
        /\ UNCHANGED <<database, scripts>>

ReachesTarget(p) ==
    /\ pc[p] = "loop"
    /\ op[p] = "down"
    /\ Newest(p, target[p])
    /\ Return(p, "ok")
    /\ UNCHANGED <<database, scripts>>

(* m.Scripts has no such key: its zero value holds a nil Down, calling it   *)
(* panics with the transaction open.  Nothing was executed in it.           *)
DownPanics(p) ==
    \E v \in Versions :
        /\ pc[p] = "loop"
        /\ op[p] = "down"
        /\ Newest(p, v)
        /\ v # target[p]
        /\ v \notin scripts[p]
        /\ Return(p, "panic")
        /\ UNCHANGED <<database, scripts>>

(* Mutant: the script gets m.Orm instead of the transaction. *)
RunDownScript_Autocommit(p) ==
    \E v \in Versions :
        /\ pc[p] = "loop"
        /\ op[p] = "down"
        /\ NextScript(p, v)
        /\ v \in tables => ~NameLocked(p, v)
        /\ tables' = tables \ {v}
        /\ tx' = [tx EXCEPT ![p] = [version |-> v, ddl |-> FALSE, row |-> 0]]
        /\ Goto(p, "record")
        /\ UNCHANGED <<migrations, rows, scripts, todo>>

(* DROP TABLE IF EXISTS: no such table is no error and takes no lock. *)
RunDownScript(p) ==
    \E v \in Versions :
        /\ pc[p] = "loop"
        /\ op[p] = "down"
        /\ NextScript(p, v)
        /\ v \in tables => ~NameLocked(p, v)
        /\ OpenTx(p, v, v \in tables)

(* db.Create(&Migration{...}): the table has no unique key, no row conflicts. *)
InsertRow(p) ==
    /\ pc[p] = "record"
    /\ op[p] = "up"
    /\ tx' = [tx EXCEPT ![p].row = 1]
    /\ Goto(p, "commit")
    /\ UNCHANGED <<database, scripts, todo>>

(* db.Where("version = ?", v).Delete(version): the rows visible by now. *)
DeleteRows(p) ==
    /\ pc[p] = "record"
    /\ op[p] = "down"
    /\ ~RowsLocked(p, tx[p].version)
    /\ tx' = [tx EXCEPT ![p].row = rows[tx[p].version]]
    /\ Goto(p, "commit")
    /\ UNCHANGED <<database, scripts, todo>>

(* Mutant: Down deletes from the table without its WHERE. *)
Apply_NoWhere(p) ==
    LET v == tx[p].version IN
    IF op[p] = "up"
    THEN /\ rows' = [rows EXCEPT ![v] = @ + tx[p].row]
         /\ tables' = tables \cup {v}
    ELSE /\ rows' = [w \in Versions |-> 0]
         /\ tables' = IF tx[p].ddl THEN tables \ {v} ELSE tables

(* The transaction takes effect as a whole. *)
Apply(p) ==
    LET v == tx[p].version IN
    IF op[p] = "up"
    THEN /\ rows' = [rows EXCEPT ![v] = @ + tx[p].row]
         /\ tables' = tables \cup {v}
    ELSE /\ rows' = [rows EXCEPT ![v] = @ - tx[p].row]
         /\ tables' = IF tx[p].ddl THEN tables \ {v} ELSE tables

(* _ = db.Commit(): a failed commit is not noticed, the loop goes on. *)
Commit(p) ==
    /\ pc[p] = "commit"
    /\ \/ Apply(p)
       \/ CommitMayFail /\ UNCHANGED <<rows, tables>>
    /\ todo' = [todo EXCEPT ![p][tx[p].version] = @ - 1]
    /\ tx' = [tx EXCEPT ![p] = NoTx]
    /\ Goto(p, "loop")
    /\ UNCHANGED <<migrations, scripts>>

(* The process dies and is started again: the server rolls its transaction *)
(* back and the scripts register themselves anew.                          *)
Restart(p) ==
    /\ scripts' = [scripts EXCEPT ![p] = Versions]
    /\ pc' = [pc EXCEPT ![p] = "idle"]
    /\ op' = [op EXCEPT ![p] = "none"]
    /\ target' = [target EXCEPT ![p] = All]
    /\ todo' = [todo EXCEPT ![p] = NothingTodo]
    /\ tx' = [tx EXCEPT ![p] = NoTx]
    /\ result' = [result EXCEPT ![p] = "none"]
    /\ UNCHANGED database
-----------------------------------------------------------------------------
Calls(p) == CallInit(p) \/ CallUp(p) \/ \E to \in Versions \cup {All} : CallDown(p, to)

Progress(p) ==
    \/ CreateMigrations(p) \/ QueryUp(p) \/ QueryDown(p)
    \/ LoopEnds(p) \/ ReachesTarget(p) \/ DownPanics(p)
    \/ RunUpScript(p) \/ TableExists(p) \/ RunDownScript(p)
    \/ InsertRow(p) \/ DeleteRows(p) \/ Commit(p)

Failure(p) == QueryFails(p) \/ StepFails(p) \/ Restart(p)

Next == \E p \in Processes : Calls(p) \/ Progress(p) \/ Failure(p)

(* A running method goes on; a statement that waits for a transaction is   *)
(* queued by the server, so it is not passed over for ever (hence SF).     *)
(* Nobody has to call, to fail or to crash.                                *)
Fairness == \A p \in Processes : SF_vars(Progress(p))

Spec == Init /\ [][Next]_vars
FairSpec == Spec /\ Fairness
-----------------------------------------------------------------------------
(***************************************************************************)
(* Properties.                                                             *)
(***************************************************************************)

(* Whatever the processes interleave and whichever of them dies, a version  *)
(* the migrations table records has its table: Up writes the row in the     *)
(* transaction of its script and Down deletes it in that of the drop.       *)
RecordedHasTable == \A v \in Versions : rows[v] > 0 => v \in tables

(* What an open transaction has done agrees with what is committed: an Up   *)
(* creates a table that is not there, a Down drops one that is, and a Down  *)
(* about to commit its drop deletes every row of the version.               *)
UpAgrees(p) == tx[p].ddl /\ tx[p].version \notin tables /\ tx[p].row <= 1

DownAgrees(p) ==
    /\ tx[p].ddl => tx[p].version \in tables
    /\ tx[p].row > 0 \/ (tx[p].ddl /\ pc[p] = "commit")
           => tx[p].row = rows[tx[p].version]

TxAgrees ==
    \A p \in Processes : InTx(p) =>
        /\ tx[p].version \in Versions
        /\ todo[p][tx[p].version] > 0
        /\ pc[p] = "record" => tx[p].row = 0
        /\ \/ op[p] = "up" /\ UpAgrees(p)
           \/ op[p] = "down" /\ DownAgrees(p)

(* Two open transactions never both hold the name of one table, nor both    *)
(* the deleted rows of one version.                                         *)
LocksExclude ==
    \A p, q \in Processes :
        p # q /\ tx[p].version = tx[q].version =>
            /\ ~(tx[p].ddl /\ tx[q].ddl)
            /\ ~(/\ op[p] = "down" /\ tx[p].row > 0
                 /\ op[q] = "down" /\ tx[q].row > 0)

(* No version is recorded twice, although the migrations table has no       *)
(* unique key: of two concurrent Ups only one gets its table created.       *)
AtMostOneRow == \A v \in Versions : rows[v] <= 1

(* The recorded versions are a history of single applications and reverts.  *)
Unordered == INSTANCE SchemaHistory WITH applied <- Recorded, Ordered <- FALSE
ImplementsHistory == Unordered!Spec

(* One process, and commits that do not fail: the history has no gaps; Up   *)
(* fills it from the oldest missing version, Down empties it from the newest.*)
InOrder == INSTANCE SchemaHistory WITH applied <- Recorded, Ordered <- TRUE
ImplementsOrderedHistory == InOrder!Spec

(* One process: the schema is exactly what the migrations table says. *)
SchemaIsRecorded == tables = Recorded

Returned(p, method) == pc[p] = "idle" /\ op[p] = method /\ result[p] = "ok"

(* One process: an Up that returned nil, even early because Scripts was     *)
(* empty, left every registered version applied.                            *)
UpIsComplete == \A p \in Processes : Returned(p, "up") => Recorded = Versions

(* One process: a Down that returned nil left nothing above its target,     *)
(* unless earlier Ups had deleted every script of the process.              *)
DownIsComplete ==
    \A p \in Processes :
        Returned(p, "down") /\ scripts[p] # {} =>
            \A v \in Recorded : target[p] # All /\ v <= target[p]

(* Every call returns: no two migrators wait for each other for ever, and a *)
(* process that died does not leave the others waiting.                     *)
CallReturns == \A p \in Processes : pc[p] # "idle" ~> pc[p] = "idle"
=============================================================================
