----------------------------- MODULE SqlHandles -----------------------------
(***************************************************************************)
(* The handles (sql.ORM) of                                                *)
(* persistent/sql/implementations/gorm/postgres/postgres.go.               *)
(*                                                                         *)
(* Every goroutine starts from the one handle of NewPostgresConnection and *)
(* goes on with the handle the last method returned.  Whether that has a   *)
(* *gorm.DB of its own is gorm's decision (external, getInstance): a       *)
(* `fresh` DB, the connection or a transaction, gives a new one with an    *)
(* empty statement, a `copy` one with a copy of its statement, and a       *)
(* `chain` DB, which is what builders return, gives itself, so that its     *)
(* statement and its error stay with the handle.  With SQLDebug a method   *)
(* first runs on a copy that is dropped; that is left out.  gorm's         *)
(* Migrator works on a copy, too, so that of the methods for tables and    *)
(* columns only the two that are given a name leave anything on a handle.  *)
(***************************************************************************)
EXTENDS Naturals, FiniteSets

CONSTANTS
    Clients,    \* goroutines; c is also c's transaction, and the gorm.DB c
                \* holds besides the connection's
    Root,       \* the gorm.DB of NewPostgresConnection
    Server,     \* its connection pool, as opposed to a client's transaction
    MaxAsked    \* bound: what is asked for on the way to one handle

ASSUME SqlAssumption ==
    /\ Root \notin Clients
    /\ Server \notin Clients
    /\ MaxAsked \in Nat

Objects == Clients \cup {Root}

(* clause: any that is added or set (conditions, joins, groups, Order,      *)
(* Limit, Offset, ON CONFLICT); order: those of Sort.                       *)
Fields == {"fields", "lastField"}
Clauses == {"clause", "table", "order"} \cup Fields

VARIABLES
    db,     \* db[o]: a gorm.DB
    handle, \* handle[c]: the handle client c has
    tx,     \* tx[c]: c's transaction
    missed, \* whether a query was executed without the segment asked for
    misuser \* clients that called Commit or Rollback on the connection

vars == <<db, handle, tx, missed, misuser>>

(* error: whose failures its Error holds. *)
DBs == [clone : {"fresh", "copy", "chain"},
        stmt  : SUBSET Clauses,
        error : SUBSET Clients,
        pool  : Clients \cup {Server}]

(* asked: what was asked for on the way to this handle (a ghost). *)
Handles == [db : Objects, isMonitor : BOOLEAN, asked : SUBSET (Clauses \cup {"monitor"})]

NewDB == [clone |-> "fresh", stmt |-> {}, error |-> {}, pool |-> Server]
RootHandle == [db |-> Root, isMonitor |-> FALSE, asked |-> {}]

TypeOK ==
    /\ db \in [Objects -> DBs]
    /\ handle \in [Clients -> Handles]
    /\ tx \in [Clients -> {"none", "open", "ended"}]
    /\ missed \in BOOLEAN
    /\ misuser \in SUBSET Clients
    /\ \A c \in Clients : (\E o \in Objects : db[o].pool = c) => tx[c] # "none"

InitWith(connection) ==
    /\ db = [o \in Objects |-> IF o = Root THEN connection ELSE NewDB]
    /\ handle = [c \in Clients |-> RootHandle]
    /\ tx = [c \in Clients |-> "none"]
    /\ missed = FALSE
    /\ misuser = {}

(* Mutant: SetDB is given a chained DB, gorm's db.Set(...). *)
Init_Chained == InitWith([NewDB EXCEPT !.clone = "chain"])

Init == InitWith(NewDB)
-----------------------------------------------------------------------------
(***************************************************************************)
(* gorm, and what a client does with the handle a method returns.          *)
(***************************************************************************)
InUse(handles) == {Root} \cup {handles[c].db : c \in Clients}

(* getInstance: the DB it answers with, and the answer's content.  (A new   *)
(* DB takes the place of the client's old one, which no handle refers to.)  *)
Chosen(c, o) == IF db[o].clone = "chain" THEN o ELSE c

Instance(o) ==
    [db[o] EXCEPT !.clone = "chain", !.stmt = IF db[o].clone = "fresh" THEN {} ELSE @]

(* A Select replaces the fields selected before. *)
With(dbo, clauses) ==
    [dbo EXCEPT !.stmt = clauses \cup IF clauses \cap Fields = {} THEN @ ELSE @ \ Fields]

(* The client goes on with another handle; a DB that no handle refers to is *)
(* gone.                                                                    *)
Takes(c, h, dbs) ==
    /\ Cardinality(h.asked) <= MaxAsked
    /\ handle' = [handle EXCEPT ![c] = h]
    /\ db' = [o \in Objects |-> IF o \in InUse(handle') THEN dbs[o] ELSE NewDB]
-----------------------------------------------------------------------------
(***************************************************************************)
(* Builder methods.                                                        *)
(***************************************************************************)

(* Mutant: isMonitor is not copied, as in Minio.SetPutOption. *)
Derived_NotMonitored(h, o, asked) ==
    [db |-> o, isMonitor |-> FALSE, asked |-> h.asked \cup asked]

(* &SQL{...}: the DB is new, the rest is copied from s. *)
Derived(h, o, asked) == [h EXCEPT !.db = o, !.asked = @ \cup asked]

Build(c, asked, clauses) ==
    LET h == handle[c]
        o == Chosen(c, h.db)
    IN
    /\ Takes(c, Derived(h, o, asked), [db EXCEPT ![o] = With(Instance(h.db), clauses)])
    /\ UNCHANGED <<tx, missed, misuser>>

(* What the builder methods ask for, and gorm adds. *)
Where == {"clause"}
Order == {"clause"}
Join == {"clause"}
Group == {"clause"}
Table == {"table"}
FillQuery == {"table", "clause"}
QueryBuilder == {"table", "clause", "fields"}
Builders == {Where, Order, Join, Group, Table, FillQuery, QueryBuilder}

(* Select calls gorm's Select field by field: the last one is selected. *)
Select(c) == Build(c, {"fields"}, {"lastField"})

(* Sort drops what db.Order returns and hands s.db on: on a chain the order *)
(* is in its statement all the same, elsewhere it is lost.                  *)
Sort(c) ==
    LET h == handle[c] IN
    /\ Takes(c, Derived(h, h.db, {"order"}),
             IF db[h.db].clone = "chain" THEN [db EXCEPT ![h.db] = With(@, {"order"})] ELSE db)
    /\ UNCHANGED <<tx, missed, misuser>>

Monitor(c) ==
    LET h == handle[c] IN
    /\ Takes(c, [Derived(h, h.db, {"monitor"}) EXCEPT !.isMonitor = TRUE], db)
    /\ UNCHANGED <<tx, missed, misuser>>
-----------------------------------------------------------------------------
(***************************************************************************)
(* Methods that execute.  A DB with an Error executes nothing.             *)
(***************************************************************************)
Executes(o) == db[o].error = {}
TxIsOver(o) == db[o].pool # Server /\ tx[db[o].pool] = "ended"

Failed(dbo, c) == [dbo EXCEPT !.error = @ \cup {c}]

(* A query by handle h; it has a segment if its method has a doMonitor, as  *)
(* all but Count have.                                                      *)
Queried(h, doMonitor) ==
    missed' = \/ missed
              \/ doMonitor /\ Executes(h.db) /\ "monitor" \in h.asked /\ ~h.isMonitor

(* Mutant: s.db = s.db.Create(data) keeps the error in the handle. *)
Execute_KeepsDB(c, clauses, doMonitor, fails) ==
    LET h == handle[c]
        after == With(db[h.db], clauses)
    IN
    /\ TxIsOver(h.db) => fails
    /\ Queried(h, doMonitor)
    /\ Takes(c, Derived(h, h.db, clauses),
             [db EXCEPT ![h.db] = IF Executes(h.db) /\ fails THEN Failed(after, c) ELSE after])
    /\ UNCHANGED <<tx, misuser>>

(* On a chain the error stays in its DB, and so do the clauses the method   *)
(* itself adds; a fresh DB or a copy executes on a DB that is dropped.      *)
Execute(c, clauses, doMonitor, fails) ==
    LET h == handle[c]
        after == With(db[h.db], clauses)
    IN
    /\ TxIsOver(h.db) => fails
    /\ Queried(h, doMonitor)
    /\ IF db[h.db].clone # "chain" THEN UNCHANGED <<db, handle>>
       ELSE Takes(c, Derived(h, h.db, clauses),
                  [db EXCEPT ![h.db] = IF Executes(h.db) /\ fails THEN Failed(after, c) ELSE after])
    /\ UNCHANGED <<tx, misuser>>

(* What executing methods add: All, Create, Exec, RawSql and Scan nothing;  *)
(* First (whose missing record is an error) ORDER BY and LIMIT 1; Update    *)
(* and Delete the primary keys of their data; Patch its fields; Upsert ON   *)
(* CONFLICT, and it executes its INSERT twice, the first time in one chunk. *)
Plain == {}
First == {"clause"}
Update == {"clause"}
Delete == {"clause"}
Patch == {"fields"}
Upsert == {"clause"}

(* CreateTableWithName and DropTableWithName: whatever becomes of the       *)
(* statement, on a chain the name given to Table stays for the queries      *)
(* after it.                                                                *)
WithName(c) ==
    /\ db[handle[c].db].clone = "chain"
    /\ Build(c, Table, Table)

(* Count has no doMonitor and drops its error. *)
Count(c, fails) == Execute(c, {}, FALSE, fails)

(* QueryBuilder, and All on the handle that is returned. *)
FindByQuery(c, fails) ==
    LET h == handle[c]
        o == Chosen(c, h.db)
        built == With(Instance(h.db), QueryBuilder)
    IN
    /\ TxIsOver(h.db) => fails
    /\ Queried(h, TRUE)
    /\ Takes(c, Derived(h, o, QueryBuilder),
             [db EXCEPT ![o] = IF Executes(h.db) /\ fails THEN Failed(built, c) ELSE built])
    /\ UNCHANGED <<tx, misuser>>
-----------------------------------------------------------------------------
(***************************************************************************)
(* Transactions.                                                           *)
(***************************************************************************)

(* A DB of its own, with the statement of a chain if it is begun on one.    *)
(* Begin in a transaction is an error.                                      *)
Begin(c, fails) ==
    LET h == handle[c]
        begun == [db[h.db] EXCEPT !.clone = IF @ = "fresh" THEN @ ELSE "copy"]
    IN
    /\ db[h.db].pool # Server => fails
    /\ Takes(c, Derived(h, c, {}),
             [db EXCEPT ![c] = IF fails THEN Failed(begun, c) ELSE [begun EXCEPT !.pool = c]])
    /\ tx' = IF fails THEN tx ELSE [tx EXCEPT ![c] = "open"]
    /\ UNCHANGED <<missed, misuser>>

(* Commit and Rollback work on s.db itself, and so does their error; on a   *)
(* DB that is no transaction it is ErrInvalidTransaction.                   *)
Commit(c, fails) ==
    LET o == handle[c].db IN
    /\ db[o].pool = Server \/ TxIsOver(o) => fails
    /\ db' = IF fails THEN [db EXCEPT ![o] = Failed(@, c)] ELSE db
    /\ tx' = IF db[o].pool = Server THEN tx ELSE [tx EXCEPT ![c] = "ended"]
    /\ misuser' = IF o = Root THEN misuser \cup {c} ELSE misuser
    /\ UNCHANGED <<handle, missed>>

(* The client starts again from the connection's handle. *)
Restart(c) ==
    /\ handle[c] # RootHandle
    /\ Takes(c, RootHandle, db)
    /\ tx' = [tx EXCEPT ![c] = "none"]
    /\ UNCHANGED <<missed, misuser>>
-----------------------------------------------------------------------------
Builds(c) ==
    \/ \E clauses \in Builders : Build(c, clauses, clauses)
    \/ Select(c) \/ Sort(c) \/ Monitor(c)

Executions(c, fails) ==
    \/ \E clauses \in {Plain, First, Update, Delete, Patch, Upsert} : Execute(c, clauses, TRUE, fails)
    \/ Count(c, fails) \/ FindByQuery(c, fails)

Next ==
    \E c \in Clients :
        \/ Builds(c) \/ WithName(c) \/ Restart(c)
        \/ \E fails \in BOOLEAN : Executions(c, fails) \/ Begin(c, fails) \/ Commit(c, fails)

Spec == Init /\ [][Next]_vars
-----------------------------------------------------------------------------
(***************************************************************************)
(* Properties.                                                             *)
(***************************************************************************)

(* Whatever other goroutines build on the shared connection, inside or      *)
(* outside a transaction: the next query of a client has the clauses it     *)
(* asked for on the way to its handle, those of its earlier queries on the  *)
(* same chain among them, and no others.  (Sort and Select may lose theirs.)*)
AsBuilt ==
    \A c \in Clients :
        LET h == handle[c] IN
        /\ db[h.db].stmt \subseteq h.asked \cup {"lastField"}
        /\ h.asked \cap {"clause", "table"} \subseteq db[h.db].stmt

(* A query is refused because of an earlier error only if that error is the *)
(* same client's, unless somebody has called Commit or Rollback on the      *)
(* connection's handle.                                                     *)
ErrorsStayWithClient ==
    \A c \in Clients : db[handle[c].db].error \subseteq {c} \cup misuser

(* Every query of a handle made from a monitored one has a segment, through *)
(* any chain of builders and transactions, if it is not a Count.            *)
QueriesHaveSegments == ~missed
=============================================================================
