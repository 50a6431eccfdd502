--------------------------- MODULE MigratorProofs ---------------------------
(***************************************************************************)
(* Proofs about the migrator, for any number of processes and versions,    *)
(* and with commits that may fail.                                         *)
(*                                                                         *)
(* RecordedHasTable is not inductive: that the commit of an Up leaves the  *)
(* table behind, and that no other transaction can take it away in between,*)
(* needs what every open transaction has done (TxAgrees) and what the      *)
(* server's locks exclude (LocksExclude).  TypeOK needs them too, because  *)
(* `rows` is decremented.                                                  *)
(***************************************************************************)
EXTENDS Migrator, TLAPS

IInv == TypeOK /\ TxAgrees /\ LocksExclude /\ RecordedHasTable /\ AtMostOneRow

(* The invariant holds before any migrator is called. *)
LEMMA InitIInv == Init => IInv
<1> SUFFICES ASSUME Init PROVE IInv
  OBVIOUS
<1>1. TypeOK
  BY DEF Init, TypeOK, InTx, NoTx, NothingTodo, Transactions
<1>2. TxAgrees
  BY DEF Init, TxAgrees, InTx
<1>3. LocksExclude
  BY DEF Init, LocksExclude, NoTx
<1>4. RecordedHasTable /\ AtMostOneRow
  BY DEF Init, RecordedHasTable, AtMostOneRow
<1> QED BY <1>1, <1>2, <1>3, <1>4 DEF IInv

(* A step that commits nothing and leaves process p without a transaction.  *)
LEMMA NoTransaction ==
  ASSUME IInv, NEW p \in Processes,
         migrations' \in BOOLEAN, rows' = rows, tables' = tables,
         scripts' \in [Processes -> SUBSET Versions],
         NEW next \in {"idle", "create", "query", "loop"},
         pc' = [pc EXCEPT ![p] = next],
         NEW method \in {"none", "init", "up", "down"}, NEW to \in Versions \cup {All},
         op' = [op EXCEPT ![p] = method], target' = [target EXCEPT ![p] = to],
         NEW left \in [Versions -> Nat], todo' = [todo EXCEPT ![p] = left],
         tx' = [tx EXCEPT ![p] = NoTx],
         result' \in [Processes -> {"none", "ok", "error", "panic"}]
  PROVE  IInv'
<1>1. TypeOK'
  BY DEF IInv, TypeOK, InTx, NoTx, Transactions
<1>2. TxAgrees'
  <2> SUFFICES ASSUME NEW q \in Processes, InTx(q)'
               PROVE  /\ tx'[q].version \in Versions
                      /\ todo'[q][tx'[q].version] > 0
                      /\ pc'[q] = "record" => tx'[q].row = 0
                      /\ \/ op'[q] = "up" /\ UpAgrees(q)'
                         \/ op'[q] = "down" /\ DownAgrees(q)'
    BY DEF TxAgrees
  <2>1. q # p /\ InTx(q)
    BY DEF IInv, TypeOK, InTx
  <2> QED BY <2>1 DEF IInv, TypeOK, TxAgrees, UpAgrees, DownAgrees
<1>3. LocksExclude'
  BY DEF IInv, TypeOK, LocksExclude, NoTx
<1>4. RecordedHasTable' /\ AtMostOneRow'
  BY DEF IInv, RecordedHasTable, AtMostOneRow
<1> QED BY <1>1, <1>2, <1>3, <1>4 DEF IInv

(* Transaction t of process p is consistent with the database and with the  *)
(* transactions of the others.                                              *)
Consistent(p, t, next) ==
    /\ t \in Transactions /\ t.version \in Versions /\ todo[p][t.version] > 0
    /\ next = "record" => t.row = 0
    /\ \/ op[p] = "up" /\ t.ddl /\ t.version \notin tables /\ t.row <= 1
       \/ /\ op[p] = "down"
          /\ t.ddl => t.version \in tables
          /\ t.row > 0 \/ (t.ddl /\ next = "commit") => t.row = rows[t.version]
    /\ \A q \in Processes \ {p} : tx[q].version = t.version =>
          /\ ~(t.ddl /\ tx[q].ddl)
          /\ ~(op[p] = "down" /\ t.row > 0 /\ op[q] = "down" /\ tx[q].row > 0)

(* A running transaction of p gets as far as t; nothing is committed yet.   *)
LEMMA OpenTransaction ==
  ASSUME IInv, NEW p \in Processes,
         UNCHANGED <<database, scripts, todo, op, target, result>>,
         NEW next \in {"record", "commit"}, pc' = [pc EXCEPT ![p] = next],
         NEW t, tx' = [tx EXCEPT ![p] = t], Consistent(p, t, next)
  PROVE  IInv'
<1>1. TypeOK'
  BY DEF IInv, TypeOK, InTx, database, Consistent
<1>2. TxAgrees'
  BY DEF IInv, TypeOK, TxAgrees, UpAgrees, DownAgrees, InTx, database, Consistent
<1>3. LocksExclude'
  BY DEF IInv, TypeOK, LocksExclude, Consistent
<1>4. RecordedHasTable' /\ AtMostOneRow'
  BY DEF IInv, RecordedHasTable, AtMostOneRow, database
<1> QED BY <1>1, <1>2, <1>3, <1>4 DEF IInv

(* A commit makes what p's transaction holds the schema; the locks p holds  *)
(* keep the other open transactions in agreement with it.                   *)
LEMMA CommitIInv ==
  ASSUME IInv, NEW p \in Processes, Commit(p)
  PROVE  IInv'
<1> DEFINE v == tx[p].version
<1>1. /\ pc[p] = "commit" /\ InTx(p) /\ v \in Versions /\ todo[p][v] \in Nat /\ todo[p][v] > 0
      /\ rows[v] \in Nat /\ tx[p].row \in Nat /\ tx[p].ddl \in BOOLEAN
      /\ \/ op[p] = "up" /\ UpAgrees(p)
         \/ op[p] = "down" /\ DownAgrees(p)
  BY DEF Commit, InTx, IInv, TypeOK, TxAgrees, Transactions
<1>2. /\ pc' = [pc EXCEPT ![p] = "loop"]
      /\ UNCHANGED <<op, target, result, migrations, scripts>>
      /\ tx' = [tx EXCEPT ![p] = NoTx]
      /\ todo' = [todo EXCEPT ![p][v] = @ - 1]
  BY DEF Commit, Goto
<1>3. todo' = [todo EXCEPT ![p] = [todo[p] EXCEPT ![v] = @ - 1]]
      /\ [todo[p] EXCEPT ![v] = @ - 1] \in [Versions -> Nat]
  BY <1>1, <1>2 DEF IInv, TypeOK
<1>4. CASE UNCHANGED <<rows, tables>>
  <2>1. pc' = [pc EXCEPT ![p] = "loop"] /\ op' = [op EXCEPT ![p] = op[p]]
        /\ target' = [target EXCEPT ![p] = target[p]]
        /\ op[p] \in {"none", "init", "up", "down"} /\ target[p] \in Versions \cup {All}
        /\ result' \in [Processes -> {"none", "ok", "error", "panic"}]
        /\ migrations' \in BOOLEAN /\ scripts' \in [Processes -> SUBSET Versions]
    BY <1>2 DEF IInv, TypeOK
  <2> QED BY <1>2, <1>3, <1>4, <2>1, NoTransaction
<1>5. CASE Apply(p)
  <2>1. \A w \in Versions : w # v => rows'[w] = rows[w] /\ (w \in tables' <=> w \in tables)
    BY <1>1, <1>5 DEF Apply, IInv, TypeOK
  <2>2. /\ rows'[v] \in Nat /\ rows'[v] <= 1 /\ (rows'[v] > 0 => v \in tables')
        /\ rows' \in [Versions -> Nat] /\ tables' \in SUBSET Versions
    <3>1. CASE op[p] = "up"
      <4>1. rows[v] = 0
        BY <1>1, <3>1 DEF UpAgrees, IInv, RecordedHasTable
      <4> QED BY <1>1, <1>5, <3>1, <4>1 DEF Apply, UpAgrees, IInv, TypeOK
    <3>2. CASE op[p] = "down"
      <4>1. /\ tx[p].ddl => tx[p].row = rows[v]
            /\ tx[p].row = 0 \/ tx[p].row = rows[v]
            /\ rows[v] <= 1 /\ (rows[v] > 0 => v \in tables)
        BY <1>1, <3>2 DEF DownAgrees, IInv, AtMostOneRow, RecordedHasTable
      <4>2. rows' = [rows EXCEPT ![v] = @ - tx[p].row]
            /\ tables' = IF tx[p].ddl THEN tables \ {v} ELSE tables
        BY <1>5, <3>2 DEF Apply
      <4> QED BY <1>1, <4>1, <4>2 DEF IInv, TypeOK
    <3> QED BY <1>1, <3>1, <3>2
  <2>3. TypeOK'
    <3>1. todo' \in [Processes -> [Versions -> Nat]]
      BY <1>3 DEF IInv, TypeOK
    <3>2. tx' \in [Processes -> Transactions] /\ \A q \in Processes : ~InTx(q)' => tx'[q] = NoTx
      BY <1>2 DEF IInv, TypeOK, InTx, NoTx, Transactions
    <3> QED BY <1>2, <2>2, <3>1, <3>2 DEF IInv, TypeOK
  <2>4. TxAgrees'
    <3> SUFFICES ASSUME NEW q \in Processes, InTx(q)'
                 PROVE  /\ tx'[q].version \in Versions
                        /\ todo'[q][tx'[q].version] > 0
                        /\ pc'[q] = "record" => tx'[q].row = 0
                        /\ \/ op'[q] = "up" /\ UpAgrees(q)'
                           \/ op'[q] = "down" /\ DownAgrees(q)'
      BY DEF TxAgrees
    <3>1. q # p /\ InTx(q) /\ tx'[q] = tx[q] /\ op'[q] = op[q] /\ pc'[q] = pc[q] /\ todo'[q] = todo[q]
      BY <1>2, <1>3 DEF InTx, IInv, TypeOK
    <3>2. /\ tx[q].version \in Versions /\ todo[q][tx[q].version] > 0
          /\ pc[q] = "record" => tx[q].row = 0
          /\ \/ op[q] = "up" /\ UpAgrees(q)
             \/ op[q] = "down" /\ DownAgrees(q)
          /\ tx[q].row \in Nat /\ tx[q].ddl \in BOOLEAN
      BY <3>1 DEF IInv, TypeOK, TxAgrees, Transactions
    <3>3. CASE tx[q].version # v
      BY <2>1, <3>1, <3>2, <3>3 DEF UpAgrees, DownAgrees
    <3>4. CASE tx[q].version = v
      <4>1. ~(tx[p].ddl /\ tx[q].ddl)
            /\ ~(op[p] = "down" /\ tx[p].row > 0 /\ op[q] = "down" /\ tx[q].row > 0)
        BY <3>1, <3>4 DEF IInv, LocksExclude
      <4>2. CASE op[p] = "up"
        <5>1. rows[v] = 0 /\ tx[p].ddl /\ v \notin tables
          BY <1>1, <4>2 DEF UpAgrees, IInv, RecordedHasTable
        <5>2. op[q] = "down" /\ ~tx[q].ddl /\ tx[q].row = 0
          BY <3>2, <3>4, <4>1, <5>1 DEF UpAgrees, DownAgrees
        <5> QED BY <3>1, <3>2, <5>2 DEF DownAgrees
      <4>3. CASE op[p] = "down" /\ op[q] = "up"
        <5>1. v \notin tables /\ rows[v] = 0 /\ tx[q].ddl
          BY <3>2, <3>4, <4>3 DEF UpAgrees, IInv, TypeOK, RecordedHasTable
        <5>2. v \notin tables'
          BY <1>5, <4>3, <5>1 DEF Apply
        <5> QED BY <3>1, <3>2, <3>4, <4>3, <5>1, <5>2 DEF UpAgrees
      <4>4. CASE op[p] = "down" /\ op[q] = "down"
        <5>1. tx[p].row = 0 \/ tx[q].row = 0
          BY <1>1, <3>2, <4>1, <4>4
        <5>2. rows'[v] = rows[v] - tx[p].row
              /\ tables' = IF tx[p].ddl THEN tables \ {v} ELSE tables
          BY <1>1, <1>5, <4>4 DEF Apply, IInv, TypeOK
        <5>3. /\ tx[p].ddl \/ tx[p].row > 0 => tx[p].row = rows[v]
              /\ tx[q].ddl => v \in tables
              /\ tx[q].row > 0 \/ (tx[q].ddl /\ pc[q] = "commit") => tx[q].row = rows[v]
          BY <1>1, <3>2, <3>4, <4>4 DEF DownAgrees
        <5>4. tx[q].ddl => v \in tables'
          BY <4>1, <5>2, <5>3
        <5>5. tx[q].row > 0 \/ (tx[q].ddl /\ pc[q] = "commit") => tx[q].row = rows'[v]
          BY <1>1, <3>2, <5>1, <5>2, <5>3
        <5> QED BY <3>1, <3>2, <3>4, <4>4, <5>4, <5>5 DEF DownAgrees
      <4> QED BY <1>1, <3>2, <4>2, <4>3, <4>4
    <3> QED BY <3>3, <3>4
  <2>5. LocksExclude'
    BY <1>2 DEF IInv, TypeOK, LocksExclude, NoTx
  <2>6. RecordedHasTable' /\ AtMostOneRow'
    BY <2>1, <2>2 DEF IInv, RecordedHasTable, AtMostOneRow
  <2> QED BY <2>3, <2>4, <2>5, <2>6 DEF IInv
<1> QED BY <1>4, <1>5 DEF Commit

(* Every step of every process preserves the invariant. *)
LEMMA NextIInv == IInv /\ [Next]_vars => IInv'
<1> SUFFICES ASSUME IInv, [Next]_vars PROVE IInv'
  OBVIOUS
<1>1. CASE UNCHANGED vars
  BY <1>1 DEF vars, IInv, TypeOK, InTx, TxAgrees, UpAgrees, DownAgrees, LocksExclude,
              RecordedHasTable, AtMostOneRow
<1>2. ASSUME NEW p \in Processes, Calls(p) \/ Progress(p) \/ Failure(p)
      PROVE  IInv'
  <2>1. /\ op[p] \in {"none", "init", "up", "down"} /\ op = [op EXCEPT ![p] = op[p]]
        /\ target[p] \in Versions \cup {All} /\ target = [target EXCEPT ![p] = target[p]]
        /\ NothingTodo \in [Versions -> Nat]
        /\ rows \in [Versions -> Nat] /\ migrations \in BOOLEAN
        /\ scripts \in [Processes -> SUBSET Versions]
        /\ todo[p] \in [Versions -> Nat] /\ todo = [todo EXCEPT ![p] = todo[p]]
        /\ result \in [Processes -> {"none", "ok", "error", "panic"}]
        /\ ~InTx(p) => tx = [tx EXCEPT ![p] = NoTx]
    BY DEF IInv, TypeOK, NothingTodo
  <2>2. ASSUME NEW outcome \in {"ok", "error", "panic"}, Return(p, outcome),
               rows' = rows, tables' = tables, migrations' \in BOOLEAN,
               scripts' \in [Processes -> SUBSET Versions]
        PROVE  IInv'
    BY <2>1, <2>2, NoTransaction DEF Return, IInv, TypeOK
  <2>3. ASSUME NEW method \in {"init", "up", "down"}, NEW to \in Versions \cup {All},
               NEW next \in {"idle", "create", "query"},
               NEW outcome \in {"none", "ok", "error"},
               Call(p, method, to, next, outcome)
        PROVE  IInv'
    BY <2>1, <2>3, NoTransaction DEF Call, database, InTx, IInv, TypeOK
  <2>4. CASE CallInit(p)
    BY <2>3, <2>4 DEF CallInit
  <2>5. CASE CallUp(p)
    BY <2>3, <2>5 DEF CallUp
  <2>6. ASSUME NEW to \in Versions \cup {All}, CallDown(p, to)
        PROVE  IInv'
    BY <2>3, <2>6 DEF CallDown
  <2>7. CASE CreateMigrations(p)
    BY <2>1, <2>2, <2>7 DEF CreateMigrations
  <2>8. ASSUME pc[p] = "query", Goto(p, "loop"), UNCHANGED <<database, tx>>,
               scripts' \in [Processes -> SUBSET Versions],
               NEW left \in [Versions -> Nat], todo' = [todo EXCEPT ![p] = left]
        PROVE  IInv'
    BY <2>1, <2>8, NoTransaction DEF Goto, database, InTx
  <2>9. CASE QueryUp(p)
    <3>1. scripts' \in [Processes -> SUBSET Versions]
      BY <2>1, <2>9 DEF QueryUp, Pruned
    <3>2. [v \in Versions |-> IF v \in Pruned(p) THEN 1 ELSE 0] \in [Versions -> Nat]
      OBVIOUS
    <3> QED BY <2>1, <2>2, <2>8, <2>9, <3>1, <3>2 DEF QueryUp, database
  <2>10. CASE QueryDown(p)
    BY <2>1, <2>2, <2>8, <2>10 DEF QueryDown, database
  <2>11. CASE LoopEnds(p) \/ ReachesTarget(p) \/ DownPanics(p) \/ TableExists(p)
              \/ QueryFails(p) \/ StepFails(p)
    BY <2>1, <2>2, <2>11 DEF LoopEnds, ReachesTarget, DownPanics, TableExists,
                             QueryFails, StepFails, database
  <2>12. CASE RunUpScript(p)
    <3>1. PICK v \in Versions : /\ op[p] = "up" /\ NextScript(p, v) /\ v \notin tables
                                /\ ~NameLocked(p, v) /\ OpenTx(p, v, TRUE)
      BY <2>12 DEF RunUpScript
    <3>2. todo[p][v] > 0
      BY <3>1 DEF NextScript, Oldest, Pending
    <3> DEFINE t == [version |-> v, ddl |-> TRUE, row |-> 0]
    <3>3. Consistent(p, t, "record")
      BY <3>1, <3>2 DEF Consistent, NameLocked, Transactions
    <3>4. tx' = [tx EXCEPT ![p] = t] /\ Goto(p, "record") /\ UNCHANGED <<database, scripts, todo>>
      BY <3>1 DEF OpenTx
    <3> HIDE DEF t
    <3> QED BY <3>3, <3>4, OpenTransaction DEF Goto
  <2>13. CASE RunDownScript(p)
    <3>1. PICK v \in Versions : /\ op[p] = "down" /\ NextScript(p, v)
                                /\ v \in tables => ~NameLocked(p, v)
                                /\ OpenTx(p, v, v \in tables)
      BY <2>13 DEF RunDownScript
    <3>2. todo[p][v] > 0
      BY <3>1 DEF NextScript, Newest, Pending
    <3> DEFINE t == [version |-> v, ddl |-> v \in tables, row |-> 0]
    <3>3. Consistent(p, t, "record")
      <4>1. \A dropped \in BOOLEAN :
               [version |-> v, ddl |-> dropped, row |-> 0] \in Transactions
        BY DEF Transactions
      <4>2. (v \in tables) \in BOOLEAN
        OBVIOUS
      <4>3. t \in Transactions
        BY <4>1, <4>2, Zenon
      <4>4. t.version = v /\ t.row = 0
        OBVIOUS
      <4>5. t.ddl => v \in tables
        BY Zenon
      <4>6. \A q \in Processes \ {p} : tx[q].version = v => ~(t.ddl /\ tx[q].ddl)
        BY <3>1, <4>5 DEF NameLocked
      <4> HIDE DEF t
      <4> QED BY <3>1, <3>2, <4>3, <4>4, <4>5, <4>6 DEF Consistent
    <3>4. tx' = [tx EXCEPT ![p] = t] /\ Goto(p, "record") /\ UNCHANGED <<database, scripts, todo>>
      BY <3>1 DEF OpenTx
    <3> HIDE DEF t
    <3> QED BY <3>3, <3>4, OpenTransaction DEF Goto
  <2>14. CASE InsertRow(p) \/ DeleteRows(p)
    <3> DEFINE row == IF op[p] = "up" THEN 1 ELSE rows[tx[p].version]
               t == [tx[p] EXCEPT !.row = row]
    <3>1. /\ pc[p] = "record" /\ InTx(p) /\ tx[p] \in Transactions
          /\ tx[p].version \in Versions /\ todo[p][tx[p].version] > 0
          /\ \/ op[p] = "up" /\ InsertRow(p) /\ UpAgrees(p)
             \/ op[p] = "down" /\ DeleteRows(p) /\ DownAgrees(p)
      BY <2>14 DEF InsertRow, DeleteRows, InTx, IInv, TypeOK, TxAgrees
    <3>2. t \in Transactions /\ t.version = tx[p].version /\ t.ddl = tx[p].ddl /\ t.row = row
      BY <3>1 DEF IInv, TypeOK, Transactions
    <3>3. tx' = [tx EXCEPT ![p] = t] /\ Goto(p, "commit") /\ UNCHANGED <<database, scripts, todo>>
      BY <3>1 DEF InsertRow, DeleteRows, IInv, TypeOK
    <3>4. \A q \in Processes \ {p} : tx[q].version = t.version =>
             /\ ~(t.ddl /\ tx[q].ddl)
             /\ ~(op[p] = "down" /\ op[q] = "down" /\ tx[q].row > 0)
      BY <3>1, <3>2 DEF IInv, LocksExclude, DeleteRows, RowsLocked
    <3>5. \/ op[p] = "up" /\ t.ddl /\ t.version \notin tables /\ t.row <= 1
          \/ /\ op[p] = "down"
             /\ t.ddl => t.version \in tables
             /\ t.row = rows[t.version]
      BY <3>1, <3>2 DEF UpAgrees, DownAgrees
    <3>6. Consistent(p, t, "commit")
      BY <3>1, <3>2, <3>4, <3>5 DEF Consistent
    <3> HIDE DEF t
    <3> QED BY <3>3, <3>6, OpenTransaction DEF Goto
  <2>15. CASE Commit(p)
    BY <2>15, CommitIInv
  <2>16. CASE Restart(p)
    BY <2>1, <2>16, NoTransaction DEF Restart, database, IInv, TypeOK
  <2> QED BY <1>2, <2>4, <2>5, <2>6, <2>7, <2>9, <2>10, <2>11, <2>12, <2>13, <2>14,
             <2>15, <2>16 DEF Calls, Progress, Failure
<1> QED BY <1>1, <1>2 DEF Next

(* The inductive invariant holds in every state the migrators can reach.    *)
THEOREM Invariance == Spec => []IInv
  BY InitIInv, NextIInv, PTL DEF Spec

(* Type correctness; with it, the count of a version's rows never goes      *)
(* below zero.                                                              *)
THEOREM TypeCorrect == Spec => []TypeOK
  BY Invariance, PTL DEF IInv

(* However many processes migrate one database, crash, or lose a commit, a  *)
(* version the migrations table records has its table.                      *)
THEOREM RecordedVersionsHaveTables == Spec => []RecordedHasTable
  BY Invariance, PTL DEF IInv

(* And it records no version twice, although the table has no unique key.   *)
THEOREM VersionsAreRecordedOnce == Spec => []AtMostOneRow
  BY Invariance, PTL DEF IInv

(* Open transactions agree with the schema, and the locks exclude.          *)
THEOREM OpenTransactionsAgree == Spec => [](TxAgrees /\ LocksExclude)
  BY Invariance, PTL DEF IInv

(* The next statement of p's loop waits for the transaction of q: CREATE or *)
(* DROP TABLE for its name, DELETE for its rows.                            *)
WaitsFor(p, q) ==
    /\ p # q
    /\ \/ /\ pc[p] = "loop"
          /\ \E v \in Versions :
                /\ NextScript(p, v) /\ (op[p] = "up" <=> v \notin tables)
                /\ tx[q].ddl /\ tx[q].version = v
       \/ /\ pc[p] = "record" /\ op[p] = "down"
          /\ op[q] = "down" /\ tx[q].version = tx[p].version /\ tx[q].row > 0

WaitsAreOrdered ==
    \A p, q \in Processes : WaitsFor(p, q) =>
        \/ pc[p] = "loop" /\ pc[q] \in {"record", "commit"}
        \/ pc[p] = "record" /\ pc[q] = "commit"

(* No migrators wait for each other in a circle: whoever one waits for is   *)
(* further on in its transaction, and one that waits for nothing but its    *)
(* commit is at the end.                                                    *)
THEOREM NobodyWaitsInACircle == Spec => []WaitsAreOrdered
<1>1. IInv => WaitsAreOrdered
  <2> SUFFICES ASSUME IInv, NEW p \in Processes, NEW q \in Processes, WaitsFor(p, q)
               PROVE  \/ pc[p] = "loop" /\ pc[q] \in {"record", "commit"}
                      \/ pc[p] = "record" /\ pc[q] = "commit"
    BY DEF WaitsAreOrdered
  <2>1. tx[q].ddl \/ tx[q].row > 0
    BY DEF WaitsFor
  <2>2. InTx(q)
    BY <2>1 DEF IInv, TypeOK, NoTx
  <2>3. tx[q].row > 0 => pc[q] = "commit"
    BY <2>2 DEF IInv, TxAgrees, InTx
  <2> QED BY <2>2, <2>3 DEF WaitsFor, InTx
<1> QED BY <1>1, Invariance, PTL

(* Only a commit changes what is recorded, and by one version.              *)
LEMMA StepImplements == IInv /\ [Next]_vars => [Unordered!Next]_Recorded
<1> SUFFICES ASSUME IInv, [Next]_vars, Recorded' # Recorded PROVE Unordered!Next
  OBVIOUS
<1>1. rows' # rows
  BY Zenon DEF Recorded
<1>2. PICK p \in Processes : Commit(p) /\ Apply(p)
  BY <1>1 DEF Next, vars, database, Calls, Progress, Failure, CallInit, CallUp, CallDown, Call,
              CreateMigrations, QueryUp, QueryDown, LoopEnds, ReachesTarget, DownPanics,
              RunUpScript, TableExists, RunDownScript, OpenTx, InsertRow, DeleteRows,
              Commit, QueryFails, StepFails, Restart
<1> DEFINE v == tx[p].version
<1>3. /\ v \in Versions /\ rows \in [Versions -> Nat] /\ tx[p].row \in Nat
      /\ \/ op[p] = "up" /\ UpAgrees(p)
         \/ op[p] = "down" /\ DownAgrees(p)
  BY <1>2 DEF Commit, InTx, IInv, TypeOK, TxAgrees, Transactions
<1>4. CASE op[p] = "up"
  <2>1. v \notin Recorded
    BY <1>3, <1>4 DEF UpAgrees, Recorded, IInv, RecordedHasTable
  <2>2. rows' = [rows EXCEPT ![v] = @ + tx[p].row] /\ rows[v] = 0
    BY <1>2, <1>3, <1>4, <2>1 DEF Apply, Recorded
  <2>3. Recorded' = Recorded \cup {v}
    <3>1. \A w \in Versions : w # v => rows'[w] = rows[w]
      BY <1>3, <2>2
    <3>2. Recorded' \subseteq Recorded \cup {v} /\ Recorded \subseteq Recorded'
      BY <3>1, <2>1, <1>3 DEF Recorded
    <3> QED BY <3>2
  <2> QED BY <1>3, <2>1, <2>3 DEF Unordered!Next, Unordered!Apply
<1>5. CASE op[p] = "down"
  <2>1. rows' = [rows EXCEPT ![v] = @ - tx[p].row]
    BY <1>2, <1>3, <1>5 DEF Apply
  <2>2. tx[p].row > 0 /\ tx[p].row = rows[v]
    BY <1>1, <1>3, <1>5, <2>1 DEF DownAgrees
  <2>3. rows'[v] = 0 /\ v \in Recorded /\ \A w \in Versions : w # v => rows'[w] = rows[w]
    BY <1>3, <2>1, <2>2 DEF Recorded
  <2>4. Recorded' = Recorded \ {v}
    BY <1>3, <2>3 DEF Recorded
  <2> QED BY <1>3, <2>3, <2>4 DEF Unordered!Next, Unordered!Revert
<1> QED BY <1>3, <1>4, <1>5

(* The migrators of all processes together keep the history of an abstract  *)
(* migrator that applies and reverts one version at a time.                 *)
THEOREM HistoryIsImplemented == Spec => ImplementsHistory
<1>1. Init => Unordered!Init
  BY DEF Init, Unordered!Init, Recorded
<1> QED BY <1>1, Invariance, StepImplements, PTL
        DEF Spec, ImplementsHistory, Unordered!Spec
-----------------------------------------------------------------------------
(***************************************************************************)
(* One process.  Nobody else touches the database, so the schema is what   *)
(* the table records (SchemaAgrees), even when commits fail unnoticed.  If *)
(* commits do not fail either, a loop's snapshot of the versions stays     *)
(* exact (LoopAgrees), and Up and Down do what they report.                *)
(***************************************************************************)

(* The open transaction of the only process p keeps the schema what the     *)
(* migrations table says of it.                                             *)
SchemaAgrees(p) ==
    /\ SchemaIsRecorded
    /\ InTx(p) /\ op[p] = "down" => (tx[p].ddl <=> tx[p].version \in tables)
    /\ pc[p] = "commit" /\ op[p] = "up" => tx[p].row = 1

(* Every step of the only process keeps that; its commits may fail.         *)
LEMMA SchemaStep ==
  ASSUME NEW p, Processes = {p}, IInv, SchemaAgrees(p), [Next]_vars
  PROVE  SchemaAgrees(p)'
<1> USE DEF SchemaAgrees, SchemaIsRecorded, Recorded
<1>1. CASE UNCHANGED vars
  BY <1>1 DEF vars, InTx
<1>2. CASE Calls(p) \/ Failure(p)
  <2>1. UNCHANGED <<rows, tables>> /\ ~InTx(p)'
    BY <1>2 DEF Calls, CallInit, CallUp, CallDown, Call, Failure, QueryFails, StepFails,
                Restart, Return, database, InTx, IInv, TypeOK
  <2> QED BY <2>1 DEF InTx
<1>3. CASE \/ CreateMigrations(p) \/ QueryUp(p) \/ QueryDown(p) \/ LoopEnds(p)
           \/ ReachesTarget(p) \/ DownPanics(p) \/ TableExists(p)
  <2>1. UNCHANGED <<rows, tables>> /\ ~InTx(p)'
    BY <1>3 DEF CreateMigrations, QueryUp, QueryDown, LoopEnds, ReachesTarget, DownPanics,
                TableExists, Return, Goto, database, InTx, IInv, TypeOK
  <2> QED BY <2>1 DEF InTx
<1>4. CASE RunUpScript(p)
  BY <1>4 DEF RunUpScript, OpenTx, Goto, database, IInv, TypeOK
<1>5. CASE RunDownScript(p)
  <2>1. PICK v \in Versions : OpenTx(p, v, v \in tables)
    BY <1>5 DEF RunDownScript
  <2> DEFINE t == [version |-> v, ddl |-> v \in tables, row |-> 0]
  <2>2. t.version = v
    OBVIOUS
  <2>3. t.ddl <=> v \in tables
    BY Zenon
  <2>4. UNCHANGED <<rows, tables>> /\ pc'[p] = "record" /\ tx'[p] = t
    BY <2>1 DEF OpenTx, Goto, database, IInv, TypeOK
  <2> HIDE DEF t
  <2> QED BY <2>2, <2>3, <2>4
<1>6. CASE InsertRow(p) \/ DeleteRows(p)
  <2>1. /\ UNCHANGED <<rows, tables, op>> /\ pc[p] = "record"
        /\ tx'[p].version = tx[p].version /\ tx'[p].ddl = tx[p].ddl
        /\ op[p] = "up" => tx'[p].row = 1
    BY <1>6 DEF InsertRow, DeleteRows, Goto, database, IInv, TypeOK, Transactions
  <2> QED BY <2>1 DEF InTx
<1>7. CASE Commit(p)
  <2> DEFINE v == tx[p].version
  <2>1. /\ v \in Versions /\ rows \in [Versions -> Nat] /\ tx[p].row \in Nat
        /\ tables \subseteq Versions
        /\ \/ op[p] = "up" /\ UpAgrees(p)
           \/ op[p] = "down" /\ DownAgrees(p)
        /\ pc[p] = "commit" /\ InTx(p)
    BY <1>7 DEF Commit, InTx, IInv, TypeOK, TxAgrees, Transactions
  <2>2. ~InTx(p)'
    BY <1>7 DEF Commit, Goto, InTx, IInv, TypeOK
  <2>3. CASE Apply(p) /\ op[p] = "up"
    BY <2>1, <2>2, <2>3 DEF Apply, InTx
  <2>4. CASE Apply(p) /\ op[p] = "down"
    <3>1. tx[p].row = rows[v] /\ (tx[p].ddl <=> v \in tables)
      BY <2>1, <2>4 DEF DownAgrees
    <3>2. rows' = [rows EXCEPT ![v] = 0]
      BY <2>1, <2>4, <3>1 DEF Apply
    <3>3. tables' = tables \ {v}
      BY <2>1, <2>4, <3>1 DEF Apply
    <3> QED BY <2>1, <2>2, <3>2, <3>3 DEF InTx
  <2> QED BY <1>7, <2>1, <2>2, <2>3, <2>4 DEF Commit, InTx
<1> QED BY <1>1, <1>2, <1>3, <1>4, <1>5, <1>6, <1>7 DEF Next, Progress

(* What the only process p has left to do, when commits do not fail: an Up   *)
(* has its loop's versions to record and a Down its loop's to delete; the   *)
(* versions not recorded have kept their scripts.                           *)
LoopAgrees(p) ==
    \/ op[p] = "up" /\ \A v \in Versions : todo[p][v] = IF v \in Recorded THEN 0 ELSE 1
    \/ op[p] = "down" /\ todo[p] = rows

HistoryAgrees(p) ==
    /\ Versions \ Recorded \subseteq scripts[p]
    /\ pc[p] = "create" => op[p] = "init"
    /\ pc[p] \in {"loop", "record", "commit"} => LoopAgrees(p)
    /\ InTx(p) => NextScript(p, tx[p].version)
    /\ UpIsComplete
    /\ DownIsComplete

(* A step keeps that account exact: what is left of the loop, what a method  *)
(* that returned has done, and the scripts of the missing versions.         *)
LEMMA HistoryStep ==
  ASSUME NEW p, Processes = {p}, ~CommitMayFail, IInv, SchemaAgrees(p), HistoryAgrees(p),
         [Next]_vars
  PROVE  HistoryAgrees(p)'
<1>0. /\ HistoryAgrees(p) /\ p \in Processes /\ TypeOK
      /\ \A v \in Versions : rows[v] \in Nat /\ rows[v] <= 1
      /\ Recorded \subseteq Versions
  BY DEF IInv, TypeOK, AtMostOneRow, Recorded
<1>1. CASE UNCHANGED vars
  BY <1>0, <1>1
  DEF vars, HistoryAgrees, LoopAgrees, Recorded, InTx, NextScript, Oldest, Newest, Pending,
      UpIsComplete, DownIsComplete, Returned
<1>2. ASSUME Recorded' = Recorded, scripts'[p] = scripts[p], ~InTx(p)',
             pc'[p] \in {"idle", "create", "query"},
             pc'[p] = "create" => op'[p] = "init",
             Returned(p, "up")' => Recorded = Versions,
             Returned(p, "down")' /\ scripts[p] # {} =>
                \A v \in Recorded : target'[p] # All /\ v <= target'[p]
      PROVE  HistoryAgrees(p)'
  BY <1>0, <1>2 DEF HistoryAgrees, UpIsComplete, DownIsComplete
<1>3. CASE Calls(p)
  <2>1. Recorded' = Recorded /\ scripts'[p] = scripts[p] /\ ~InTx(p)'
    BY <1>0, <1>3 DEF Calls, CallInit, CallUp, CallDown, Call, database, Recorded, InTx, TypeOK
  <2>2. /\ pc'[p] \in {"idle", "create", "query"}
        /\ pc'[p] = "create" => op'[p] = "init"
        /\ Returned(p, "up")' => scripts[p] = {}
        /\ Returned(p, "down")' => scripts[p] = {}
    BY <1>0, <1>3 DEF Calls, CallInit, CallUp, CallDown, Call, Returned, TypeOK
  <2>3. scripts[p] = {} => Recorded = Versions
    BY <1>0 DEF HistoryAgrees
  <2> QED BY <1>2, <2>1, <2>2, <2>3
<1>4. CASE Failure(p)
  <2>1. Recorded' = Recorded /\ (scripts'[p] = scripts[p] \/ scripts'[p] = Versions)
    BY <1>0, <1>4 DEF Failure, QueryFails, StepFails, Restart, Return, database, Recorded, TypeOK
  <2>2. pc'[p] = "idle" /\ result'[p] \in {"none", "error"}
    BY <1>0, <1>4 DEF Failure, QueryFails, StepFails, Restart, Return, TypeOK
  <2> QED BY <1>0, <2>1, <2>2 DEF HistoryAgrees, UpIsComplete, DownIsComplete, Returned, InTx
<1>5. CASE CreateMigrations(p)
  <2>1. /\ Recorded' = Recorded /\ scripts'[p] = scripts[p]
        /\ pc'[p] = "idle" /\ op'[p] = "init"
    BY <1>0, <1>5 DEF CreateMigrations, Return, Recorded, HistoryAgrees, TypeOK
  <2> QED BY <1>2, <2>1 DEF Returned, InTx
<1>6. CASE QueryUp(p)
  <2>1. /\ UNCHANGED rows /\ Recorded' = Recorded /\ scripts'[p] = Pruned(p)
        /\ Pruned(p) = Versions \ Recorded /\ op'[p] = "up" /\ ~InTx(p)'
    BY <1>0, <1>6
    DEF QueryUp, Return, Goto, database, Recorded, Pruned, InTx, HistoryAgrees, TypeOK
  <2>2. \/ pc'[p] = "idle" /\ Pruned(p) = {}
        \/ pc'[p] = "loop" /\ \A v \in Versions :
                todo'[p][v] = IF v \in Pruned(p) THEN 1 ELSE 0
    BY <1>0, <1>6 DEF QueryUp, Return, Goto, TypeOK
  <2> QED BY <1>0, <2>1, <2>2
      DEF HistoryAgrees, LoopAgrees, UpIsComplete, DownIsComplete, Returned
<1>7. CASE QueryDown(p)
  <2>1. /\ UNCHANGED rows /\ Recorded' = Recorded /\ scripts'[p] = scripts[p]
        /\ op'[p] = "down" /\ ~InTx(p)'
    BY <1>0, <1>7 DEF QueryDown, Return, Goto, database, Recorded, InTx, TypeOK
  <2>2. \/ pc'[p] = "idle" /\ Recorded = {}
        \/ pc'[p] = "loop" /\ todo'[p] = rows
    BY <1>0, <1>7 DEF QueryDown, Return, Goto, TypeOK
  <2> QED BY <1>0, <2>1, <2>2
      DEF HistoryAgrees, LoopAgrees, UpIsComplete, DownIsComplete, Returned
<1>8. CASE LoopEnds(p) \/ ReachesTarget(p) \/ DownPanics(p) \/ TableExists(p)
  <2>1. /\ Recorded' = Recorded /\ scripts'[p] = scripts[p] /\ pc'[p] = "idle"
        /\ op'[p] = op[p] /\ target'[p] = target[p] /\ LoopAgrees(p)
    BY <1>0, <1>8 DEF LoopEnds, ReachesTarget, DownPanics, TableExists, Return, database,
                      Recorded, HistoryAgrees, TypeOK
  <2>2. result'[p] = "ok" =>
            \/ Pending(p) = {}
            \/ op[p] = "down" /\ Newest(p, target[p])
    BY <1>0, <1>8 DEF LoopEnds, ReachesTarget, DownPanics, TableExists, Return, TypeOK
  <2>3. op[p] = "up" => Pending(p) = Versions \ Recorded
    BY <1>0, <2>1 DEF LoopAgrees, Pending
  <2>4. op[p] = "down" => Pending(p) = Recorded
    BY <1>0, <2>1 DEF LoopAgrees, Pending, Recorded
  <2>5. Newest(p, target[p]) => target[p] # All
    BY MigratorAssumption DEF Newest, Pending
  <2> QED BY <1>0, <1>2, <2>1, <2>2, <2>3, <2>4, <2>5 DEF Returned, InTx, Newest
<1>9. CASE RunUpScript(p) \/ RunDownScript(p)
  <2>1. PICK v \in Versions :
            /\ pc[p] = "loop" /\ NextScript(p, v)
            /\ OpenTx(p, v, TRUE) \/ OpenTx(p, v, v \in tables)
    BY <1>9 DEF RunUpScript, RunDownScript
  <2>2. /\ UNCHANGED <<rows, scripts, todo, op, target>> /\ pc'[p] = "record"
        /\ tx'[p].version = v
    BY <1>0, <2>1 DEF OpenTx, Goto, database, TypeOK
  <2>3. Recorded' = Recorded
    BY <2>2 DEF Recorded
  <2>4. NextScript(p, v)'
    BY <2>1, <2>2 DEF NextScript, Oldest, Newest, Pending
  <2> QED BY <1>0, <2>1, <2>2, <2>3, <2>4
      DEF HistoryAgrees, LoopAgrees, UpIsComplete, DownIsComplete, Returned, NextScript
<1>10. CASE InsertRow(p) \/ DeleteRows(p)
  <2>1. /\ UNCHANGED <<rows, scripts, todo, op, target>> /\ pc'[p] = "commit"
        /\ pc[p] = "record" /\ tx'[p].version = tx[p].version
    BY <1>0, <1>10 DEF InsertRow, DeleteRows, Goto, database, TypeOK, Transactions
  <2>2. Recorded' = Recorded
    BY <2>1 DEF Recorded
  <2>3. NextScript(p, tx[p].version)'
    BY <1>0, <2>1 DEF HistoryAgrees, NextScript, Oldest, Newest, Pending, InTx
  <2> QED BY <1>0, <2>1, <2>2, <2>3
      DEF HistoryAgrees, LoopAgrees, UpIsComplete, DownIsComplete, Returned, NextScript
<1>11. CASE Commit(p)
  <2> DEFINE v == tx[p].version
  <2>1. /\ Apply(p) /\ UNCHANGED <<scripts, op, target>> /\ pc'[p] = "loop" /\ ~InTx(p)'
        /\ \A w \in Versions : todo'[p][w] = IF w = v THEN todo[p][v] - 1 ELSE todo[p][w]
        /\ LoopAgrees(p) /\ NextScript(p, v) /\ v \in Versions
        /\ todo'[p] = [todo[p] EXCEPT ![v] = @ - 1]
    BY <1>0, <1>11 DEF Commit, Goto, InTx, HistoryAgrees, TypeOK, IInv, TxAgrees
  <2>2. CASE op[p] = "up"
    <3>1. v \notin Recorded /\ rows[v] = 0 /\ todo[p][v] = 1 /\ tx[p].row = 1
      BY <1>0, <1>11, <2>1, <2>2
      DEF LoopAgrees, NextScript, Oldest, Pending, Recorded, Commit, SchemaAgrees
    <3>2. \A w \in Versions : rows'[w] = IF w = v THEN 1 ELSE rows[w]
      BY <1>0, <2>1, <2>2, <3>1 DEF Apply, TypeOK
    <3>3. Recorded' = Recorded \cup {v}
      BY <1>0, <2>1, <3>2 DEF Recorded
    <3> QED BY <1>0, <2>1, <2>2, <3>1, <3>3
        DEF HistoryAgrees, LoopAgrees, UpIsComplete, DownIsComplete, Returned
  <2>3. CASE op[p] = "down"
    <3>1. /\ v \in Recorded /\ v \in scripts[p] /\ todo[p] = rows
          /\ rows[v] = 1 /\ tx[p].row = rows[v]
      BY <1>0, <1>11, <2>1, <2>3
      DEF LoopAgrees, NextScript, Newest, Pending, Recorded, Commit, SchemaAgrees,
          SchemaIsRecorded, InTx, IInv, TxAgrees, DownAgrees
    <3>2. rows' = [rows EXCEPT ![v] = @ - 1] /\ rows'[v] = 0
          /\ \A w \in Versions : w # v => rows'[w] = rows[w]
      BY <1>0, <2>1, <2>3, <3>1 DEF Apply, TypeOK
    <3>3. Recorded' = Recorded \ {v}
      BY <1>0, <2>1, <3>1, <3>2 DEF Recorded
    <3> QED BY <1>0, <2>1, <2>3, <3>1, <3>2, <3>3
        DEF HistoryAgrees, LoopAgrees, UpIsComplete, DownIsComplete, Returned
  <2> QED BY <2>1, <2>2, <2>3 DEF LoopAgrees
<1> QED BY <1>0, <1>1, <1>3, <1>4, <1>5, <1>6, <1>7, <1>8, <1>9, <1>10, <1>11
        DEF Next, Progress

(* Before the only process calls anything, both accounts are empty.         *)
LEMMA SingleInit ==
  ASSUME NEW p, Processes = {p}, Init
  PROVE  SchemaAgrees(p) /\ HistoryAgrees(p)
<1>1. p \in Processes /\ Recorded = {} /\ pc[p] = "idle" /\ op[p] = "none"
      /\ scripts[p] = Versions /\ tables = {}
  BY DEF Init, Recorded
<1> QED BY <1>1 DEF SchemaAgrees, SchemaIsRecorded, HistoryAgrees, InTx,
               UpIsComplete, DownIsComplete, Returned

(* A recorded version is added only when it is the oldest missing one, and  *)
(* removed only when it is the newest.                                      *)
LEMMA OrderedStep ==
  ASSUME NEW p, Processes = {p}, ~CommitMayFail, IInv, SchemaAgrees(p), HistoryAgrees(p),
         [Next]_vars
  PROVE  [InOrder!Next]_Recorded
<1> SUFFICES ASSUME Recorded' # Recorded PROVE InOrder!Next
  OBVIOUS
<1>1. rows' # rows
  BY Zenon DEF Recorded
<1>2. Commit(p) /\ Apply(p)
  BY <1>1 DEF Next, vars, database, Calls, Progress, Failure, CallInit, CallUp, CallDown, Call,
              CreateMigrations, QueryUp, QueryDown, LoopEnds, ReachesTarget, DownPanics,
              RunUpScript, TableExists, RunDownScript, OpenTx, InsertRow, DeleteRows,
              Commit, QueryFails, StepFails, Restart
<1> DEFINE v == tx[p].version
<1>3. /\ v \in Versions /\ rows \in [Versions -> Nat] /\ NextScript(p, v) /\ LoopAgrees(p)
      /\ \A w \in Versions : rows[w] <= 1
  BY <1>2 DEF Commit, InTx, IInv, TypeOK, TxAgrees, AtMostOneRow, HistoryAgrees
<1>4. CASE op[p] = "up"
  <2>1. Pending(p) = Versions \ Recorded
    BY <1>3, <1>4 DEF LoopAgrees, Pending
  <2>2. tx[p].row = 1 /\ v \notin Recorded /\ \A w \in Versions \ Recorded : v <= w
    BY <1>2, <1>3, <1>4, <2>1 DEF Commit, SchemaAgrees, NextScript, Oldest
  <2>3. \A w \in Versions : rows'[w] = IF w = v THEN rows[w] + 1 ELSE rows[w]
    BY <1>2, <1>3, <1>4, <2>2 DEF Apply
  <2>4. Recorded' = Recorded \cup {v}
    BY <1>3, <2>3 DEF Recorded
  <2>5. \A w \in Versions : w < v => w \in Recorded
    <3> SUFFICES ASSUME NEW w \in Versions, w < v, v <= w PROVE FALSE
      BY <2>2
    <3> QED BY <1>3, MigratorAssumption
  <2> QED BY <1>3, <2>2, <2>4, <2>5 DEF InOrder!Next, InOrder!Apply
<1>5. CASE op[p] = "down"
  <2>1. Pending(p) = Recorded
    BY <1>3, <1>5 DEF LoopAgrees, Pending, Recorded
  <2>2. /\ v \in Recorded /\ rows[v] = 1 /\ \A w \in Recorded : w <= v
        /\ tx[p].row = rows[v]
    BY <1>2, <1>3, <1>5, <2>1
    DEF Commit, NextScript, Newest, Recorded, SchemaAgrees, SchemaIsRecorded, InTx,
        IInv, TxAgrees, DownAgrees
  <2>3. \A w \in Versions : rows'[w] = IF w = v THEN 0 ELSE rows[w]
    BY <1>2, <1>3, <1>5, <2>2 DEF Apply
  <2>4. Recorded' = Recorded \ {v}
    BY <1>3, <2>3 DEF Recorded
  <2> QED BY <1>3, <2>2, <2>4 DEF InOrder!Next, InOrder!Revert
<1> QED BY <1>3, <1>4, <1>5 DEF LoopAgrees

(* One process: the schema is exactly what the migrations table says of it, *)
(* also when the error of a failed COMMIT has been dropped.                 *)
THEOREM SchemaIsWhatIsRecorded ==
  ASSUME NEW p, Processes = {p}
  PROVE  Spec => []SchemaIsRecorded
<1>1. Init => SchemaAgrees(p)
  BY SingleInit
<1>2. IInv /\ SchemaAgrees(p) /\ [Next]_vars => SchemaAgrees(p)'
  BY SchemaStep
<1>3. SchemaAgrees(p) => SchemaIsRecorded
  BY DEF SchemaAgrees
<1> QED BY <1>1, <1>2, <1>3, Invariance, PTL DEF Spec

(* One process and commits that do not fail: both accounts stay exact.      *)
THEOREM SingleInvariance ==
  ASSUME NEW p, Processes = {p}, ~CommitMayFail
  PROVE  Spec => [](SchemaAgrees(p) /\ HistoryAgrees(p))
<1>1. Init => SchemaAgrees(p) /\ HistoryAgrees(p)
  BY SingleInit
<1>2. IInv /\ SchemaAgrees(p) /\ HistoryAgrees(p) /\ [Next]_vars
         => SchemaAgrees(p)' /\ HistoryAgrees(p)'
  BY SchemaStep, HistoryStep
<1> QED BY <1>1, <1>2, Invariance, PTL DEF Spec

(* An Up that returned nil left every version applied, whatever Ups and     *)
(* Downs, failures and restarts came before it, and although each Up keeps  *)
(* deleting from the map the next one starts from.                          *)
THEOREM UpsAreComplete ==
  ASSUME NEW p, Processes = {p}, ~CommitMayFail
  PROVE  Spec => []UpIsComplete
<1>1. HistoryAgrees(p) => UpIsComplete
  BY DEF HistoryAgrees
<1> QED BY <1>1, SingleInvariance, PTL

(* A Down that returned nil left nothing above its target, but for the one  *)
(* that finds m.Scripts emptied by earlier Ups: it returns nil at line 143   *)
(* with everything still recorded.                                          *)
THEOREM DownsAreComplete ==
  ASSUME NEW p, Processes = {p}, ~CommitMayFail
  PROVE  Spec => []DownIsComplete
<1>1. HistoryAgrees(p) => DownIsComplete
  BY DEF HistoryAgrees
<1> QED BY <1>1, SingleInvariance, PTL

(* The recorded history of one process has no gaps: Up fills it from the    *)
(* oldest missing version, Down empties it from the newest.                 *)
THEOREM OrderedHistoryIsImplemented ==
  ASSUME NEW p, Processes = {p}, ~CommitMayFail
  PROVE  Spec => ImplementsOrderedHistory
<1>1. Init => InOrder!Init
  BY DEF Init, InOrder!Init, Recorded
<1>2. IInv /\ SchemaAgrees(p) /\ HistoryAgrees(p) /\ [Next]_vars => [InOrder!Next]_Recorded
  BY OrderedStep
<1> QED BY <1>1, <1>2, Invariance, SingleInvariance, PTL
        DEF Spec, ImplementsOrderedHistory, InOrder!Spec

(* No version is recorded before an older one.                              *)
NoGaps == \A v \in Recorded, w \in Versions : w < v => w \in Recorded

(* So what one process has recorded is, at every moment, a beginning of the *)
(* versions there are, wherever it dies and whatever scripts fail.          *)
THEOREM HistoryHasNoGaps ==
  ASSUME NEW p, Processes = {p}, ~CommitMayFail
  PROVE  Spec => []NoGaps
<1>1. Init => NoGaps
  BY DEF Init, NoGaps, Recorded
<1>2. NoGaps /\ [InOrder!Next]_Recorded => NoGaps'
  <2> SUFFICES ASSUME NoGaps, [InOrder!Next]_Recorded,
                      NEW v \in Recorded', NEW w \in Versions, w < v
               PROVE  w \in Recorded'
    BY DEF NoGaps
  <2>1. Recorded \subseteq Versions /\ Recorded' \subseteq Versions /\ Versions \subseteq Nat
    BY MigratorAssumption DEF Recorded
  <2>2. CASE Recorded' = Recorded
    BY <2>2 DEF NoGaps
  <2>3. ASSUME NEW u \in Versions, InOrder!Apply(u) PROVE w \in Recorded'
    <3>1. Recorded' = Recorded \cup {u} /\ \A q \in Versions : q < u => q \in Recorded
      BY <2>3 DEF InOrder!Apply
    <3> QED BY <3>1 DEF NoGaps
  <2>4. ASSUME NEW u \in Versions, InOrder!Revert(u) PROVE w \in Recorded'
    <3>1. Recorded' = Recorded \ {u} /\ \A q \in Recorded : q <= u
      BY <2>4 DEF InOrder!Revert
    <3>2. w \in Recorded /\ v <= u
      BY <3>1 DEF NoGaps
    <3>3. w # u
      BY <2>1, <3>2
    <3> QED BY <3>1, <3>2, <3>3
  <2> QED BY <2>2, <2>3, <2>4 DEF InOrder!Next
<1>3. Spec => Init /\ [][InOrder!Next]_Recorded
  BY OrderedHistoryIsImplemented, PTL DEF ImplementsOrderedHistory, InOrder!Spec, Spec
<1> QED BY <1>1, <1>2, <1>3, PTL
=============================================================================
