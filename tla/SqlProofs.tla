----------------------------- MODULE SqlProofs -----------------------------
(***************************************************************************)
(* Proofs about the SQL handles, for any number of goroutines and any      *)
(* length of their chains.                                                 *)
(*                                                                         *)
(* The invariant: a goroutine's handle is on the connection's gorm.DB or   *)
(* on its own; the connection's stays fresh, which is why nothing that is  *)
(* built on it stays with it; and whatever a handle was asked for is in    *)
(* its statement.                                                          *)
(***************************************************************************)
EXTENDS SqlHandles, TLAPS

(* The gorm.DB d of o, when t are the transactions and m the misusers.      *)
GoodDB(o, d, t, m) ==
    /\ d \in DBs
    /\ d.clone = "fresh" => d.stmt = {}
    /\ d.error \subseteq {o} \cup m
    /\ d.pool \in {Server, o}
    /\ d.pool # Server => t[d.pool] # "none"

(* The handle h of c, whose gorm.DB is d.                                   *)
GoodHandle(c, h, d) ==
    /\ h \in Handles
    /\ h.db \in {Root, c}
    /\ "monitor" \in h.asked => h.isMonitor
    /\ d.stmt \subseteq h.asked \cup {"lastField"}
    /\ h.asked \cap {"clause", "table"} \subseteq d.stmt

IInv ==
    /\ db \in [Objects -> DBs]
    /\ handle \in [Clients -> Handles]
    /\ tx \in [Clients -> {"none", "open", "ended"}]
    /\ misuser \in SUBSET Clients
    /\ missed = FALSE
    /\ db[Root].clone = "fresh"
    /\ \A o \in Objects : GoodDB(o, db[o], tx, misuser)
    /\ \A c \in Clients : GoodHandle(c, handle[c], db[handle[c].db])

(* A gorm.DB nobody has used.                                               *)
LEMMA NewDBIsGood ==
  ASSUME NEW o \in Objects, NEW t, NEW m PROVE GoodDB(o, NewDB, t, m)
<1>1. NewDB \in DBs
  BY DEF NewDB, DBs
<1> QED BY <1>1 DEF NewDB, GoodDB

(* The connection's handle, when nothing is in its statement.               *)
LEMMA RootHandleIsGood ==
  ASSUME NEW c \in Clients, NEW d, d.stmt = {} PROVE GoodHandle(c, RootHandle, d)
<1>1. RootHandle \in Handles
  BY DEF RootHandle, Handles, Objects
<1> QED BY <1>1 DEF RootHandle, GoodHandle

(* Every goroutine has the connection's handle.                             *)
LEMMA InitIInv == Init => IInv
<1> SUFFICES ASSUME Init PROVE IInv
  OBVIOUS
<1>1. Root \in Objects
  BY DEF Objects
<1>2. db = [o \in Objects |-> NewDB]
  BY DEF Init, InitWith
<1>3. \A o \in Objects : GoodDB(o, db[o], tx, misuser) /\ db[o] \in DBs
  BY <1>2, NewDBIsGood DEF GoodDB
<1>4. db[Root].clone = "fresh" /\ db[Root].stmt = {}
  BY <1>1, <1>2 DEF NewDB
<1>5. \A c \in Clients : GoodHandle(c, handle[c], db[handle[c].db]) /\ handle[c] \in Handles
  <2>1. \A c \in Clients : handle[c] = RootHandle
    BY DEF Init, InitWith
  <2>2. RootHandle.db = Root
    BY DEF RootHandle
  <2> QED BY <1>4, <2>1, <2>2, RootHandleIsGood DEF GoodHandle
<1> QED BY <1>2, <1>3, <1>4, <1>5 DEF IInv, Init, InitWith

(* A client goes on with another handle: nobody else's is touched.          *)
LEMMA TakesIsGood ==
  ASSUME IInv, NEW c \in Clients, NEW h, NEW dbs, Takes(c, h, dbs),
         dbs[Root] = db[Root], \A q \in Clients \ {c} : dbs[q] = db[q],
         h.db = c => GoodDB(c, dbs[c], tx', misuser),
         GoodHandle(c, h, dbs[h.db]),
         tx' \in [Clients -> {"none", "open", "ended"}],
         \A q \in Clients \ {c} : tx'[q] = tx[q],
         UNCHANGED <<missed, misuser>>
  PROVE  IInv'
<1> USE SqlAssumption
<1>1. handle' = [handle EXCEPT ![c] = h] /\ h \in Handles
  BY DEF Takes, GoodHandle
<1>2. handle' \in [Clients -> Handles] /\ handle'[c] = h
  BY <1>1 DEF IInv
<1>3. \A q \in Clients \ {c} : handle'[q] = handle[q]
  BY <1>1 DEF IInv
<1>4. \A q \in Clients : handle'[q].db \in {Root, q}
  BY <1>2, <1>3 DEF IInv, GoodHandle
<1>5. \A q \in Clients : handle'[q].db \in InUse(handle')
  BY DEF InUse
<1>6. Root \in Objects /\ Root \in InUse(handle') /\ Clients \subseteq Objects
  BY DEF InUse, Objects
<1>7. \A o \in Objects : db'[o] = IF o \in InUse(handle') THEN dbs[o] ELSE NewDB
  BY DEF Takes
<1>8. c \in InUse(handle') => h.db = c
  BY <1>2, <1>4 DEF InUse
<1>9. ASSUME NEW o \in Objects PROVE GoodDB(o, db'[o], tx', misuser)
  <2>1. CASE o \notin InUse(handle')
    BY <1>7, <2>1, NewDBIsGood
  <2>2. CASE o = c /\ o \in InUse(handle')
    BY <1>7, <1>8, <2>2
  <2>3. CASE o # c /\ o \in InUse(handle')
    <3>1. db'[o] = db[o] /\ GoodDB(o, db[o], tx, misuser)
      BY <1>7, <2>3 DEF Objects, IInv
    <3>2. db[o].pool # Server => db[o].pool = o /\ o \in Clients \ {c}
      BY <2>3, <3>1 DEF GoodDB, DBs
    <3>3. db[o].pool # Server => tx'[db[o].pool] # "none"
      BY <3>1, <3>2 DEF GoodDB
    <3> QED BY <3>1, <3>3 DEF GoodDB
  <2> QED BY <2>1, <2>2, <2>3
<1>10. ASSUME NEW q \in Clients PROVE GoodHandle(q, handle'[q], db'[handle'[q].db])
  <2>1. db'[handle'[q].db] = dbs[handle'[q].db]
    BY <1>4, <1>5, <1>6, <1>7
  <2>2. CASE q = c
    BY <1>2, <2>1, <2>2
  <2>3. CASE q # c
    <3>1. handle'[q] = handle[q] /\ handle[q].db \in {Root, q}
      BY <1>3, <1>4, <2>3
    <3>2. dbs[handle[q].db] = db[handle[q].db]
      BY <2>3, <3>1
    <3> QED BY <2>1, <3>1, <3>2 DEF IInv
  <2> QED BY <2>2, <2>3
<1>11. db' \in [Objects -> DBs]
  <2>1. \A o \in Objects : db'[o] \in DBs
    BY <1>9 DEF GoodDB
  <2> QED BY <2>1 DEF Takes
<1>12. db'[Root].clone = "fresh"
  BY <1>6, <1>7 DEF IInv
<1> QED BY <1>2, <1>9, <1>10, <1>11, <1>12 DEF IInv

(* The gorm.DB a client's handle is on, its own or the connection's.        *)
LEMMA OfClient ==
  ASSUME IInv, NEW c \in Clients, NEW d, d = db[handle[c].db]
  PROVE  /\ handle[c] \in Handles /\ handle[c].db \in Objects
         /\ d \in DBs /\ d.pool \in {Server, c} /\ d.error \subseteq {c} \cup misuser
         /\ d.pool # Server => tx[d.pool] # "none"
         /\ d.clone = "fresh" => d.stmt = {}
         /\ d.clone # "fresh" => handle[c].db = c
         /\ GoodHandle(c, handle[c], d)
<1> USE SqlAssumption
<1>1. GoodHandle(c, handle[c], d) /\ handle[c] \in Handles
  BY DEF IInv
<1>2. handle[c].db \in {Root, c} /\ handle[c].db \in Objects
  BY <1>1 DEF GoodHandle, Objects
<1>3. GoodDB(handle[c].db, d, tx, misuser)
  BY <1>2 DEF IInv
<1>4. d.clone # "fresh" => handle[c].db = c
  BY <1>2 DEF IInv
<1>5. d \in DBs /\ d.pool \in Clients \cup {Server} /\ d.error \subseteq Clients
  BY <1>3 DEF GoodDB, DBs
<1>6. d.pool \in {Server, c} /\ d.error \subseteq {c} \cup misuser
  BY <1>2, <1>3, <1>5 DEF GoodDB
<1> QED BY <1>1, <1>2, <1>3, <1>4, <1>5, <1>6 DEF GoodDB

(* What is added to a statement is in it, and of the rest only fields may   *)
(* go.                                                                      *)
LEMMA WithAdds ==
  ASSUME NEW d \in DBs, NEW clauses \in SUBSET Clauses
  PROVE  /\ With(d, clauses) \in DBs
         /\ With(d, clauses).clone = d.clone
         /\ With(d, clauses).error = d.error
         /\ With(d, clauses).pool = d.pool
         /\ With(d, clauses).stmt \subseteq clauses \cup d.stmt
         /\ clauses \cup (d.stmt \cap {"clause", "table"}) \subseteq With(d, clauses).stmt
<1> DEFINE s == clauses \cup IF clauses \cap Fields = {} THEN d.stmt ELSE d.stmt \ Fields
<1>1. With(d, clauses) = [d EXCEPT !.stmt = s]
  BY DEF With, DBs
<1>2. /\ s \in SUBSET Clauses /\ s \subseteq clauses \cup d.stmt
      /\ clauses \cup (d.stmt \cap {"clause", "table"}) \subseteq s
  BY DEF DBs, Fields
<1> HIDE DEF s
<1> QED BY <1>1, <1>2 DEF DBs

(* A failed DB, but for its error, is as it was.                            *)
LEMMA FailedDB ==
  ASSUME NEW d \in DBs, NEW c \in Clients
  PROVE  /\ Failed(d, c) \in DBs /\ Failed(d, c).error = d.error \cup {c}
         /\ Failed(d, c).clone = d.clone /\ Failed(d, c).stmt = d.stmt
         /\ Failed(d, c).pool = d.pool
  BY DEF Failed, DBs

(* A handle made from another was asked for more.                           *)
LEMMA DerivedHandle ==
  ASSUME NEW h \in Handles, NEW o \in Objects,
         NEW asked \in SUBSET (Clauses \cup {"monitor"})
  PROVE  /\ Derived(h, o, asked) \in Handles /\ Derived(h, o, asked).db = o
         /\ Derived(h, o, asked).asked = h.asked \cup asked
         /\ Derived(h, o, asked).isMonitor = h.isMonitor
  BY DEF Derived, Handles

(* getInstance gives a client's handle the client's own DB, never the       *)
(* connection's.                                                            *)
LEMMA InstanceIsOwn ==
  ASSUME IInv, NEW c \in Clients, NEW o, o = handle[c].db
  PROVE  /\ Chosen(c, o) = c
         /\ Instance(o) \in DBs /\ Instance(o).clone = "chain"
         /\ Instance(o).stmt = db[o].stmt /\ Instance(o).error = db[o].error
         /\ Instance(o).pool = db[o].pool
<1> DEFINE d == db[o]
<1>1. /\ d \in DBs /\ (d.clone = "fresh" => d.stmt = {})
      /\ d.clone # "fresh" => o = c
  BY OfClient
<1>2. Chosen(c, o) = c
  BY <1>1 DEF Chosen
<1> QED BY <1>1, <1>2 DEF Instance, DBs

(* A client's own DB gets what a method asks for, and its error, if any.    *)
LEMMA OwnDBIsGood ==
  ASSUME IInv, NEW c \in Clients, NEW d, d = db[handle[c].db],
         NEW e \in DBs, e.clone = "chain", e.stmt = d.stmt, e.error = d.error,
         e.pool = d.pool,
         NEW clauses \in SUBSET Clauses, NEW asked \in SUBSET Clauses,
         clauses \subseteq asked \cup {"lastField"},
         asked \cap {"clause", "table"} \subseteq clauses,
         NEW f, f = With(e, clauses) \/ f = Failed(With(e, clauses), c)
  PROVE  /\ GoodDB(c, f, tx, misuser)
         /\ GoodHandle(c, Derived(handle[c], c, asked), f)
<1> DEFINE k == With(e, clauses)
<1>1. /\ k \in DBs /\ k.clone = "chain" /\ k.error = d.error /\ k.pool = d.pool
      /\ k.stmt \subseteq clauses \cup d.stmt
      /\ clauses \cup (d.stmt \cap {"clause", "table"}) \subseteq k.stmt
  BY WithAdds
<1> HIDE DEF k
<1>2. /\ f \in DBs /\ f.clone = "chain" /\ f.stmt = k.stmt /\ f.pool = d.pool
      /\ f.error \subseteq d.error \cup {c}
  BY <1>1, FailedDB DEF k
<1>3. GoodDB(c, f, tx, misuser)
  BY <1>2, OfClient DEF GoodDB
<1>4. GoodHandle(c, handle[c], d) /\ handle[c] \in Handles /\ c \in Objects
  BY OfClient DEF Objects
<1>5. GoodHandle(c, Derived(handle[c], c, asked), f)
  <2>1. /\ Derived(handle[c], c, asked) \in Handles
        /\ Derived(handle[c], c, asked).db = c
        /\ Derived(handle[c], c, asked).asked = handle[c].asked \cup asked
        /\ Derived(handle[c], c, asked).isMonitor = handle[c].isMonitor
    BY <1>4, DerivedHandle
  <2>2. "monitor" \notin asked
    BY DEF Clauses, Fields
  <2> QED BY <1>1, <1>2, <1>4, <2>1, <2>2 DEF GoodHandle
<1> QED BY <1>3, <1>5

(* A client goes on with its own DB, and nothing else has changed.          *)
LEMMA OwnTakes ==
  ASSUME IInv, NEW c \in Clients, NEW d, d = db[handle[c].db],
         NEW e \in DBs, e.clone = "chain", e.stmt = d.stmt, e.error = d.error,
         e.pool = d.pool,
         NEW clauses \in SUBSET Clauses, NEW asked \in SUBSET Clauses,
         clauses \subseteq asked \cup {"lastField"},
         asked \cap {"clause", "table"} \subseteq clauses,
         NEW f, f = With(e, clauses) \/ f = Failed(With(e, clauses), c),
         Takes(c, Derived(handle[c], c, asked), [db EXCEPT ![c] = f]),
         UNCHANGED <<tx, missed, misuser>>
  PROVE  IInv'
<1> USE SqlAssumption
<1> DEFINE h == Derived(handle[c], c, asked)
           dbs == [db EXCEPT ![c] = f]
<1>1. GoodDB(c, f, tx, misuser) /\ GoodHandle(c, h, f)
  BY OwnDBIsGood
<1>2. h.db = c
  BY OfClient, DerivedHandle DEF Objects
<1>3. dbs[c] = f /\ dbs[Root] = db[Root] /\ \A q \in Clients \ {c} : dbs[q] = db[q]
  BY DEF IInv, Objects
<1>4. Takes(c, h, dbs)
  OBVIOUS
<1> HIDE DEF h, dbs
<1>5. tx' = tx /\ tx \in [Clients -> {"none", "open", "ended"}]
  BY DEF IInv
<1> QED BY <1>1, <1>2, <1>3, <1>4, <1>5, TakesIsGood

(* A client goes on with another handle on the DB it has.                   *)
LEMMA SameDB ==
  ASSUME IInv, NEW c \in Clients, NEW h \in Handles, h.db = handle[c].db,
         handle[c].asked \subseteq h.asked,
         h.asked \cap {"clause", "table"} \subseteq handle[c].asked,
         "monitor" \in h.asked => h.isMonitor, Takes(c, h, db),
         UNCHANGED <<tx, missed, misuser>>
  PROVE  IInv'
<1> USE SqlAssumption
<1>1. GoodHandle(c, handle[c], db[handle[c].db])
  BY OfClient
<1>2. GoodHandle(c, h, db[h.db])
  BY <1>1 DEF GoodHandle
<1>3. GoodDB(c, db[c], tx, misuser)
  BY DEF IInv, Objects
<1>4. tx' = tx /\ tx \in [Clients -> {"none", "open", "ended"}]
  BY DEF IInv
<1> QED BY <1>2, <1>3, <1>4, TakesIsGood

(* A builder.                                                               *)
LEMMA BuildKeeps ==
  ASSUME IInv, NEW c \in Clients, NEW asked \in SUBSET Clauses,
         NEW clauses \in SUBSET Clauses, clauses \subseteq asked \cup {"lastField"},
         asked \cap {"clause", "table"} \subseteq clauses, Build(c, asked, clauses)
  PROVE  IInv'
<1> DEFINE o == handle[c].db
<1>1. /\ Chosen(c, o) = c
      /\ Instance(o) \in DBs /\ Instance(o).clone = "chain"
      /\ Instance(o).stmt = db[o].stmt /\ Instance(o).error = db[o].error
      /\ Instance(o).pool = db[o].pool
  BY InstanceIsOwn
<1>2. /\ Takes(c, Derived(handle[c], c, asked), [db EXCEPT ![c] = With(Instance(o), clauses)])
      /\ UNCHANGED <<tx, missed, misuser>>
  BY <1>1 DEF Build
<1> QED BY <1>1, <1>2, OwnTakes

(* Sort, whether its order is lost or not.                                  *)
LEMMA SortKeeps == ASSUME IInv, NEW c \in Clients, Sort(c) PROVE IInv'
<1> DEFINE o == handle[c].db
<1>1. /\ handle[c] \in Handles /\ o \in Objects /\ db[o] \in DBs
      /\ db[o].clone # "fresh" => o = c
      /\ GoodHandle(c, handle[c], db[o])
  BY OfClient
<1>2. {"order"} \in SUBSET Clauses
  BY DEF Clauses
<1>3. CASE db[o].clone = "chain"
  <2>1. o = c
    BY <1>1, <1>3
  <2>2. /\ Takes(c, Derived(handle[c], c, {"order"}), [db EXCEPT ![c] = With(db[c], {"order"})])
        /\ UNCHANGED <<tx, missed, misuser>>
    BY <1>3, <2>1 DEF Sort, IInv
  <2> QED BY <1>1, <1>2, <1>3, <2>1, <2>2, OwnTakes
<1>4. CASE db[o].clone # "chain"
  <2> DEFINE h == Derived(handle[c], o, {"order"})
  <2>1. Takes(c, h, db) /\ UNCHANGED <<tx, missed, misuser>>
    BY <1>4 DEF Sort
  <2>2. /\ h \in Handles /\ h.db = o /\ h.asked = handle[c].asked \cup {"order"}
        /\ h.isMonitor = handle[c].isMonitor
    BY <1>1, <1>2, DerivedHandle
  <2> HIDE DEF h
  <2> QED BY <1>1, <2>1, <2>2, SameDB DEF GoodHandle
<1> QED BY <1>3, <1>4

(* Monitor.                                                                 *)
LEMMA MonitorKeeps == ASSUME IInv, NEW c \in Clients, Monitor(c) PROVE IInv'
<1> DEFINE o == handle[c].db
           k == Derived(handle[c], o, {"monitor"})
           h == [k EXCEPT !.isMonitor = TRUE]
<1>1. handle[c] \in Handles /\ o \in Objects
  BY OfClient
<1>2. k \in Handles /\ k.db = o /\ k.asked = handle[c].asked \cup {"monitor"}
  BY <1>1, DerivedHandle
<1>3. Takes(c, h, db) /\ UNCHANGED <<tx, missed, misuser>>
  BY DEF Monitor
<1> HIDE DEF k
<1>4. h \in Handles /\ h.db = o /\ h.asked = k.asked /\ h.isMonitor
  BY <1>2 DEF Handles
<1> HIDE DEF h
<1> QED BY <1>2, <1>3, <1>4, SameDB

(* No query of a monitored handle is without its segment.                   *)
LEMMA NoneMissed ==
  ASSUME IInv, NEW c \in Clients, NEW doMonitor \in BOOLEAN,
         Queried(handle[c], doMonitor)
  PROVE  UNCHANGED missed
<1>1. missed = FALSE /\ ("monitor" \in handle[c].asked => handle[c].isMonitor)
  BY DEF IInv, GoodHandle
<1>2. missed' = FALSE
  BY <1>1 DEF Queried
<1> QED BY <1>1, <1>2

(* A method that executes.                                                  *)
LEMMA ExecuteKeeps ==
  ASSUME IInv, NEW c \in Clients, NEW clauses \in SUBSET Clauses,
         NEW doMonitor \in BOOLEAN, NEW fails \in BOOLEAN,
         Execute(c, clauses, doMonitor, fails)
  PROVE  IInv'
<1> DEFINE o == handle[c].db
<1>1. db[o] \in DBs /\ o \in Objects /\ (db[o].clone # "fresh" => o = c)
  BY OfClient
<1>2. UNCHANGED <<tx, missed, misuser>>
  BY NoneMissed DEF Execute
<1>3. CASE db[o].clone # "chain"
  BY <1>2, <1>3 DEF Execute, IInv
<1>4. CASE db[o].clone = "chain"
  <2> DEFINE after == With(db[c], clauses)
             f == IF Executes(c) /\ fails THEN Failed(after, c) ELSE after
  <2>1. o = c
    BY <1>1, <1>4
  <2>2. Takes(c, Derived(handle[c], c, clauses), [db EXCEPT ![c] = f])
    BY <1>4, <2>1 DEF Execute
  <2>3. f = With(db[c], clauses) \/ f = Failed(With(db[c], clauses), c)
    OBVIOUS
  <2> HIDE DEF f
  <2> QED BY <1>1, <1>2, <1>4, <2>1, <2>2, <2>3, OwnTakes
<1> QED BY <1>3, <1>4

(* FindByQuery.                                                             *)
LEMMA FindByQueryKeeps ==
  ASSUME IInv, NEW c \in Clients, NEW fails \in BOOLEAN, FindByQuery(c, fails)
  PROVE  IInv'
<1> DEFINE o == handle[c].db
           built == With(Instance(o), QueryBuilder)
           f == IF Executes(o) /\ fails THEN Failed(built, c) ELSE built
<1>1. /\ Chosen(c, o) = c
      /\ Instance(o) \in DBs /\ Instance(o).clone = "chain"
      /\ Instance(o).stmt = db[o].stmt /\ Instance(o).error = db[o].error
      /\ Instance(o).pool = db[o].pool
  BY InstanceIsOwn
<1>2. UNCHANGED <<tx, missed, misuser>>
  BY NoneMissed DEF FindByQuery
<1>3. Takes(c, Derived(handle[c], c, QueryBuilder), [db EXCEPT ![c] = f])
  BY <1>1 DEF FindByQuery
<1>4. f = With(Instance(o), QueryBuilder) \/ f = Failed(With(Instance(o), QueryBuilder), c)
  OBVIOUS
<1>5. QueryBuilder \in SUBSET Clauses
  BY DEF QueryBuilder, Clauses, Fields
<1> HIDE DEF f
<1> QED BY <1>1, <1>2, <1>3, <1>4, <1>5, OwnTakes

(* Begin: a DB of its own, in a transaction or with the error.              *)
LEMMA BeginKeeps ==
  ASSUME IInv, NEW c \in Clients, NEW fails \in BOOLEAN, Begin(c, fails)
  PROVE  IInv'
<1> USE SqlAssumption
<1> DEFINE d == db[handle[c].db]
           begun == [d EXCEPT !.clone = IF @ = "fresh" THEN @ ELSE "copy"]
           f == IF fails THEN Failed(begun, c) ELSE [begun EXCEPT !.pool = c]
           h == Derived(handle[c], c, {})
           dbs == [db EXCEPT ![c] = f]
<1>1. /\ handle[c] \in Handles /\ c \in Objects
      /\ d \in DBs /\ d.pool \in {Server, c} /\ d.error \subseteq {c} \cup misuser
      /\ d.pool # Server => tx[d.pool] # "none"
      /\ d.clone = "fresh" => d.stmt = {}
      /\ GoodHandle(c, handle[c], d)
  BY OfClient DEF Objects
<1>2. Takes(c, h, dbs) /\ tx' = (IF fails THEN tx ELSE [tx EXCEPT ![c] = "open"])
      /\ UNCHANGED <<missed, misuser>>
  BY DEF Begin
<1>3. /\ begun \in DBs /\ begun.stmt = d.stmt /\ begun.error = d.error
      /\ begun.pool = d.pool /\ (begun.clone = "fresh" => d.clone = "fresh")
  BY <1>1 DEF DBs
<1> HIDE DEF begun
<1>4. /\ f \in DBs /\ f.stmt = d.stmt /\ f.clone = begun.clone
      /\ f.error \subseteq d.error \cup {c}
      /\ f.pool = IF fails THEN d.pool ELSE c
  <2>1. CASE fails
    BY <1>3, <2>1, FailedDB
  <2>2. CASE ~fails
    BY <1>3, <2>2 DEF DBs
  <2> QED BY <2>1, <2>2
<1> HIDE DEF f
<1>5. /\ tx' \in [Clients -> {"none", "open", "ended"}]
      /\ \A q \in Clients \ {c} : tx'[q] = tx[q]
      /\ ~fails => tx'[c] = "open"
      /\ fails => tx' = tx
  BY <1>2 DEF IInv
<1>6. GoodDB(c, f, tx', misuser)
  BY <1>1, <1>3, <1>4, <1>5 DEF GoodDB
<1>7. GoodHandle(c, h, f) /\ h.db = c
  BY <1>1, <1>4, DerivedHandle DEF GoodHandle
<1>8. dbs[c] = f /\ dbs[Root] = db[Root] /\ \A q \in Clients \ {c} : dbs[q] = db[q]
  BY <1>1 DEF IInv
<1> HIDE DEF h, dbs
<1> QED BY <1>2, <1>5, <1>6, <1>7, <1>8, TakesIsGood

(* Commit and Rollback: an error on the connection's DB has its misuser.    *)
LEMMA CommitKeeps ==
  ASSUME IInv, NEW c \in Clients, NEW fails \in BOOLEAN, Commit(c, fails)
  PROVE  IInv'
<1> USE SqlAssumption
<1> DEFINE o == handle[c].db
<1>1. o \in {Root, c} /\ o \in Objects /\ db[o] \in DBs
  BY OfClient DEF GoodHandle
<1>2. /\ Failed(db[o], c) \in DBs /\ Failed(db[o], c).error = db[o].error \cup {c}
      /\ Failed(db[o], c).clone = db[o].clone /\ Failed(db[o], c).stmt = db[o].stmt
      /\ Failed(db[o], c).pool = db[o].pool
  BY <1>1, FailedDB
<1>3. /\ misuser \subseteq misuser' /\ misuser' \in SUBSET Clients
      /\ o = Root => c \in misuser'
      /\ tx' \in [Clients -> {"none", "open", "ended"}]
      /\ \A q \in Clients : tx[q] # "none" => tx'[q] # "none"
      /\ handle' = handle /\ missed' = missed
  BY DEF Commit, IInv
<1>4. ASSUME NEW x \in Objects
      PROVE  /\ db'[x] \in DBs /\ db'[x].clone = db[x].clone /\ db'[x].stmt = db[x].stmt
             /\ db'[x].pool = db[x].pool
             /\ db'[x].error \subseteq db[x].error \cup IF x = o THEN {c} ELSE {}
  <2>1. db[x] \in DBs
    BY DEF IInv
  <2> QED BY <1>1, <1>2, <2>1 DEF Commit, IInv
<1>5. ASSUME NEW x \in Objects PROVE GoodDB(x, db'[x], tx', misuser')
  <2>1. GoodDB(x, db[x], tx, misuser)
    BY DEF IInv
  <2>2. db'[x].error \subseteq {x} \cup misuser'
    BY <1>1, <1>3, <1>4, <2>1 DEF GoodDB
  <2>3. db[x].pool # Server => db[x].pool \in Clients
    BY <2>1 DEF GoodDB, DBs
  <2> QED BY <1>3, <1>4, <2>1, <2>2, <2>3 DEF GoodDB
<1>6. ASSUME NEW q \in Clients PROVE GoodHandle(q, handle'[q], db'[handle'[q].db])
  <2>1. GoodHandle(q, handle[q], db[handle[q].db]) /\ handle[q].db \in Objects
    BY OfClient
  <2> QED BY <1>3, <1>4, <2>1 DEF GoodHandle
<1>7. db' \in [Objects -> DBs] /\ db'[Root].clone = "fresh"
  <2>1. db' = [x \in Objects |-> db'[x]]
    BY DEF Commit, IInv
  <2>2. Root \in Objects
    BY DEF Objects
  <2> QED BY <1>4, <2>1, <2>2 DEF IInv
<1> QED BY <1>3, <1>5, <1>6, <1>7 DEF IInv

(* A client starts again: its DB and its transaction are gone.              *)
LEMMA RestartKeeps == ASSUME IInv, NEW c \in Clients, Restart(c) PROVE IInv'
<1> USE SqlAssumption
<1>1. Root \in Objects /\ db[Root].stmt = {}
  BY DEF Objects, IInv, GoodDB
<1>2. GoodHandle(c, RootHandle, db[RootHandle.db]) /\ RootHandle.db = Root
  BY <1>1, RootHandleIsGood DEF RootHandle
<1>3. /\ tx' \in [Clients -> {"none", "open", "ended"}]
      /\ \A q \in Clients \ {c} : tx'[q] = tx[q]
  BY DEF Restart, IInv
<1>4. Takes(c, RootHandle, db) /\ UNCHANGED <<missed, misuser>>
  BY DEF Restart
<1> QED BY <1>2, <1>3, <1>4, TakesIsGood

(* Every step keeps the invariant.                                          *)
LEMMA NextIInv == IInv /\ [Next]_vars => IInv'
<1> SUFFICES ASSUME IInv, Next PROVE IInv'
  BY DEF IInv, vars
<1> PICK c \in Clients :
        \/ Builds(c) \/ WithName(c) \/ Restart(c)
        \/ \E fails \in BOOLEAN :
            Executions(c, fails) \/ Begin(c, fails) \/ Commit(c, fails)
  BY DEF Next
<1>1. CASE Builds(c)
  <2>1. ASSUME NEW clauses \in Builders, Build(c, clauses, clauses) PROVE IInv'
    <3>1. clauses \in SUBSET Clauses
      BY DEF Builders, Where, Order, Join, Group, Table, FillQuery, QueryBuilder,
             Clauses, Fields
    <3> QED BY <2>1, <3>1, BuildKeeps
  <2>2. CASE Select(c)
    <3>1. {"fields"} \in SUBSET Clauses /\ {"lastField"} \in SUBSET Clauses
      BY DEF Clauses, Fields
    <3> QED BY <2>2, <3>1, BuildKeeps DEF Select
  <2> QED BY <1>1, <2>1, <2>2, SortKeeps, MonitorKeeps DEF Builds
<1>2. CASE Restart(c)
  BY <1>2, RestartKeeps
<1>3. ASSUME NEW fails \in BOOLEAN, Executions(c, fails) PROVE IInv'
  <2>1. \A clauses \in {Plain, First, Update, Delete, Patch, Upsert} :
            clauses \in SUBSET Clauses
    BY DEF Plain, First, Update, Delete, Patch, Upsert, Clauses, Fields
  <2>2. Count(c, fails) => IInv'
    BY ExecuteKeeps DEF Count
  <2> QED BY <1>3, <2>1, <2>2, ExecuteKeeps, FindByQueryKeeps DEF Executions
<1>4. ASSUME NEW fails \in BOOLEAN, Begin(c, fails) \/ Commit(c, fails) PROVE IInv'
  BY <1>4, BeginKeeps, CommitKeeps
<1>5. CASE WithName(c)
  <2>1. Table \in SUBSET Clauses
    BY DEF Table, Clauses
  <2> QED BY <1>5, <2>1, BuildKeeps DEF WithName
<1> QED BY <1>1, <1>2, <1>3, <1>4, <1>5

(* The invariant of the handles on one connection holds.                    *)
THEOREM Invariance == Spec => []IInv
  BY InitIInv, NextIInv, PTL DEF Spec

(* The handles and their gorm.DBs keep their types.                         *)
THEOREM TypeCorrect == Spec => []TypeOK
<1>1. IInv => TypeOK
  <2> SUFFICES ASSUME IInv PROVE TypeOK
    OBVIOUS
  <2>1. ASSUME NEW c \in Clients, NEW o \in Objects, db[o].pool = c PROVE tx[c] # "none"
    BY <2>1, SqlAssumption DEF IInv, GoodDB
  <2> QED BY <2>1 DEF IInv, TypeOK
<1> QED BY <1>1, Invariance, PTL

(* What other goroutines build on the shared connection does not get into   *)
(* a client's query, however long the chains.                               *)
THEOREM QueriesAreAsBuilt == Spec => []AsBuilt
<1>1. IInv => AsBuilt
  BY DEF IInv, GoodHandle, AsBuilt
<1> QED BY <1>1, Invariance, PTL

(* Nor does their error, unless it is that of a Commit or Rollback on the   *)
(* connection.                                                              *)
THEOREM ErrorsAreOwn == Spec => []ErrorsStayWithClient
<1>1. IInv => ErrorsStayWithClient
  <2> SUFFICES ASSUME IInv, NEW c \in Clients
               PROVE  db[handle[c].db].error \subseteq {c} \cup misuser
    BY DEF ErrorsStayWithClient
  <2> QED BY OfClient
<1> QED BY <1>1, Invariance, PTL

(* Every query of a monitored handle has its segment.                       *)
THEOREM MonitoredQueriesHaveSegments == Spec => []QueriesHaveSegments
<1>1. IInv => QueriesHaveSegments
  BY DEF IInv, QueriesHaveSegments
<1> QED BY <1>1, Invariance, PTL
=============================================================================
