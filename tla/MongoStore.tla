----------------------------- MODULE MongoStore -----------------------------
(***************************************************************************)
(* persistent/nosql/mongo/implementations/gomongo: goroutines of one       *)
(* process that use one MongoDB database through handles on one client.    *)
(*                                                                         *)
(* MongoDB and its driver are external: a command is a step that takes     *)
(* effect or not, and whose answer may be lost.  Documents are known by    *)
(* their ids; those in OwnIds have an id that their writer chose and that  *)
(* is not an ObjectID.  One collection stands for those a handle can be    *)
(* set to.  The monitor of the collection is left out, since none of its   *)
(* methods uses it, and so is captureError, which nothing calls.           *)
(***************************************************************************)
EXTENDS Naturals, FiniteSets

CONSTANTS
    Goroutines, \* the goroutines that use the database
    Documents,  \* ids of documents
    OwnIds      \* those of them that are not ObjectIDs

VARIABLES
    exists,    \* does the collection exist
    documents, \* the ids in it
    mongo      \* mongo[g]: the handle of g and its call in progress

vars == <<exists, documents, mongo>>

(* "Read" is FindAll, FindOne, CountWithFilter, Count and Distinct, "Find"   *)
(* also Aggregate, "Update" also UpdateMany and BulkDocument, "Delete" also *)
(* DeleteMany.                                                              *)
Inserts == {"Insert", "InsertMany"}
Queries == Inserts \cup
    {"Read", "Find", "Update", "FindOneAndUpdate", "Delete", "FindOneAndDelete"}

(* isMonitor and collection (is it set) are the handle's fields; open holds *)
(* the spans begun and not finished, done the ids the call has inserted or  *)
(* taken out.  A cursor is "left" when closing it has failed: the server    *)
(* keeps it until it times out.  The answer "unknown" is an error that      *)
(* comes instead of the server's.                                           *)
TypeOK ==
    /\ exists \in BOOLEAN
    /\ documents \in SUBSET Documents
    /\ mongo \in [Goroutines ->
            [isMonitor : BOOLEAN, collection : BOOLEAN,
             pc : {"idle", "command", "callback", "return", "panicked"},
             op : {"none"} \cup Queries,
             docs : SUBSET Documents, done : SUBSET Documents,
             open : SUBSET Queries,
             cursor : {"none", "open", "closed", "left"},
             answer : {"none", "ok", "error", "unknown"}]]

(* The handle NewMongoConnection returns, and no call. *)
New == [isMonitor |-> FALSE, collection |-> FALSE,
        pc |-> "idle", op |-> "none", docs |-> {}, done |-> {}, open |-> {},
        cursor |-> "none", answer |-> "none"]

Init ==
    /\ exists = FALSE
    /\ documents = {}
    /\ mongo = [g \in Goroutines |-> New]

At(g, pc) == mongo[g].pc = pc
Operation(g) == mongo[g].op
Docs(g) == mongo[g].docs
-----------------------------------------------------------------------------
(***************************************************************************)
(* Handles.                                                                *)
(***************************************************************************)

(* The new handle has no monitor, whatever its database has.  (The span of  *)
(* database.Collection ends within it.)                                     *)
SetCollection(g) ==
    /\ At(g, "idle")
    /\ mongo' = [mongo EXCEPT ![g].collection = TRUE, ![g].isMonitor = FALSE]
    /\ UNCHANGED <<exists, documents>>

Monitor(g) ==
    /\ At(g, "idle")
    /\ mongo' = [mongo EXCEPT ![g].isMonitor = TRUE]
    /\ UNCHANGED <<exists, documents>>

(* The goroutine goes back to the handle the connection gave. *)
StartAgain(g) ==
    /\ At(g, "idle")
    /\ mongo' = [mongo EXCEPT ![g] = New]
    /\ UNCHANGED <<exists, documents>>
-----------------------------------------------------------------------------
(***************************************************************************)
(* Queries.                                                                *)
(***************************************************************************)

(* What a query is about: one document, or several to insert at once.  Only *)
(* inserts look at an id's type: the others need no document of OwnIds.     *)
About(op) ==
    CASE op = "Insert" -> {{d} : d \in Documents}
      [] op = "InsertMany" -> {docs \in SUBSET Documents : Cardinality(docs) > 1}
      [] op \in {"Read", "Find"} -> {{}}
      [] OTHER -> {{d} : d \in Documents \ OwnIds}

(* A query of a handle without a collection calls nil; doMonitor's deferred *)
(* finish runs.                                                             *)
QueryPanics(g) ==
    /\ At(g, "idle")
    /\ ~mongo[g].collection
    /\ mongo' = [mongo EXCEPT ![g].pc = "panicked"]
    /\ UNCHANGED <<exists, documents>>

Query(g, op, docs) ==
    /\ At(g, "idle")
    /\ mongo[g].collection
    /\ mongo' = [mongo EXCEPT ![g].pc = "command", ![g].op = op, ![g].docs = docs,
                              ![g].open = IF mongo[g].isMonitor THEN @ \cup {op} ELSE @]
    /\ UNCHANGED <<exists, documents>>

(* The command has been answered; done holds what it has done. *)
Answer(g, answer, done) ==
    mongo' = [mongo EXCEPT ![g].pc = "return", ![g].answer = answer, ![g].done = done]

(* Insert and InsertMany answer with ObjectIDs only. *)
CastAnswer(g) == IF Docs(g) \cap OwnIds = {} THEN "ok" ELSE "error"

Insert(g) ==
    /\ At(g, "command")
    /\ Operation(g) \in Inserts
    /\ Docs(g) \cap documents = {}
    /\ exists' = TRUE
    /\ documents' = documents \cup Docs(g)
    /\ Answer(g, CastAnswer(g), Docs(g))

(* The server refuses a document, one that is there already for instance,   *)
(* after it has inserted those before it.                                   *)
InsertRefused(g) ==
    /\ At(g, "command")
    /\ Operation(g) \in Inserts
    /\ \E done \in (SUBSET (Docs(g) \ documents)) \ {Docs(g)} :
        /\ documents' = documents \cup done
        /\ exists' = (exists \/ done # {})
        /\ Answer(g, "error", done)

(* An upsert inserts the document. *)
Update(g) ==
    /\ At(g, "command")
    /\ Operation(g) = "Update"
    /\ documents' \in {documents, documents \cup Docs(g)}
    /\ exists' = (exists \/ documents' # {})
    /\ Answer(g, "ok", {})

(* The answer is an error when the document was not there, upsert or not,   *)
(* and when the old one cannot be decoded.                                  *)
FindOneAndUpdate(g) ==
    /\ At(g, "command")
    /\ Operation(g) = "FindOneAndUpdate"
    /\ documents' \in {documents, documents \cup Docs(g)}
    /\ exists' = (exists \/ documents' # {})
    /\ \/ Docs(g) \subseteq documents /\ Answer(g, "ok", {})
       \/ Answer(g, "error", {})

Delete(g) ==
    /\ At(g, "command")
    /\ Operation(g) = "Delete"
    /\ documents' = documents \ Docs(g)
    /\ Answer(g, "ok", {})
    /\ UNCHANGED exists

(* Mutant: sr.Err() is not looked at. *)
FindOneAndDelete_NoErr(g) ==
    /\ At(g, "command")
    /\ Operation(g) = "FindOneAndDelete"
    /\ documents' = documents \ Docs(g)
    /\ Answer(g, "ok", Docs(g) \cap documents)
    /\ UNCHANGED exists

(* An error when there is no such document. *)
FindOneAndDelete(g) ==
    /\ At(g, "command")
    /\ Operation(g) = "FindOneAndDelete"
    /\ documents' = documents \ Docs(g)
    /\ Answer(g, IF Docs(g) \subseteq documents THEN "ok" ELSE "error",
              Docs(g) \cap documents)
    /\ UNCHANGED exists

(* FindAll's cursor is read to its end and closed by All. *)
Read(g) ==
    /\ At(g, "command")
    /\ Operation(g) = "Read"
    /\ \E answer \in {"ok", "error"} : Answer(g, answer, {})
    /\ UNCHANGED <<exists, documents>>

(* The callback gets an open cursor. *)
CallBack(g) ==
    /\ At(g, "command")
    /\ Operation(g) = "Find"
    /\ mongo' = [mongo EXCEPT ![g].pc = "callback", ![g].cursor = "open"]
    /\ UNCHANGED <<exists, documents>>

(* What may have become of the documents when no answer has come. *)
Possible(g) ==
    CASE Operation(g) \in {"Delete", "FindOneAndDelete"} -> {documents, documents \ Docs(g)}
      [] OTHER -> {documents \cup more : more \in SUBSET Docs(g)}

(* The server or the way to it fails, before or after the command is done. *)
Fails(g) ==
    /\ At(g, "command")
    /\ documents' \in Possible(g)
    /\ exists' = (exists \/ documents' # {})
    /\ Answer(g, "unknown", {})

(* The deferred Close(ctx), whose failure is logged only: the context may   *)
(* be done, often just when the callback has failed on it.                  *)
Closed == {"closed", "left"}

(* The callback's error is the call's, not that of the Close after it. *)
CallbackReturns(g) ==
    /\ At(g, "callback")
    /\ \E answer \in {"ok", "error"}, cursor \in Closed :
        mongo' = [mongo EXCEPT ![g].pc = "return", ![g].cursor = cursor,
                               ![g].answer = answer]
    /\ UNCHANGED <<exists, documents>>

(* Mutant: Close is the last statement, not deferred. *)
CallbackPanics_NotDeferred(g) ==
    /\ At(g, "callback")
    /\ mongo' = [mongo EXCEPT ![g].pc = "panicked", ![g].open = @ \ {Operation(g)}]
    /\ UNCHANGED <<exists, documents>>

(* The deferred Close, then the deferred finish. *)
CallbackPanics(g) ==
    /\ At(g, "callback")
    /\ \E cursor \in Closed :
        mongo' = [mongo EXCEPT ![g].pc = "panicked", ![g].cursor = cursor,
                               ![g].open = @ \ {Operation(g)}]
    /\ UNCHANGED <<exists, documents>>
-----------------------------------------------------------------------------
(***************************************************************************)
(* Calls of the database, DB(): each is one command, which the span of a   *)
(* monitored database begins and ends with.  HasCollection and             *)
(* CollectionNames change nothing.                                         *)
(***************************************************************************)
Drop(g) ==
    /\ At(g, "idle")
    /\ exists' = FALSE
    /\ documents' = {}
    /\ UNCHANGED mongo

CreateCollection(g) ==
    /\ At(g, "idle")
    /\ exists' = TRUE
    /\ UNCHANGED <<documents, mongo>>
-----------------------------------------------------------------------------
(* The deferred finish, and the caller has its answer. *)
Return(g) ==
    /\ At(g, "return")
    /\ mongo' = [mongo EXCEPT
            ![g].pc = "idle", ![g].op = "none", ![g].docs = {}, ![g].done = {},
            ![g].cursor = "none", ![g].answer = "none",
            ![g].open = @ \ {Operation(g)}]
    /\ UNCHANGED <<exists, documents>>

(* Somebody up the stack recovers. *)
Recovered(g) ==
    /\ At(g, "panicked")
    /\ mongo' = [mongo EXCEPT ![g].pc = "idle", ![g].op = "none", ![g].docs = {},
                              ![g].cursor = "none"]
    /\ UNCHANGED <<exists, documents>>

(* The process dies and is started again; its cursors time out. *)
Dies ==
    /\ mongo' = [g \in Goroutines |-> New]
    /\ UNCHANGED <<exists, documents>>
-----------------------------------------------------------------------------
Setter(g) == SetCollection(g) \/ Monitor(g) \/ StartAgain(g)

Starts(g) ==
    \/ QueryPanics(g)
    \/ \E op \in Queries : \E docs \in About(op) : Query(g, op, docs)
    \/ Drop(g) \/ CreateCollection(g)

Commands(g) ==
    \/ Insert(g) \/ InsertRefused(g) \/ Update(g) \/ FindOneAndUpdate(g)
    \/ Delete(g) \/ FindOneAndDelete(g) \/ Read(g) \/ CallBack(g)
    \/ Fails(g)

Next ==
    \/ \E g \in Goroutines :
        \/ Setter(g) \/ Starts(g) \/ Commands(g) \/ CallbackReturns(g)
        \/ CallbackPanics(g) \/ Return(g) \/ Recovered(g)
    \/ Dies

Spec == Init /\ [][Next]_vars
-----------------------------------------------------------------------------
(***************************************************************************)
(* Properties.                                                             *)
(***************************************************************************)

(* On every way out of a callback, a return, an error or a panic, Find and  *)
(* Aggregate have tried to close its cursor.  A Close that failed leaves    *)
(* the cursor to the server's timeout, and nobody is told.                  *)
CloseIsTried ==
    \A g \in Goroutines : mongo[g].cursor = "open" => At(g, "callback")

(* What the server has answered is told: ids or nil mean that all of it is  *)
(* done, and an error that some of it is not, but for documents with ids of *)
(* their own, which Insert and InsertMany report as failed.                 *)
AnswerTellsEffect ==
    \A g \in Goroutines :
        At(g, "return") /\ Operation(g) \in Inserts \cup {"FindOneAndDelete"} =>
            /\ mongo[g].answer = "ok" => mongo[g].done = Docs(g)
            /\ mongo[g].answer = "error" /\ (Operation(g) \in Inserts => Docs(g) \cap OwnIds = {})
                  => mongo[g].done # Docs(g)

(* A goroutine between calls has left no span open, whatever the answer,    *)
(* after a panic neither.                                                   *)
SpansFinished == \A g \in Goroutines : At(g, "idle") => mongo[g].open = {}
=============================================================================
