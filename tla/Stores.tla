------------------------------- MODULE Stores -------------------------------
(***************************************************************************)
(* A process whose goroutines use the uploader and the document store: one *)
(* call at a time, but for the callback of a Find, which may upload.  A    *)
(* panic of the uploader there passes through Find, and the death the      *)
(* uploader brings on the process takes every query with it.               *)
(***************************************************************************)
EXTENDS Naturals

CONSTANTS
    Goroutines, \* the goroutines of the process
    Files,      \* names of files
    Documents,  \* ids of documents
    OwnIds      \* those of them that are not ObjectIDs

VARIABLES
    bucket, objects, uploader,  \* of MinioUploader
    exists, documents, mongo    \* of MongoStore

uploaderVars == <<bucket, objects, uploader>>
databaseVars == <<exists, documents, mongo>>
vars == <<bucket, objects, uploader, exists, documents, mongo>>

Uploader == INSTANCE MinioUploader
Database == INSTANCE MongoStore

TypeOK == Uploader!TypeOK /\ Database!TypeOK

Init == Uploader!Init /\ Database!Init
-----------------------------------------------------------------------------
(* A goroutine has one client's handle in hand, or two within a callback.   *)
MayUpload(g) == mongo[g] = Database!New \/ mongo[g].pc = "callback"
MayQuery(g) == uploader[g] = Uploader!New

UploadStarts(g) ==
    /\ MayUpload(g)
    /\ Uploader!Setter(g) \/ Uploader!Starts(g)
    /\ UNCHANGED databaseVars

UploadAdvances(g) == Uploader!Advances(g) /\ UNCHANGED databaseVars

(* The panic of an upload is recovered, or first passes through Find. *)
UploadPanics(g) ==
    /\ uploader[g].pc = "panicked"
    /\ uploader' = [uploader EXCEPT ![g] = Uploader!New]
    /\ \/ UNCHANGED databaseVars
       \/ Database!CallbackPanics(g)
    /\ UNCHANGED <<bucket, objects>>

QueryStarts(g) ==
    /\ MayQuery(g)
    /\ Database!Setter(g) \/ Database!Starts(g)
    /\ UNCHANGED uploaderVars

QueryAdvances(g) ==
    /\ MayQuery(g)
    /\ \/ Database!Commands(g) \/ Database!CallbackReturns(g)
       \/ Database!CallbackPanics(g) \/ Database!Return(g) \/ Database!Recovered(g)
    /\ UNCHANGED uploaderVars

(* All goroutines go down with the one whose stack overflows. *)
Overflows(g) == Uploader!Overflows(g) /\ Database!Dies

ProcessDies == Uploader!Dies /\ Database!Dies

Next ==
    \/ \E g \in Goroutines :
        \/ UploadStarts(g) \/ UploadAdvances(g) \/ UploadPanics(g)
        \/ QueryStarts(g) \/ QueryAdvances(g) \/ Overflows(g)
    \/ ProcessDies

(* MinIO's client ends every request in time, with an answer or an error; a *)
(* panic ends in a recover, or with the process; the stack is finite.       *)
Fairness ==
    \A g \in Goroutines :
        WF_vars(UploadAdvances(g) \/ UploadPanics(g) \/ Overflows(g))

Spec == Init /\ [][Next]_vars /\ Fairness
-----------------------------------------------------------------------------
(***************************************************************************)
(* Properties: those of the parts, of the process.                         *)
(***************************************************************************)

(* Uploads begin, take effect and are answered as those of a store of files *)
(* that is never touched otherwise, from callbacks, too.                    *)
ImplementsFileStore == Uploader!ImplementsFileStore

(* No operation goes to a bucket that has not been made.                    *)
BucketIsThere == Uploader!BucketIsThere

(* Every upload ends: with its answer, a panic, or the process.             *)
CallEnds == Uploader!CallEnds

(* No call leaves a span open, an upload within a query neither, and no     *)
(* callback a cursor that nobody has tried to close, though an upload's     *)
(* panic be what ended it.                                                  *)
NothingLeftOpen ==
    Uploader!SpansFinished /\ Database!SpansFinished /\ Database!CloseIsTried

(* Inserts and FindOneAndDelete answer what they have done.                 *)
AnswerTellsEffect == Database!AnswerTellsEffect
=============================================================================
