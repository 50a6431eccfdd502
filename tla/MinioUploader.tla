--------------------------- MODULE MinioUploader ---------------------------
(***************************************************************************)
(* uploader/implementations/minio/miniogo/minio.go: goroutines of one      *)
(* process that put, get and remove files through handles on one MinIO     *)
(* client.                                                                 *)
(*                                                                         *)
(* The handle a goroutine has in hand is part of its record; the setters   *)
(* return a new one.  MinIO is external: each request to it is a step,     *)
(* which may fail before or after it has taken effect.  captureError calls *)
(* itself without end, so entering it is the end of the process; the       *)
(* events its frames capture on the way are left out.                      *)
(***************************************************************************)
CONSTANTS
    Goroutines, \* the goroutines that use the uploader
    Files       \* names of files

VARIABLES
    bucket,   \* does the bucket exist
    objects,  \* the files in it
    uploader  \* uploader[g]: the handle of g and its call in progress

vars == <<bucket, objects, uploader>>

Operations == {"Put", "Get", "Remove"}
Calls == {<<>>} \cup (Operations \X Files)

(* isMonitor and monitor are the handle's fields (monitor: is it set); open *)
(* holds the spans begun and not finished.                                  *)
TypeOK ==
    /\ bucket \in BOOLEAN
    /\ objects \in SUBSET Files
    /\ uploader \in [Goroutines ->
            [isMonitor : BOOLEAN, monitor : BOOLEAN,
             pc : {"idle", "check", "make", "object", "copy", "return",
                   "captureError", "panicked"},
             call : Calls,
             open : SUBSET ({"BucketExists", "MakeBucket"} \cup Operations),
             answer : {"none", "ok", "error"}]]

(* The handle NewMinioUploader returns, and no call. *)
New == [isMonitor |-> FALSE, monitor |-> FALSE,
        pc |-> "idle", call |-> <<>>, open |-> {}, answer |-> "none"]

Init ==
    /\ bucket = FALSE
    /\ objects = {}
    /\ uploader = [g \in Goroutines |-> New]

At(g, pc) == uploader[g].pc = pc
Operation(g) == uploader[g].call[1]
File(g) == uploader[g].call[2]
-----------------------------------------------------------------------------
(***************************************************************************)
(* Handles.                                                                *)
(***************************************************************************)

(* SetPutOption forgets isMonitor and keeps the monitor. *)
SetPutOption(g) ==
    /\ At(g, "idle")
    /\ uploader' = [uploader EXCEPT ![g].isMonitor = FALSE]
    /\ UNCHANGED <<bucket, objects>>

(* SetGetOption and SetRemoveOption set isMonitor, monitor or not. *)
SetOtherOption(g) ==
    /\ At(g, "idle")
    /\ uploader' = [uploader EXCEPT ![g].isMonitor = TRUE]
    /\ UNCHANGED <<bucket, objects>>

Monitor(g) ==
    /\ At(g, "idle")
    /\ uploader' = [uploader EXCEPT ![g].isMonitor = TRUE, ![g].monitor = TRUE]
    /\ UNCHANGED <<bucket, objects>>

(* The goroutine goes back to the handle the connection gave. *)
StartAgain(g) ==
    /\ At(g, "idle")
    /\ uploader' = [uploader EXCEPT ![g] = New]
    /\ UNCHANGED <<bucket, objects>>
-----------------------------------------------------------------------------
(***************************************************************************)
(* Calls.                                                                  *)
(***************************************************************************)

(* doMonitor: the spans open once it has begun this one. *)
WithSpan(g, span) ==
    IF uploader[g].isMonitor THEN uploader[g].open \cup {span} ELSE uploader[g].open

(* startMonitor calls a monitor that is not there. *)
CallPanics(g) ==
    /\ At(g, "idle")
    /\ uploader[g].isMonitor /\ ~uploader[g].monitor
    /\ uploader' = [uploader EXCEPT ![g].pc = "panicked"]
    /\ UNCHANGED <<bucket, objects>>

Call(g, op, file) ==
    /\ At(g, "idle")
    /\ uploader[g].isMonitor => uploader[g].monitor
    /\ uploader' = [uploader EXCEPT ![g].pc = "check", ![g].call = <<op, file>>,
                                    ![g].open = WithSpan(g, "BucketExists")]
    /\ UNCHANGED <<bucket, objects>>

(* bucketCheck returns nil, which finishes its spans and no other, and the  *)
(* span of the operation begins.                                            *)
Checked(g) ==
    uploader' = [uploader EXCEPT ![g].pc = "object",
        ![g].open = (@ \ {"BucketExists", "MakeBucket"}) \cup
                    (IF uploader[g].isMonitor THEN {Operation(g)} ELSE {})]

BucketExists(g) ==
    /\ At(g, "check")
    /\ IF bucket
       THEN Checked(g)
       ELSE uploader' = [uploader EXCEPT ![g].pc = "make",
                                         ![g].open = WithSpan(g, "MakeBucket")]
    /\ UNCHANGED <<bucket, objects>>

(* Refused once the bucket is there: see MakeBucketFails. *)
MakeBucket(g) ==
    /\ At(g, "make")
    /\ ~bucket
    /\ bucket' = TRUE
    /\ Checked(g)
    /\ UNCHANGED objects

CaptureError(g) == uploader' = [uploader EXCEPT ![g].pc = "captureError"]

BucketExistsFails(g) ==
    /\ At(g, "check")
    /\ CaptureError(g)
    /\ UNCHANGED <<bucket, objects>>

(* Mutant: an error is taken for "somebody else has made it". *)
MakeBucketFails_Ignored(g) ==
    /\ At(g, "make")
    /\ Checked(g)
    /\ UNCHANGED <<bucket, objects>>

(* The bucket has been made by another goroutine meanwhile, or the request  *)
(* or its answer is lost.                                                   *)
MakeBucketFails(g) ==
    /\ At(g, "make")
    /\ bucket' \in {bucket, TRUE}
    /\ CaptureError(g)
    /\ UNCHANGED objects

Answer(g, answer) ==
    uploader' = [uploader EXCEPT ![g].pc = "return", ![g].answer = answer]

(* What the request does to the bucket. *)
Effect(g) ==
    CASE Operation(g) = "Put" -> objects \cup {File(g)}
      [] Operation(g) = "Remove" -> objects \ {File(g)}
      [] OTHER -> objects

PutOrRemoveObject(g) ==
    /\ At(g, "object")
    /\ Operation(g) \in {"Put", "Remove"}
    /\ objects' = Effect(g)
    /\ Answer(g, "ok")
    /\ UNCHANGED bucket

(* GetObject only makes an object to read from. *)
GetObject(g) ==
    /\ At(g, "object")
    /\ Operation(g) = "Get"
    /\ uploader' = [uploader EXCEPT ![g].pc = "copy"]
    /\ UNCHANGED <<bucket, objects>>

(* Mutant: the failure of a Put or Remove is logged, not returned. *)
ObjectFails_Logged(g) ==
    /\ At(g, "object")
    /\ objects' \in {objects, Effect(g)}
    /\ Answer(g, "ok")
    /\ UNCHANGED bucket

ObjectFails(g) ==
    /\ At(g, "object")
    /\ objects' \in {objects, Effect(g)}
    /\ CaptureError(g)
    /\ UNCHANGED bucket

(* io.Copy; its error does not go through captureError. *)
Copy(g) ==
    /\ At(g, "copy")
    /\ \/ File(g) \in objects /\ Answer(g, "ok")
       \/ Answer(g, "error")
    /\ UNCHANGED <<bucket, objects>>

(* The deferred finish of the operation's span, and the caller has its      *)
(* answer.                                                                  *)
Return(g) ==
    /\ At(g, "return")
    /\ uploader' = [uploader EXCEPT
            ![g].pc = "idle", ![g].call = <<>>, ![g].answer = "none",
            ![g].open = @ \ {Operation(g)}]
    /\ UNCHANGED <<bucket, objects>>

(* Somebody up the stack recovers. *)
Recovered(g) ==
    /\ At(g, "panicked")
    /\ uploader' = [uploader EXCEPT ![g].pc = "idle"]
    /\ UNCHANGED <<bucket, objects>>
-----------------------------------------------------------------------------
(***************************************************************************)
(* The process dies, by the Fatalf of an option of another type or by      *)
(* anything else, and is started again.                                    *)
(***************************************************************************)
Dies ==
    /\ uploader' = [g \in Goroutines |-> New]
    /\ UNCHANGED <<bucket, objects>>

(* Mutant: a loop where the code has a recursion. *)
Overflows_Loops(g) == At(g, "captureError") /\ UNCHANGED vars

(* The stack overflow of captureError cannot be recovered from. *)
Overflows(g) == At(g, "captureError") /\ Dies
-----------------------------------------------------------------------------
Setter(g) ==
    SetPutOption(g) \/ SetOtherOption(g) \/ Monitor(g) \/ StartAgain(g)

Starts(g) ==
    CallPanics(g) \/ \E op \in Operations, file \in Files : Call(g, op, file)

Advances(g) ==
    \/ BucketExists(g) \/ BucketExistsFails(g) \/ MakeBucket(g) \/ MakeBucketFails(g)
    \/ PutOrRemoveObject(g) \/ GetObject(g) \/ ObjectFails(g) \/ Copy(g)
    \/ Return(g)

Next ==
    \/ \E g \in Goroutines :
        \/ Setter(g) \/ Starts(g) \/ Advances(g) \/ Recovered(g) \/ Overflows(g)
    \/ Dies

(* MinIO's client ends every request in time, with an answer or an error;   *)
(* the stack is finite.                                                     *)
Fairness ==
    \A g \in Goroutines : WF_vars(Advances(g) \/ Recovered(g) \/ Overflows(g))

Spec == Init /\ [][Next]_vars /\ Fairness
-----------------------------------------------------------------------------
(***************************************************************************)
(* Properties.                                                             *)
(***************************************************************************)

(* bucketCheck has let an operation through only to a bucket that exists,   *)
(* whoever has made it.                                                     *)
BucketIsThere ==
    \A g \in Goroutines : uploader[g].pc \in {"object", "copy", "return"} => bucket

(* Each deferred finish ends the span it was deferred for, and together     *)
(* they end them all: a goroutine between calls has left no span open,      *)
(* whatever the answer and whether bucketCheck made the bucket or not.      *)
SpansFinished == \A g \in Goroutines : At(g, "idle") => uploader[g].open = {}

(* Every call ends: with its answer, or with the process.                   *)
CallEnds == \A g \in Goroutines : ~At(g, "idle") ~> At(g, "idle")

(* What a caller of the uploader sees. *)
Seen(g) ==
    CASE uploader[g].pc \in {"idle", "panicked"} -> "idle"
      [] uploader[g].pc = "captureError" -> "lost"
      [] uploader[g].pc = "return" ->
            (IF uploader[g].answer = "ok" THEN "done" ELSE "refused")
      [] OTHER -> "asked"

Store == INSTANCE FileStore WITH
    files <- objects,
    request <- [g \in Goroutines |-> [state |-> Seen(g), call |-> uploader[g].call]]

(* The uploader implements the file store: a nil means that the file is     *)
(* stored, read or removed, and an error of anything but Get never comes    *)
(* back.                                                                    *)
ImplementsFileStore == Store!Spec
=============================================================================
