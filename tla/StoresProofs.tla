---------------------------- MODULE StoresProofs ----------------------------
(***************************************************************************)
(* Proofs about a process that uses the uploader and the document store,   *)
(* for any number of goroutines, files and documents: the uploader is a    *)
(* file store to its callers, from callbacks of a Find, too, and neither   *)
(* store leaves open what the other's panic or the process's death ends.   *)
(*                                                                         *)
(* Each store has an invariant of its own, which says of the record of a   *)
(* goroutine how the stage of its call goes together with the rest.  Both  *)
(* are kept by the steps of Stores, which couple the two: what an upload's *)
(* panic does to the Find around it, and the death of the process to both. *)
(***************************************************************************)
EXTENDS Stores, TLAPS

-----------------------------------------------------------------------------
(***************************************************************************)
(* The uploader.  The refinement needs to know how a call's stage and its  *)
(* operation go together: only a Get copies and answers with an error, and *)
(* a goroutine without a call remembers none.                              *)
(***************************************************************************)
Stages == {"check", "make", "object", "copy", "return", "captureError"}

Upload ==
    [isMonitor : BOOLEAN, monitor : BOOLEAN,
     pc : {"idle", "panicked"} \cup Stages,
     call : Uploader!Calls,
     open : SUBSET ({"BucketExists", "MakeBucket"} \cup Uploader!Operations),
     answer : {"none", "ok", "error"}]

(* The record u of a goroutine, when the bucket exists or not. *)
GoodUpload(u, there) ==
    /\ u \in Upload
    /\ u.pc \in {"object", "copy", "return"} => there
    /\ u.pc \in {"idle", "panicked"} => u.call = <<>> /\ u.open = {}
    /\ u.pc \in Stages => u.call \in Uploader!Operations \X Files
    /\ u.pc = "copy" => u.call[1] = "Get"
    /\ u.pc = "return" => u.answer = "ok" \/ u.call[1] = "Get"
    /\ u.pc \in {"check", "make"} => u.open \subseteq {"BucketExists", "MakeBucket"}
    /\ u.pc \in {"object", "copy", "return"} => u.open \subseteq {u.call[1]}

UploadIInv ==
    /\ bucket \in BOOLEAN
    /\ objects \in SUBSET Files
    /\ uploader \in [Goroutines -> Upload]
    /\ \A g \in Goroutines : GoodUpload(uploader[g], bucket)

(* What callers see of a record, and of all of them. *)
SeenIn(u) ==
    CASE u.pc \in {"idle", "panicked"} -> "idle"
      [] u.pc = "captureError" -> "lost"
      [] u.pc = "return" -> (IF u.answer = "ok" THEN "done" ELSE "refused")
      [] OTHER -> "asked"

Request ==
    [g \in Goroutines |-> [state |-> Uploader!Seen(g), call |-> uploader[g].call]]

(* A step of the file store, or none that callers see. *)
FileStep == [Uploader!Store!Next]_(Uploader!Store!vars)

(* The handle NewMinioUploader returned.                                    *)
LEMMA NewUploadIsGood ==
  ASSUME NEW there \in BOOLEAN
  PROVE  /\ GoodUpload(Uploader!New, there)
         /\ SeenIn(Uploader!New) = "idle" /\ Uploader!New.call = <<>>
<1>1. <<>> \in Uploader!Calls
  BY DEF Uploader!Calls
<1>2. Uploader!New \in Upload
  BY <1>1 DEF Uploader!New, Upload
<1> QED BY <1>2 DEF Uploader!New, GoodUpload, Stages, SeenIn

(* There is no bucket at first, and no call.                                *)
LEMMA UploadInit == Uploader!Init => UploadIInv /\ Uploader!Store!Init
<1> SUFFICES ASSUME Uploader!Init PROVE UploadIInv /\ Uploader!Store!Init
  OBVIOUS
<1>1. bucket \in BOOLEAN /\ objects = {}
  BY DEF Uploader!Init
<1>2. \A g \in Goroutines :
        /\ GoodUpload(uploader[g], bucket) /\ uploader[g] \in Upload
        /\ Uploader!Seen(g) = "idle" /\ uploader[g].call = <<>>
  BY <1>1, NewUploadIsGood DEF Uploader!Init, GoodUpload, SeenIn, Uploader!Seen
<1>3. UploadIInv
  BY <1>1, <1>2 DEF UploadIInv, Uploader!Init
<1> QED BY <1>1, <1>2, <1>3 DEF Uploader!Store!Init, Uploader!Store!Idle

(* The request of one goroutine.                                            *)
LEMMA RequestOf ==
  ASSUME NEW g \in Goroutines
  PROVE  Request[g] = [state |-> SeenIn(uploader[g]), call |-> uploader[g].call]
  BY DEF Request, Uploader!Seen, SeenIn

(* A step of one goroutine, which may make the bucket, is one of its        *)
(* request.                                                                 *)
LEMMA UploadStep ==
  ASSUME UploadIInv, NEW g \in Goroutines, NEW u, uploader' = [uploader EXCEPT ![g] = u],
         bucket' \in {bucket, TRUE}, objects' \in SUBSET Files, GoodUpload(u, bucket')
  PROVE  /\ UploadIInv'
         /\ Request' = [Request EXCEPT ![g] = [state |-> SeenIn(u), call |-> u.call]]
<1>1. bucket' \in BOOLEAN /\ uploader' \in [Goroutines -> Upload]
  BY DEF UploadIInv, GoodUpload
<1>2. \A q \in Goroutines \ {g} :
        uploader'[q] = uploader[q] /\ GoodUpload(uploader[q], bucket')
  BY DEF UploadIInv, GoodUpload
<1>3. uploader'[g] = u
  BY DEF UploadIInv
<1>4. UploadIInv'
  BY <1>1, <1>2, <1>3 DEF UploadIInv
<1>5. /\ Uploader!Seen(g)' = SeenIn(u)
      /\ \A q \in Goroutines \ {g} : Uploader!Seen(q)' = Uploader!Seen(q)
  BY <1>2, <1>3 DEF Uploader!Seen, SeenIn
<1>6. Request' = [Request EXCEPT ![g] = [state |-> SeenIn(u), call |-> u.call]]
  BY <1>2, <1>3, <1>5 DEF Request
<1> QED BY <1>4, <1>6

(* Callers do not see the record of g change.                               *)
LEMMA UploadStutters ==
  ASSUME UploadIInv, NEW g \in Goroutines, NEW u, uploader' = [uploader EXCEPT ![g] = u],
         bucket' \in {bucket, TRUE}, objects' = objects, GoodUpload(u, bucket'),
         u.call = uploader[g].call, SeenIn(u) = SeenIn(uploader[g])
  PROVE  UploadIInv' /\ FileStep
<1>1. objects' \in SUBSET Files
  BY DEF UploadIInv
<1>2. /\ UploadIInv'
      /\ Request' = [Request EXCEPT ![g] = [state |-> SeenIn(u), call |-> u.call]]
  BY <1>1, UploadStep
<1>3. Request' = Request
  BY <1>2, RequestOf DEF Request
<1> QED BY <1>2, <1>3 DEF FileStep, Uploader!Store!vars, Request

(* The process starts again: every goroutine is as at first.                *)
LEMMA UploadDies == ASSUME UploadIInv, Uploader!Dies PROVE UploadIInv' /\ FileStep
<1>1. \A g \in Goroutines :
        /\ GoodUpload(uploader'[g], bucket') /\ uploader'[g] \in Upload
        /\ Uploader!Seen(g)' = "idle" /\ uploader'[g].call = <<>>
  BY NewUploadIsGood DEF UploadIInv, Uploader!Dies, GoodUpload, SeenIn, Uploader!Seen
<1>2. UploadIInv'
  BY <1>1 DEF UploadIInv, Uploader!Dies
<1>3. Uploader!Store!Die
  BY <1>1 DEF Uploader!Dies, Uploader!Store!Die, Uploader!Store!Idle
<1> QED BY <1>2, <1>3 DEF FileStep, Uploader!Store!Next

(* Steps that callers do not see: the setters, bucketCheck, a call that      *)
(* panics, and the object of a Get.                                         *)
LEMMA UnseenUploadSteps ==
  ASSUME UploadIInv, NEW g \in Goroutines,
         \/ Uploader!Setter(g) \/ Uploader!CallPanics(g) \/ Uploader!BucketExists(g)
         \/ Uploader!MakeBucket(g) \/ Uploader!GetObject(g) \/ Uploader!Recovered(g)
  PROVE  UploadIInv' /\ FileStep
<1> DEFINE w == uploader[g]
<1>1. w \in Upload /\ GoodUpload(w, bucket) /\ bucket \in BOOLEAN
  BY DEF UploadIInv
<1> USE DEF Stages
<1>2. CASE Uploader!SetPutOption(g)
  <2> DEFINE u == [w EXCEPT !.isMonitor = FALSE]
  <2>1. /\ uploader' = [uploader EXCEPT ![g] = u]
        /\ bucket' \in {bucket, TRUE} /\ objects' = objects
    BY <1>1, <1>2 DEF Uploader!SetPutOption, UploadIInv, Upload
  <2>2. GoodUpload(u, bucket') /\ u.call = w.call /\ SeenIn(u) = SeenIn(w)
    BY <1>1, <1>2, <2>1 DEF Uploader!SetPutOption, Uploader!At, GoodUpload, Upload,
           SeenIn
  <2> HIDE DEF u
  <2> QED BY <2>1, <2>2, UploadStutters
<1>3. CASE Uploader!SetOtherOption(g)
  <2> DEFINE u == [w EXCEPT !.isMonitor = TRUE]
  <2>1. /\ uploader' = [uploader EXCEPT ![g] = u]
        /\ bucket' \in {bucket, TRUE} /\ objects' = objects
    BY <1>1, <1>3 DEF Uploader!SetOtherOption, UploadIInv, Upload
  <2>2. GoodUpload(u, bucket') /\ u.call = w.call /\ SeenIn(u) = SeenIn(w)
    BY <1>1, <1>3, <2>1 DEF Uploader!SetOtherOption, Uploader!At, GoodUpload, Upload,
           SeenIn
  <2> HIDE DEF u
  <2> QED BY <2>1, <2>2, UploadStutters
<1>4. CASE Uploader!Monitor(g)
  <2> DEFINE u == [w EXCEPT !.isMonitor = TRUE, !.monitor = TRUE]
  <2>1. /\ uploader' = [uploader EXCEPT ![g] = u]
        /\ bucket' \in {bucket, TRUE} /\ objects' = objects
    BY <1>1, <1>4 DEF Uploader!Monitor, UploadIInv, Upload
  <2>2. GoodUpload(u, bucket') /\ u.call = w.call /\ SeenIn(u) = SeenIn(w)
    BY <1>1, <1>4, <2>1 DEF Uploader!Monitor, Uploader!At, GoodUpload, Upload, SeenIn
  <2> HIDE DEF u
  <2> QED BY <2>1, <2>2, UploadStutters
<1>5. CASE Uploader!CallPanics(g)
  <2> DEFINE u == [w EXCEPT !.pc = "panicked"]
  <2>1. /\ uploader' = [uploader EXCEPT ![g] = u]
        /\ bucket' \in {bucket, TRUE} /\ objects' = objects
    BY <1>1, <1>5 DEF Uploader!CallPanics, UploadIInv, Upload
  <2>2. GoodUpload(u, bucket') /\ u.call = w.call /\ SeenIn(u) = SeenIn(w)
    BY <1>1, <1>5, <2>1 DEF Uploader!CallPanics, Uploader!At, GoodUpload, Upload,
           SeenIn
  <2> HIDE DEF u
  <2> QED BY <2>1, <2>2, UploadStutters
<1>6. CASE Uploader!BucketExists(g) /\ bucket
  <2> DEFINE u == [w EXCEPT !.pc = "object",
                            !.open = (w.open \ {"BucketExists", "MakeBucket"}) \cup
                                (IF w.isMonitor THEN {w.call[1]} ELSE {})]
  <2>1. /\ uploader' = [uploader EXCEPT ![g] = u]
        /\ bucket' \in {bucket, TRUE} /\ objects' = objects
    BY <1>1, <1>6 DEF Uploader!BucketExists, Uploader!Checked, Uploader!Operation,
           UploadIInv, Upload
  <2>2. GoodUpload(u, bucket') /\ u.call = w.call /\ SeenIn(u) = SeenIn(w)
    BY <1>1, <1>6, <2>1 DEF Uploader!BucketExists, Uploader!Checked,
           Uploader!Operation, Uploader!At, GoodUpload, Upload, SeenIn
  <2> HIDE DEF u
  <2> QED BY <2>1, <2>2, UploadStutters
<1>7. CASE Uploader!BucketExists(g) /\ ~bucket
  <2> DEFINE u == [w EXCEPT !.pc = "make",
                            !.open = IF w.isMonitor THEN w.open \cup {"MakeBucket"}
                                     ELSE w.open]
  <2>1. /\ uploader' = [uploader EXCEPT ![g] = u]
        /\ bucket' \in {bucket, TRUE} /\ objects' = objects
    BY <1>1, <1>7 DEF Uploader!BucketExists, Uploader!WithSpan, UploadIInv, Upload
  <2>2. GoodUpload(u, bucket') /\ u.call = w.call /\ SeenIn(u) = SeenIn(w)
    BY <1>1, <1>7, <2>1 DEF Uploader!BucketExists, Uploader!WithSpan, Uploader!At,
           GoodUpload, Upload, SeenIn
  <2> HIDE DEF u
  <2> QED BY <2>1, <2>2, UploadStutters
<1>8. CASE Uploader!MakeBucket(g)
  <2> DEFINE u == [w EXCEPT !.pc = "object",
                            !.open = (w.open \ {"BucketExists", "MakeBucket"}) \cup
                                (IF w.isMonitor THEN {w.call[1]} ELSE {})]
  <2>1. /\ uploader' = [uploader EXCEPT ![g] = u]
        /\ bucket' \in {bucket, TRUE} /\ objects' = objects
    BY <1>1, <1>8 DEF Uploader!MakeBucket, Uploader!Checked, Uploader!Operation,
           UploadIInv, Upload
  <2>2. GoodUpload(u, bucket') /\ u.call = w.call /\ SeenIn(u) = SeenIn(w)
    BY <1>1, <1>8, <2>1 DEF Uploader!MakeBucket, Uploader!Checked, Uploader!Operation,
           Uploader!At, GoodUpload, Upload, SeenIn
  <2> HIDE DEF u
  <2> QED BY <2>1, <2>2, UploadStutters
<1>9. CASE Uploader!GetObject(g)
  <2> DEFINE u == [w EXCEPT !.pc = "copy"]
  <2>1. /\ uploader' = [uploader EXCEPT ![g] = u]
        /\ bucket' \in {bucket, TRUE} /\ objects' = objects
    BY <1>1, <1>9 DEF Uploader!GetObject, Uploader!Operation, UploadIInv, Upload
  <2>2. GoodUpload(u, bucket') /\ u.call = w.call /\ SeenIn(u) = SeenIn(w)
    BY <1>1, <1>9, <2>1 DEF Uploader!GetObject, Uploader!Operation, Uploader!At,
           GoodUpload, Upload, SeenIn
  <2> HIDE DEF u
  <2> QED BY <2>1, <2>2, UploadStutters
<1>10. CASE Uploader!Recovered(g)
  <2> DEFINE u == [w EXCEPT !.pc = "idle"]
  <2>1. /\ uploader' = [uploader EXCEPT ![g] = u]
        /\ bucket' \in {bucket, TRUE} /\ objects' = objects
    BY <1>1, <1>10 DEF Uploader!Recovered, UploadIInv, Upload
  <2>2. GoodUpload(u, bucket') /\ u.call = w.call /\ SeenIn(u) = SeenIn(w)
    BY <1>1, <1>10, <2>1 DEF Uploader!Recovered, Uploader!At, GoodUpload, Upload,
           SeenIn
  <2> HIDE DEF u
  <2> QED BY <2>1, <2>2, UploadStutters
<1>11. CASE Uploader!StartAgain(g)
  <2> DEFINE u == Uploader!New
  <2>1. /\ uploader' = [uploader EXCEPT ![g] = u]
        /\ bucket' \in {bucket, TRUE} /\ objects' = objects
    BY <1>11 DEF Uploader!StartAgain
  <2>2. GoodUpload(u, bucket') /\ u.call = w.call /\ SeenIn(u) = SeenIn(w)
    BY <1>1, <1>11, NewUploadIsGood
    DEF Uploader!StartAgain, Uploader!At, GoodUpload, SeenIn
  <2> HIDE DEF u
  <2> QED BY <2>1, <2>2, UploadStutters
<1> QED
  BY <1>2, <1>3, <1>4, <1>5, <1>6, <1>7, <1>8, <1>9, <1>10, <1>11
  DEF Uploader!Setter

(* A call starts.                                                           *)
LEMMA CallAsks ==
  ASSUME UploadIInv, NEW g \in Goroutines, NEW op \in Uploader!Operations,
         NEW file \in Files, Uploader!Call(g, op, file)
  PROVE  UploadIInv' /\ Uploader!Store!Ask(g, op, file)
<1> DEFINE w == uploader[g]
           u == [w EXCEPT !.pc = "check", !.call = <<op, file>>,
                          !.open = IF w.isMonitor THEN w.open \cup {"BucketExists"}
                                   ELSE w.open]
<1>1. w \in Upload /\ GoodUpload(w, bucket)
  BY DEF UploadIInv
<1>2. /\ uploader' = [uploader EXCEPT ![g] = u] /\ UNCHANGED <<bucket, objects>>
      /\ bucket' \in {bucket, TRUE} /\ objects' \in SUBSET Files
  BY <1>1 DEF Uploader!Call, Uploader!WithSpan, UploadIInv, Upload
<1>3. GoodUpload(u, bucket') /\ SeenIn(u) = "asked" /\ u.call = <<op, file>>
  BY <1>1, <1>2
  DEF Uploader!Call, Uploader!At, Upload, Stages, Uploader!Calls, GoodUpload, SeenIn
<1>4. SeenIn(w) = "idle" /\ w.call = <<>>
  BY <1>1 DEF Uploader!Call, Uploader!At, GoodUpload, SeenIn
<1> HIDE DEF u
<1>5. /\ UploadIInv'
      /\ Request' = [Request EXCEPT ![g] = [state |-> "asked", call |-> <<op, file>>]]
  BY <1>2, <1>3, UploadStep
<1>6. Request[g] = [state |-> "idle", call |-> <<>>]
  BY <1>4, RequestOf
<1> QED BY <1>2, <1>5, <1>6 DEF Uploader!Store!Ask, Uploader!Store!Idle, Request

(* What a request does to the objects leaves files of this bucket, and is   *)
(* what the file store says.                                                *)
LEMMA EffectOfCall ==
  ASSUME UploadIInv, NEW g \in Goroutines, uploader[g].pc \in Stages
  PROVE  /\ Uploader!Effect(g) \in SUBSET Files
         /\ Uploader!Effect(g) = Uploader!Store!Effect(g)
<1>1. uploader[g].call \in Uploader!Operations \X Files
  BY DEF UploadIInv, GoodUpload
<1>2. Uploader!File(g) \in Files
  BY <1>1 DEF Uploader!File
<1>3. Uploader!Effect(g) \in SUBSET Files
  BY <1>2 DEF Uploader!Effect, UploadIInv
<1>4. Request[g].call = uploader[g].call
  BY DEF Request
<1> QED
  BY <1>3, <1>4 DEF Uploader!Effect, Uploader!Store!Effect, Uploader!Operation,
                    Uploader!File, Request

(* MinIO has carried out a request, and its answer has come.                *)
LEMMA SuccessDoes ==
  ASSUME UploadIInv, NEW g \in Goroutines, UNCHANGED bucket, Uploader!Answer(g, "ok"),
         \/ /\ Uploader!At(g, "object") /\ Uploader!Operation(g) \in {"Put", "Remove"}
            /\ objects' = Uploader!Effect(g)
         \/ /\ Uploader!At(g, "copy") /\ Uploader!File(g) \in objects
            /\ UNCHANGED objects
  PROVE  UploadIInv' /\ Uploader!Store!Do(g)
<1> DEFINE w == uploader[g]
           u == [w EXCEPT !.pc = "return", !.answer = "ok"]
<1>1. w \in Upload /\ GoodUpload(w, bucket) /\ w.pc \in Stages
  BY DEF UploadIInv, Stages, Uploader!At
<1>2. /\ Uploader!Effect(g) \in SUBSET Files
      /\ Uploader!Effect(g) = Uploader!Store!Effect(g)
  BY <1>1, EffectOfCall
<1>3. uploader' = [uploader EXCEPT ![g] = u] /\ bucket' \in {bucket, TRUE}
      /\ objects' \in SUBSET Files
  BY <1>1, <1>2 DEF Uploader!Answer, UploadIInv, Upload
<1>4. GoodUpload(u, bucket') /\ SeenIn(u) = "done" /\ u.call = w.call
  BY <1>1 DEF Upload, Stages, GoodUpload, Uploader!At, SeenIn
<1>5. SeenIn(w) = "asked" /\ (Uploader!At(g, "copy") => w.call[1] = "Get")
  BY <1>1 DEF Uploader!At, GoodUpload, SeenIn
<1>6. /\ w.call[1] = "Get" => w.call[2] \in objects
      /\ objects' = Uploader!Effect(g)
  BY <1>5 DEF Uploader!Effect, Uploader!Operation, Uploader!File, Uploader!At
<1> HIDE DEF u
<1>7. /\ UploadIInv'
      /\ Request' = [Request EXCEPT ![g] = [state |-> "done", call |-> w.call]]
  BY <1>3, <1>4, UploadStep
<1>8. Request[g] = [state |-> "asked", call |-> w.call]
  BY <1>5, RequestOf
<1> HIDE DEF w
<1>9. Request' = [Request EXCEPT ![g].state = "done"]
  BY <1>7, <1>8 DEF Request
<1> QED
  BY <1>2, <1>6, <1>7, <1>8, <1>9 DEF Uploader!Store!Do, Uploader!Store!Becomes, Request

(* io.Copy returns its error.                                               *)
LEMMA CopyRefuses ==
  ASSUME UploadIInv, NEW g \in Goroutines, Uploader!At(g, "copy"),
         Uploader!Answer(g, "error"), UNCHANGED <<bucket, objects>>
  PROVE  UploadIInv' /\ Uploader!Store!Refuse(g)
<1> DEFINE w == uploader[g]
           u == [w EXCEPT !.pc = "return", !.answer = "error"]
<1>1. w \in Upload /\ GoodUpload(w, bucket)
  BY DEF UploadIInv
<1>2. uploader' = [uploader EXCEPT ![g] = u] /\ bucket' \in {bucket, TRUE}
      /\ objects' \in SUBSET Files
  BY <1>1 DEF Uploader!Answer, UploadIInv, Upload
<1>3. GoodUpload(u, bucket') /\ SeenIn(u) = "refused" /\ u.call = w.call
  BY <1>1 DEF Upload, Stages, GoodUpload, Uploader!At, SeenIn
<1>4. SeenIn(w) = "asked" /\ w.call[1] = "Get"
  BY <1>1 DEF Uploader!At, SeenIn, GoodUpload
<1> HIDE DEF u
<1>5. /\ UploadIInv'
      /\ Request' = [Request EXCEPT ![g] = [state |-> "refused", call |-> w.call]]
  BY <1>2, <1>3, UploadStep
<1>6. Request[g] = [state |-> "asked", call |-> w.call]
  BY <1>4, RequestOf
<1> HIDE DEF w
<1>7. Request' = [Request EXCEPT ![g].state = "refused"]
  BY <1>5, <1>6 DEF Request
<1> QED
  BY <1>2, <1>4, <1>5, <1>6, <1>7
  DEF Uploader!Store!Refuse, Uploader!Store!Becomes, Request

(* Entering captureError is losing the call, before or after its effect.    *)
LEMMA FailureLoses ==
  ASSUME UploadIInv, NEW g \in Goroutines, Uploader!CaptureError(g),
         uploader[g].pc \in {"check", "make", "object"},
         bucket' \in {bucket, TRUE}, objects' \in {objects, Uploader!Effect(g)}
  PROVE  UploadIInv' /\ Uploader!Store!Lose(g)
<1> DEFINE w == uploader[g]
           u == [w EXCEPT !.pc = "captureError"]
<1>1. w \in Upload /\ GoodUpload(w, bucket) /\ w.pc \in Stages
  BY DEF UploadIInv, Stages
<1>2. /\ Uploader!Effect(g) \in SUBSET Files
      /\ Uploader!Effect(g) = Uploader!Store!Effect(g)
  BY <1>1, EffectOfCall
<1>3. uploader' = [uploader EXCEPT ![g] = u] /\ objects' \in SUBSET Files
  BY <1>1, <1>2 DEF Uploader!CaptureError, UploadIInv, Upload
<1>4. GoodUpload(u, bucket') /\ SeenIn(u) = "lost" /\ u.call = w.call
  BY <1>1 DEF Upload, Stages, GoodUpload, SeenIn
<1>5. SeenIn(w) = "asked"
  BY DEF SeenIn
<1> HIDE DEF u
<1>6. /\ UploadIInv'
      /\ Request' = [Request EXCEPT ![g] = [state |-> "lost", call |-> w.call]]
  BY <1>3, <1>4, UploadStep
<1>7. Request[g] = [state |-> "asked", call |-> w.call]
  BY <1>5, RequestOf
<1> HIDE DEF w
<1>8. Request' = [Request EXCEPT ![g].state = "lost"]
  BY <1>6, <1>7 DEF Request
<1> QED BY <1>2, <1>6, <1>7, <1>8 DEF Uploader!Store!Lose, Uploader!Store!Becomes, Request

(* The caller has its answer.                                               *)
LEMMA ReturnAnswers ==
  ASSUME UploadIInv, NEW g \in Goroutines, Uploader!Return(g)
  PROVE  UploadIInv' /\ Uploader!Store!Answer(g)
<1> DEFINE w == uploader[g]
           u == [w EXCEPT !.pc = "idle", !.call = <<>>, !.answer = "none",
                          !.open = w.open \ {w.call[1]}]
<1>1. w \in Upload /\ GoodUpload(w, bucket)
  BY DEF UploadIInv
<1>2. /\ uploader' = [uploader EXCEPT ![g] = u] /\ UNCHANGED <<bucket, objects>>
      /\ bucket' \in {bucket, TRUE} /\ objects' \in SUBSET Files
  BY <1>1 DEF Uploader!Return, Uploader!Operation, UploadIInv, Upload
<1>3. w.open \ {w.call[1]} = {}
  BY <1>1 DEF Uploader!Return, Uploader!At, GoodUpload
<1>4. GoodUpload(u, bucket') /\ SeenIn(u) = "idle" /\ u.call = <<>>
  BY <1>1, <1>2, <1>3 DEF Upload, Stages, SeenIn, GoodUpload, Uploader!Calls
<1>5. SeenIn(w) \in {"done", "refused"}
  BY <1>1 DEF Uploader!Return, Uploader!At, SeenIn
<1> HIDE DEF u
<1>6. /\ UploadIInv'
      /\ Request' = [Request EXCEPT ![g] = [state |-> "idle", call |-> <<>>]]
  BY <1>2, <1>4, UploadStep
<1>7. Request[g] = [state |-> SeenIn(w), call |-> w.call]
  BY RequestOf
<1> HIDE DEF w
<1> QED BY <1>2, <1>5, <1>6, <1>7 DEF Uploader!Store!Answer, Uploader!Store!Idle, Request

(* Every step of the uploader keeps the invariant and is a step of the file *)
(* store, or none.                                                          *)
LEMMA UploadNext ==
  ASSUME UploadIInv, [Uploader!Next]_(Uploader!vars) PROVE UploadIInv' /\ FileStep
<1>0. CASE UNCHANGED Uploader!vars
  <2>1. \A g \in Goroutines : Uploader!Seen(g)' = Uploader!Seen(g)
    BY <1>0 DEF Uploader!vars, Uploader!Seen
  <2>2. UploadIInv'
    BY <1>0 DEF Uploader!vars, UploadIInv, GoodUpload
  <2> QED BY <1>0, <2>1, <2>2 DEF Uploader!vars, FileStep, Uploader!Store!vars
<1>1. CASE Uploader!Dies
  BY <1>1, UploadDies
<1> SUFFICES ASSUME NEW g \in Goroutines,
                    \/ Uploader!Setter(g) \/ Uploader!Starts(g) \/ Uploader!Advances(g)
                    \/ Uploader!Recovered(g) \/ Uploader!Overflows(g)
             PROVE  UploadIInv' /\ FileStep
  BY <1>0, <1>1 DEF Uploader!Next
<1>2. CASE \/ Uploader!Setter(g) \/ Uploader!CallPanics(g) \/ Uploader!BucketExists(g)
           \/ Uploader!MakeBucket(g) \/ Uploader!GetObject(g) \/ Uploader!Recovered(g)
  BY <1>2, UnseenUploadSteps
<1>3. ASSUME NEW op \in Uploader!Operations, NEW file \in Files,
             Uploader!Call(g, op, file)
      PROVE  UploadIInv' /\ FileStep
  BY <1>3, CallAsks
  DEF FileStep, Uploader!Store!Next, Uploader!Store!Operations, Uploader!Operations
<1>4. CASE Uploader!PutOrRemoveObject(g)
  BY <1>4, SuccessDoes DEF Uploader!PutOrRemoveObject, FileStep, Uploader!Store!Next
<1>5. CASE Uploader!Copy(g)
  <2>1. CASE Uploader!File(g) \in objects /\ Uploader!Answer(g, "ok")
    BY <1>5, <2>1, SuccessDoes DEF Uploader!Copy, FileStep, Uploader!Store!Next
  <2>2. CASE Uploader!Answer(g, "error")
    BY <1>5, <2>2, CopyRefuses DEF Uploader!Copy, FileStep, Uploader!Store!Next
  <2> QED BY <1>5, <2>1, <2>2 DEF Uploader!Copy
<1>6. CASE Uploader!BucketExistsFails(g) \/ Uploader!MakeBucketFails(g)
           \/ Uploader!ObjectFails(g)
  <2>1. UploadIInv' /\ Uploader!Store!Lose(g)
    BY <1>6, FailureLoses DEF Uploader!BucketExistsFails, Uploader!MakeBucketFails,
                              Uploader!ObjectFails, Uploader!At
  <2> QED BY <2>1 DEF FileStep, Uploader!Store!Next
<1>7. CASE Uploader!Return(g)
  BY <1>7, ReturnAnswers DEF FileStep, Uploader!Store!Next
<1>8. CASE Uploader!Overflows(g)
  BY <1>8, UploadDies DEF Uploader!Overflows
<1> QED BY <1>2, <1>3, <1>4, <1>5, <1>6, <1>7, <1>8 DEF Uploader!Starts, Uploader!Advances

-----------------------------------------------------------------------------
(***************************************************************************)
(* The document store.  A query has at most its own span open, its cursor  *)
(* only as long as its callback runs, and whatever a command has done is   *)
(* in its answer.                                                          *)
(***************************************************************************)
Handle ==
    [isMonitor : BOOLEAN, collection : BOOLEAN,
     pc : {"idle", "command", "callback", "return", "panicked"},
     op : {"none"} \cup Database!Queries,
     docs : SUBSET Documents, done : SUBSET Documents,
     open : SUBSET Database!Queries,
     cursor : {"none", "open", "closed", "left"},
     answer : {"none", "ok", "error", "unknown"}]

(* What the answer to op tells of the documents it has done. *)
Told(op, docs, answer, done) ==
    op \in Database!Inserts \cup {"FindOneAndDelete"} =>
        /\ answer = "ok" => done = docs
        /\ answer = "error" /\ (op \in Database!Inserts => docs \cap OwnIds = {})
              => done # docs

(* The record m of a goroutine. *)
GoodQuery(m) ==
    /\ m \in Handle
    /\ m.pc \in {"idle", "panicked"} => m.open = {}
    /\ m.pc \in {"command", "callback", "return"} => m.open \subseteq {m.op}
    /\ m.pc = "callback" => m.op = "Find"
    /\ m.cursor = "open" => m.pc = "callback"
    /\ m.pc = "return" => Told(m.op, m.docs, m.answer, m.done)

QueryIInv ==
    /\ exists \in BOOLEAN
    /\ documents \in SUBSET Documents
    /\ mongo \in [Goroutines -> Handle]
    /\ \A g \in Goroutines : GoodQuery(mongo[g])

(* The handle NewMongoConnection returned.                                  *)
LEMMA NewQueryIsGood == GoodQuery(Database!New)
  BY DEF GoodQuery, Handle, Database!New

(* The database is empty at first, and nobody queries it.                   *)
LEMMA QueryInit == Database!Init => QueryIInv
  BY NewQueryIsGood DEF Database!Init, QueryIInv, GoodQuery

(* A step of one goroutine.                                                 *)
LEMMA QueryStep ==
  ASSUME QueryIInv, NEW g \in Goroutines, NEW m, mongo' = [mongo EXCEPT ![g] = m],
         exists' \in BOOLEAN, documents' \in SUBSET Documents, GoodQuery(m)
  PROVE  QueryIInv'
<1>1. mongo' \in [Goroutines -> Handle]
  BY DEF QueryIInv, GoodQuery
<1>2. mongo'[g] = m /\ \A q \in Goroutines \ {g} : mongo'[q] = mongo[q]
  BY DEF QueryIInv
<1> QED BY <1>1, <1>2 DEF QueryIInv

(* The process starts again.                                                *)
LEMMA QueryDies == ASSUME QueryIInv, Database!Dies PROVE QueryIInv'
<1>1. \A g \in Goroutines : GoodQuery(mongo'[g]) /\ mongo'[g] \in Handle
  BY NewQueryIsGood DEF Database!Dies, GoodQuery
<1> QED BY <1>1 DEF QueryIInv, Database!Dies

(* What a query is about are documents.                                     *)
LEMMA AboutDocuments ==
  ASSUME NEW op \in Database!Queries, NEW docs \in Database!About(op)
  PROVE  docs \in SUBSET Documents
  BY DEF Database!About, Database!Queries, Database!Inserts

(* A command is answered, in accordance with what it has done.              *)
LEMMA AnswerIsGood ==
  ASSUME QueryIInv, NEW g \in Goroutines, Database!At(g, "command"),
         NEW answer \in {"ok", "error", "unknown"}, NEW done \in SUBSET Documents,
         Database!Answer(g, answer, done),
         exists' \in BOOLEAN, documents' \in SUBSET Documents,
         Told(mongo[g].op, mongo[g].docs, answer, done)
  PROVE  QueryIInv'
<1> DEFINE w == mongo[g]
           m == [w EXCEPT !.pc = "return", !.answer = answer, !.done = done]
<1>1. w \in Handle /\ GoodQuery(w)
  BY DEF QueryIInv
<1>2. mongo' = [mongo EXCEPT ![g] = m]
  BY <1>1 DEF Database!Answer, QueryIInv, Handle
<1>3. GoodQuery(m)
  BY <1>1 DEF Database!At, GoodQuery, Handle
<1> HIDE DEF m
<1> QED BY <1>2, <1>3, QueryStep

(* Each command's answer tells its effect.                                  *)
LEMMA CommandIsGood ==
  ASSUME QueryIInv, NEW g \in Goroutines, Database!Commands(g)
  PROVE  QueryIInv'
<1> DEFINE op == mongo[g].op
           docs == mongo[g].docs
<1>1. /\ mongo[g] \in Handle /\ GoodQuery(mongo[g])
      /\ docs \in SUBSET Documents /\ docs \cap documents \in SUBSET Documents
      /\ exists \in BOOLEAN /\ documents \in SUBSET Documents
      /\ \A more \in SUBSET docs : documents \cup more \in SUBSET Documents
      /\ documents \ docs \in SUBSET Documents
      /\ \A b \in BOOLEAN : (exists \/ b) \in BOOLEAN
  BY DEF QueryIInv, Handle
<1> USE DEF Database!Operation, Database!Docs
<1>2. CASE Database!Insert(g)
  <2>1. Told(op, docs, Database!CastAnswer(g), docs)
    BY <1>2 DEF Told, Database!Insert, Database!CastAnswer
  <2>2. Database!CastAnswer(g) \in {"ok", "error", "unknown"}
    BY DEF Database!CastAnswer
  <2>3. documents' \in SUBSET Documents /\ exists' \in BOOLEAN
    BY <1>1, <1>2 DEF Database!Insert
  <2> QED BY <1>1, <1>2, <2>1, <2>2, <2>3, AnswerIsGood DEF Database!Insert
<1>3. CASE Database!InsertRefused(g)
  <2>1. PICK done \in (SUBSET (docs \ documents)) \ {docs} :
          /\ documents' = documents \cup done /\ exists' = (exists \/ done # {})
          /\ Database!Answer(g, "error", done)
    BY <1>3 DEF Database!InsertRefused
  <2>2. Told(op, docs, "error", done) /\ done \in SUBSET Documents
    BY <1>1 DEF Told
  <2>3. documents' \in SUBSET Documents /\ exists' \in BOOLEAN
    BY <1>1, <2>1
  <2> QED BY <1>3, <2>1, <2>2, <2>3, AnswerIsGood DEF Database!InsertRefused
<1>4. CASE Database!Update(g) \/ Database!FindOneAndUpdate(g)
  <2>1. op \in {"Update", "FindOneAndUpdate"} /\ Database!At(g, "command")
        /\ \E answer \in {"ok", "error"} : Database!Answer(g, answer, {})
    BY <1>4 DEF Database!Update, Database!FindOneAndUpdate
  <2>2. documents' \in SUBSET Documents /\ exists' \in BOOLEAN
    BY <1>1, <1>4 DEF Database!Update, Database!FindOneAndUpdate
  <2>3. \A answer : Told(op, docs, answer, {})
    BY <2>1 DEF Told, Database!Inserts
  <2> QED BY <2>1, <2>2, <2>3, AnswerIsGood
<1>5. CASE Database!Delete(g)
  <2>1. /\ Told(op, docs, "ok", {})
        /\ Database!At(g, "command") /\ Database!Answer(g, "ok", {})
    BY <1>5 DEF Told, Database!Inserts, Database!Delete
  <2>2. documents' \in SUBSET Documents /\ exists' \in BOOLEAN
    BY <1>1, <1>5 DEF Database!Delete
  <2> QED BY <2>1, <2>2, AnswerIsGood
<1>6. CASE Database!FindOneAndDelete(g)
  <2> DEFINE answer == IF docs \subseteq documents THEN "ok" ELSE "error"
  <2>1. /\ Told(op, docs, answer, docs \cap documents)
        /\ answer \in {"ok", "error", "unknown"}
    BY <1>1, <1>6 DEF Told, Database!FindOneAndDelete, Database!Inserts
  <2>2. /\ documents' \in SUBSET Documents /\ exists' \in BOOLEAN
        /\ Database!At(g, "command") /\ Database!Answer(g, answer, docs \cap documents)
    BY <1>1, <1>6 DEF Database!FindOneAndDelete
  <2> HIDE DEF answer
  <2> QED BY <1>1, <2>1, <2>2, AnswerIsGood
<1>7. CASE Database!Read(g)
  <2>1. /\ \A answer : Told(op, docs, answer, {})
        /\ Database!At(g, "command")
        /\ exists' \in BOOLEAN /\ documents' \in SUBSET Documents
        /\ \E answer \in {"ok", "error"} : Database!Answer(g, answer, {})
    BY <1>1, <1>7 DEF Told, Database!Read, Database!Inserts
  <2> QED BY <2>1, AnswerIsGood
<1>8. CASE Database!Fails(g)
  <2>1. documents' \in SUBSET Documents /\ exists' \in BOOLEAN
    BY <1>1, <1>8 DEF Database!Fails, Database!Possible
  <2>2. Told(op, docs, "unknown", {}) /\ Database!At(g, "command")
        /\ Database!Answer(g, "unknown", {})
    BY <1>8 DEF Told, Database!Fails
  <2> QED BY <2>1, <2>2, AnswerIsGood
<1>9. CASE Database!CallBack(g)
  <2> DEFINE m == [mongo[g] EXCEPT !.pc = "callback", !.cursor = "open"]
  <2>1. /\ mongo' = [mongo EXCEPT ![g] = m]
        /\ exists' \in BOOLEAN /\ documents' \in SUBSET Documents
    BY <1>1, <1>9 DEF Database!CallBack, QueryIInv, Handle
  <2>2. GoodQuery(m)
    BY <1>1, <1>9 DEF Database!CallBack, Database!At, GoodQuery, Handle
  <2> HIDE DEF m
  <2> QED BY <2>1, <2>2, QueryStep
<1> QED
  BY <1>2, <1>3, <1>4, <1>5, <1>6, <1>7, <1>8, <1>9 DEF Database!Commands

(* Every step of the document store keeps the invariant.                    *)
LEMMA QueryNext ==
  ASSUME QueryIInv, [Database!Next]_(Database!vars) PROVE QueryIInv'
<1>0. CASE UNCHANGED Database!vars
  BY <1>0 DEF Database!vars, QueryIInv
<1>1. CASE Database!Dies
  BY <1>1, QueryDies
<1> SUFFICES ASSUME NEW g \in Goroutines,
                    \/ Database!Setter(g) \/ Database!Starts(g) \/ Database!Commands(g)
                    \/ Database!CallbackReturns(g) \/ Database!CallbackPanics(g)
                    \/ Database!Return(g) \/ Database!Recovered(g)
             PROVE  QueryIInv'
  BY <1>0, <1>1 DEF Database!Next
<1> DEFINE w == mongo[g]
<1>2. /\ w \in Handle /\ GoodQuery(w)
      /\ exists \in BOOLEAN /\ documents \in SUBSET Documents
  BY DEF QueryIInv
<1>3. CASE Database!SetCollection(g)
  <2> DEFINE m == [w EXCEPT !.collection = TRUE, !.isMonitor = FALSE]
  <2>1. mongo' = [mongo EXCEPT ![g] = m] /\ exists' = exists /\ documents' = documents
    BY <1>2, <1>3 DEF Database!SetCollection, QueryIInv, Handle
  <2>2. GoodQuery(m)
    BY <1>2, <1>3 DEF Database!SetCollection, Database!At, GoodQuery, Handle
  <2> HIDE DEF m
  <2> QED BY <1>2, <2>1, <2>2, QueryStep
<1>4. CASE Database!Monitor(g)
  <2> DEFINE m == [w EXCEPT !.isMonitor = TRUE]
  <2>1. mongo' = [mongo EXCEPT ![g] = m] /\ exists' = exists /\ documents' = documents
    BY <1>2, <1>4 DEF Database!Monitor, QueryIInv, Handle
  <2>2. GoodQuery(m)
    BY <1>2, <1>4 DEF Database!Monitor, Database!At, GoodQuery, Handle
  <2> HIDE DEF m
  <2> QED BY <1>2, <2>1, <2>2, QueryStep
<1>5. CASE Database!QueryPanics(g)
  <2> DEFINE m == [w EXCEPT !.pc = "panicked"]
  <2>1. mongo' = [mongo EXCEPT ![g] = m] /\ exists' = exists /\ documents' = documents
    BY <1>2, <1>5 DEF Database!QueryPanics, QueryIInv, Handle
  <2>2. GoodQuery(m)
    BY <1>2, <1>5 DEF Database!QueryPanics, Database!At, GoodQuery, Handle
  <2> HIDE DEF m
  <2> QED BY <1>2, <2>1, <2>2, QueryStep
<1>6. ASSUME NEW cursor \in Database!Closed, Database!At(g, "callback"),
             mongo' = [mongo EXCEPT ![g].pc = "panicked", ![g].cursor = cursor,
                                    ![g].open = @ \ {Database!Operation(g)}],
             UNCHANGED <<exists, documents>>
      PROVE  QueryIInv'
  <2> DEFINE m == [w EXCEPT !.pc = "panicked", !.cursor = cursor,
                            !.open = w.open \ {w.op}]
  <2>1. mongo' = [mongo EXCEPT ![g] = m]
    BY <1>2, <1>6 DEF Database!Operation, QueryIInv, Handle
  <2>2. w.open \ {w.op} = {}
    BY <1>2, <1>6 DEF Database!At, GoodQuery
  <2>3. GoodQuery(m)
    BY <1>2, <1>6, <2>2 DEF Database!Closed, Database!At, GoodQuery, Handle
  <2> HIDE DEF m
  <2> QED BY <1>2, <1>6, <2>1, <2>3, QueryStep
<1>7. CASE Database!Return(g)
  <2> DEFINE m == [w EXCEPT !.pc = "idle", !.op = "none", !.docs = {}, !.done = {},
                            !.cursor = "none", !.answer = "none",
                            !.open = w.open \ {w.op}]
  <2>1. mongo' = [mongo EXCEPT ![g] = m] /\ exists' = exists /\ documents' = documents
    BY <1>2, <1>7 DEF Database!Return, Database!Operation, QueryIInv, Handle
  <2>2. w.open \ {w.op} = {}
    BY <1>2, <1>7 DEF Database!Return, Database!At, GoodQuery
  <2>3. GoodQuery(m)
    BY <1>2, <1>7, <2>2 DEF Database!Return, Database!At, GoodQuery, Handle
  <2> HIDE DEF m
  <2> QED BY <1>2, <2>1, <2>3, QueryStep
<1>8. CASE Database!Recovered(g)
  <2> DEFINE m == [w EXCEPT !.pc = "idle", !.op = "none", !.docs = {}, !.cursor = "none"]
  <2>1. mongo' = [mongo EXCEPT ![g] = m] /\ exists' = exists /\ documents' = documents
    BY <1>2, <1>8 DEF Database!Recovered, QueryIInv, Handle
  <2>2. GoodQuery(m)
    BY <1>2, <1>8 DEF Database!Recovered, Database!At, GoodQuery, Handle
  <2> HIDE DEF m
  <2> QED BY <1>2, <2>1, <2>2, QueryStep
<1>9. CASE Database!StartAgain(g)
  BY <1>2, <1>9, NewQueryIsGood, QueryStep DEF Database!StartAgain
<1>10. ASSUME NEW op \in Database!Queries, NEW docs \in Database!About(op),
              Database!Query(g, op, docs)
       PROVE  QueryIInv'
  <2> DEFINE m == [w EXCEPT !.pc = "command", !.op = op, !.docs = docs,
                            !.open = IF w.isMonitor THEN w.open \cup {op} ELSE w.open]
  <2>1. mongo' = [mongo EXCEPT ![g] = m] /\ exists' = exists /\ documents' = documents
    BY <1>2, <1>10 DEF Database!Query, QueryIInv, Handle
  <2>2. GoodQuery(m)
    BY <1>2, <1>10, AboutDocuments DEF Database!Query, Database!At, GoodQuery, Handle
  <2> HIDE DEF m
  <2> QED BY <1>2, <2>1, <2>2, QueryStep
<1>11. ASSUME NEW answer \in {"ok", "error"}, NEW cursor \in Database!Closed,
              Database!At(g, "callback"),
              mongo' = [mongo EXCEPT ![g].pc = "return", ![g].cursor = cursor,
                                     ![g].answer = answer],
              UNCHANGED <<exists, documents>>
       PROVE  QueryIInv'
  <2> DEFINE m == [w EXCEPT !.pc = "return", !.cursor = cursor, !.answer = answer]
  <2>1. mongo' = [mongo EXCEPT ![g] = m]
    BY <1>2, <1>11 DEF QueryIInv, Handle
  <2>2. GoodQuery(m)
    BY <1>2, <1>11 DEF Database!Closed, Database!At, GoodQuery, Handle, Told,
           Database!Inserts
  <2> HIDE DEF m
  <2> QED BY <1>2, <1>11, <2>1, <2>2, QueryStep
<1>12. CASE Database!CallbackReturns(g)
  BY <1>11, <1>12 DEF Database!CallbackReturns
<1>13. CASE Database!CallbackPanics(g)
  BY <1>6, <1>13 DEF Database!CallbackPanics
<1>14. CASE Database!Drop(g) \/ Database!CreateCollection(g)
  BY <1>14 DEF Database!Drop, Database!CreateCollection, QueryIInv
<1>15. CASE Database!Commands(g)
  BY <1>15, CommandIsGood
<1> QED
  BY <1>3, <1>4, <1>5, <1>7, <1>8, <1>9, <1>10, <1>12, <1>13, <1>14, <1>15
  DEF Database!Setter, Database!Starts

-----------------------------------------------------------------------------
(***************************************************************************)
(* The process.                                                            *)
(***************************************************************************)
IInv == UploadIInv /\ QueryIInv

(* Neither store is in use.                                                 *)
LEMMA InitIInv == Init => IInv /\ Uploader!Store!Init
  BY UploadInit, QueryInit DEF Init, IInv

(* An upload's panic goes through the Find around it, if there is one.      *)
LEMMA PanicPasses ==
  ASSUME IInv, NEW g \in Goroutines, UploadPanics(g) PROVE IInv' /\ FileStep
<1>1. uploader[g] \in Upload /\ GoodUpload(uploader[g], bucket) /\ bucket \in BOOLEAN
  BY DEF IInv, UploadIInv
<1>2. /\ uploader' = [uploader EXCEPT ![g] = Uploader!New]
      /\ bucket' = bucket /\ objects' = objects /\ uploader[g].pc = "panicked"
  BY DEF UploadPanics
<1>3. /\ GoodUpload(Uploader!New, bucket') /\ Uploader!New.call = uploader[g].call
      /\ SeenIn(Uploader!New) = SeenIn(uploader[g])
  BY <1>1, <1>2, NewUploadIsGood DEF GoodUpload, SeenIn
<1>4. UploadIInv' /\ FileStep
  BY <1>2, <1>3, UploadStutters DEF IInv
<1>5. [Database!Next]_(Database!vars)
  BY DEF UploadPanics, databaseVars, Database!vars, Database!Next
<1> QED BY <1>4, <1>5, QueryNext DEF IInv

(* Every step of the process keeps both invariants, and is a step of the    *)
(* file store or none.                                                      *)
LEMMA NextIInv == ASSUME IInv, [Next]_vars PROVE IInv' /\ FileStep
<1>1. ASSUME [Uploader!Next]_(Uploader!vars), [Database!Next]_(Database!vars)
      PROVE  IInv' /\ FileStep
  BY <1>1, UploadNext, QueryNext DEF IInv
<1> USE DEF uploaderVars, databaseVars, Uploader!vars, Database!vars
<1>2. CASE UNCHANGED vars
  BY <1>1, <1>2 DEF vars
<1>3. CASE ProcessDies
  BY <1>1, <1>3 DEF ProcessDies, Uploader!Next, Database!Next
<1>4. ASSUME NEW g \in Goroutines, UploadStarts(g) \/ UploadAdvances(g)
      PROVE  IInv' /\ FileStep
  BY <1>1, <1>4 DEF UploadStarts, UploadAdvances, Uploader!Next
<1>5. ASSUME NEW g \in Goroutines, QueryStarts(g) \/ QueryAdvances(g)
      PROVE  IInv' /\ FileStep
  BY <1>1, <1>5 DEF QueryStarts, QueryAdvances, Database!Next
<1>6. ASSUME NEW g \in Goroutines, Overflows(g) PROVE IInv' /\ FileStep
  BY <1>1, <1>6 DEF Overflows, Uploader!Next, Database!Next
<1> QED BY <1>2, <1>3, <1>4, <1>5, <1>6, PanicPasses DEF Next

(* What the invariant of the uploader says.                                 *)
LEMMA UploadImplies ==
  UploadIInv => /\ Uploader!TypeOK /\ Uploader!BucketIsThere
                /\ Uploader!SpansFinished
  BY DEF UploadIInv, GoodUpload, Upload, Stages, Uploader!TypeOK, Uploader!BucketIsThere,
         Uploader!SpansFinished, Uploader!At

(* What the invariant of the document store says.                           *)
LEMMA QueryImplies ==
  QueryIInv => /\ Database!TypeOK /\ Database!CloseIsTried /\ Database!SpansFinished
               /\ Database!AnswerTellsEffect
<1> USE DEF Database!At, Database!Operation, Database!Docs
<1>1. QueryIInv => Database!TypeOK
  BY DEF QueryIInv, Handle, Database!TypeOK
<1>2. QueryIInv => Database!CloseIsTried /\ Database!SpansFinished
  BY DEF QueryIInv, GoodQuery, Database!CloseIsTried, Database!SpansFinished
<1>3. QueryIInv => Database!AnswerTellsEffect
  BY DEF QueryIInv, GoodQuery, Told, Database!AnswerTellsEffect
<1> QED BY <1>1, <1>2, <1>3

(* The invariants of both stores hold in the process.                       *)
THEOREM Invariance == Spec => []IInv
<1>1. IInv /\ [Next]_vars => IInv'
  BY NextIInv
<1> QED BY <1>1, InitIInv, PTL DEF Spec

(* Type correctness of both stores.                                         *)
THEOREM TypeCorrect == Spec => []TypeOK
<1>1. IInv => TypeOK
  BY UploadImplies, QueryImplies DEF IInv, TypeOK
<1> QED BY <1>1, Invariance, PTL

(* No operation goes to a bucket that is not there, however many goroutines *)
(* make it at once.                                                         *)
THEOREM BucketExistsForOperations == Spec => []BucketIsThere
<1>1. IInv => BucketIsThere
  BY UploadImplies DEF IInv, BucketIsThere
<1> QED BY <1>1, Invariance, PTL

(* No span outlives its call, and no cursor its callback without a Close    *)
(* having been tried, though an upload's panic be what ended the Find.  A   *)
(* Close that fails leaves the cursor on the server: that is excepted.      *)
THEOREM NothingStaysOpen == Spec => []NothingLeftOpen
<1>1. IInv => NothingLeftOpen
  BY UploadImplies, QueryImplies DEF IInv, NothingLeftOpen
<1> QED BY <1>1, Invariance, PTL

(* Inserts of any number of documents and FindOneAndDelete answer what they *)
(* have done, whatever others do to the documents meanwhile.                *)
THEOREM AnswersTellEffects == Spec => []AnswerTellsEffect
<1>1. IInv => AnswerTellsEffect
  BY QueryImplies DEF IInv, AnswerTellsEffect
<1> QED BY <1>1, Invariance, PTL

(* To its callers the uploader is a file store, from callbacks, too:        *)
(* whatever is answered has taken effect, once, between the call and its    *)
(* answer.                                                                  *)
THEOREM UploaderIsFileStore == Spec => ImplementsFileStore
<1>1. IInv /\ [Next]_vars => FileStep
  BY NextIInv
<1> QED
  BY <1>1, InitIInv, Invariance, PTL
  DEF Spec, FileStep, ImplementsFileStore, Uploader!ImplementsFileStore,
      Uploader!Store!Spec

(* So it is on its own, where its panics are recovered in place.            *)
THEOREM UploaderAlone ==
  Uploader!Spec => /\ Uploader!ImplementsFileStore
                   /\ [](Uploader!BucketIsThere /\ Uploader!SpansFinished)
<1>1. UploadIInv /\ [Uploader!Next]_(Uploader!vars) => UploadIInv' /\ FileStep
  BY UploadNext
<1>2. UploadIInv => Uploader!BucketIsThere /\ Uploader!SpansFinished
  BY UploadImplies
<1> QED
  BY <1>1, <1>2, UploadInit, PTL
  DEF FileStep, Uploader!Spec, Uploader!ImplementsFileStore, Uploader!Store!Spec
=============================================================================
