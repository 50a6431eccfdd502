---------------------------- MODULE RemoveProofs ----------------------------
(***************************************************************************)
(* Proofs about RemoveByPattern, for any set of keys and any number of     *)
(* goroutines.                                                             *)
(*                                                                         *)
(* The WaitGroup counts the goroutines that run.  The append to `failed`   *)
(* may lose keys, but not all of them: every goroutine has a key to add,   *)
(* so that from the first failure on `failed` is not empty, or somebody is *)
(* about to append to it.                                                  *)
(***************************************************************************)
EXTENDS RedisRemove, FiniteSetTheorems, TLAPS

Running == {w \in Workers : worker[w] # "none"}

(* The WaitGroup, and what a goroutine has to delete. *)
Counted == wg = Cardinality(Running) /\ \A w \in Running : batch[w] # {}

(* How far the caller is. *)
CallerIs ==
    /\ pc # "returned" <=> result = "none"
    /\ pc = "spawn" => page # {}
    /\ pc = "wait" \/ result \in {"ok", "cannot delete"} => keys \cap FirstPage = {}

(* What is known of failures. *)
Appending == {w \in Workers : worker[w] \in {"read", "write"}}
Recorded ==
    /\ failed # {} \/ Appending # {} \/ (\E w \in Workers : seen[w] # {}) => anyFailed
    /\ anyFailed => failed # {} \/ Appending # {}

(* After a call that has waited. *)
Joined == result \in {"ok", "cannot delete"} =>
    Running = {} /\ (anyFailed <=> result = "cannot delete")

IInv == TypeOK /\ Counted /\ CallerIs /\ Recorded /\ Joined

(* Goroutines are finitely many.                                            *)
LEMMA GoroutinesAreFinite ==
  ASSUME NEW S \in SUBSET Workers
  PROVE  IsFiniteSet(S) /\ Cardinality(S) \in 0 .. Cardinality(Workers)
<1>1. /\ IsFiniteSet(S) /\ Cardinality(S) <= Cardinality(Workers)
      /\ Cardinality(Workers) \in Nat
  BY RemoveAssumption, FS_Subset, FS_CardinalityType
<1>2. Cardinality(S) \in Nat
  BY <1>1, FS_CardinalityType
<1> QED BY <1>1, <1>2

(* Those that run are.                                                      *)
LEMMA RunningIsFinite ==
  IsFiniteSet(Running) /\ Cardinality(Running) \in 0 .. Cardinality(Workers)
  BY GoroutinesAreFinite DEF Running

(* Nothing has started.                                                     *)
LEMMA InitIInv == Init => IInv
<1> SUFFICES ASSUME Init PROVE IInv
  OBVIOUS
<1>1. Running = {} /\ Appending = {}
  BY DEF Init, Running, Appending
<1>2. Counted
  BY <1>1, FS_EmptySet DEF Init, Counted
<1>3. wg \in 0 .. Cardinality(Workers)
  BY <1>2, RunningIsFinite DEF Counted
<1> QED BY <1>1, <1>2, <1>3 DEF Init, IInv, TypeOK, CallerIs, Recorded, Joined

(* A goroutine that goes from one stage to the next stays counted.          *)
LEMMA StillCounted ==
  ASSUME IInv, NEW w \in Running, NEW stage \in {"del", "read", "write", "done"},
         Becomes(w, stage), UNCHANGED <<wg, batch>>
  PROVE  Counted' /\ Running' = Running
<1>1. Running' = Running
  BY DEF IInv, TypeOK, Becomes, Running
<1> QED BY <1>1 DEF IInv, Counted

(* A call that has waited has left nobody running.                          *)
LEMMA NobodyRuns ==
  ASSUME IInv, NEW w \in Running PROVE result \notin {"ok", "cannot delete"}
  BY DEF IInv, Joined

(* Every step keeps the invariant.                                          *)
LEMMA NextIInv == IInv /\ [Next]_vars => IInv'
<1> SUFFICES ASSUME IInv, [Next]_vars PROVE IInv'
  OBVIOUS
<1>0. TypeOK /\ Counted /\ CallerIs /\ Recorded /\ Joined
  BY DEF IInv
<1>1. CASE UNCHANGED vars
  BY <1>0, <1>1
  DEF vars, IInv, TypeOK, Counted, Running, CallerIs, Recorded, Appending, Joined
<1>2. CASE Scan
  <2>1. page' \in SUBSET FirstPage /\ pc' \in {"scan", "spawn", "wait", "returned"}
    BY <1>2 DEF Scan
  <2>2. TypeOK'
    BY <1>0, <1>2, <2>1 DEF Scan, TypeOK
  <2>3. Counted' /\ Recorded' /\ Joined'
    BY <1>0, <1>2 DEF Scan, Counted, Running, Recorded, Appending, Joined
  <2>4. CallerIs'
    BY <1>0, <1>2 DEF Scan, CallerIs
  <2> QED BY <2>2, <2>3, <2>4 DEF IInv
<1>3. CASE ScanFails
  BY <1>0, <1>3
  DEF ScanFails, IInv, TypeOK, Counted, Running, CallerIs, Recorded, Appending, Joined
<1>4. CASE Spawn
  <2> PICK w \in Workers :
        /\ pc = "spawn" /\ worker[w] = "none" /\ wg' = wg + 1
        /\ worker' = [worker EXCEPT ![w] = "del"]
        /\ batch' = [batch EXCEPT ![w] = page]
        /\ pc' = "scan"
        /\ UNCHANGED <<keys, page, seen, failed, anyFailed, result>>
    BY <1>4 DEF Spawn
  <2>1. Running' = Running \cup {w} /\ w \notin Running
    BY <1>0 DEF TypeOK, Running
  <2>2. wg' = Cardinality(Running')
    BY <1>0, <2>1, RunningIsFinite, FS_AddElement DEF Counted
  <2>3. \A q \in Running' : batch'[q] # {}
    BY <1>0, <2>1 DEF Counted, CallerIs, TypeOK, Running
  <2>4. Appending' = Appending
    BY <1>0 DEF TypeOK, Appending
  <2>5. TypeOK'
    <3>1. page \in SUBSET FirstPage /\ Running' \in SUBSET Workers
      BY <1>0, <2>1 DEF TypeOK, Running
    <3>2. wg' \in 0 .. Cardinality(Workers)
      BY <2>2, <3>1, GoroutinesAreFinite
    <3>3. batch' \in [Workers -> SUBSET FirstPage]
      BY <1>0, <3>1 DEF TypeOK
    <3>4. worker' \in [Workers -> {"none", "del", "read", "write", "done"}]
      BY <1>0 DEF TypeOK
    <3> QED BY <1>0, <3>2, <3>3, <3>4 DEF TypeOK
  <2>6. Recorded'
    BY <1>0, <2>4 DEF Recorded
  <2>7. CallerIs' /\ Joined'
    BY <1>0 DEF CallerIs, Joined
  <2> QED BY <2>2, <2>3, <2>5, <2>6, <2>7 DEF IInv, Counted
<1>5. CASE Wait
  <2>1. Running = {}
    BY <1>0, <1>5, RunningIsFinite, FS_EmptySet DEF Wait, Counted
  <2>2. Appending = {}
    BY <2>1 DEF Running, Appending
  <2>3. result' = Outcome /\ pc' = "returned" /\ pc = "wait"
        /\ UNCHANGED <<keys, page, worker, batch, seen, wg, failed, anyFailed>>
    BY <1>5 DEF Wait
  <2>4. result' \in {"ok", "cannot delete"} /\ (anyFailed <=> result' = "cannot delete")
    BY <1>0, <2>2, <2>3 DEF Outcome, Recorded
  <2>5. TypeOK'
    BY <1>0, <2>3, <2>4 DEF TypeOK
  <2>6. Counted' /\ Recorded' /\ Running' = {}
    BY <1>0, <2>1, <2>3 DEF Counted, Running, Recorded, Appending
  <2>7. CallerIs'
    BY <1>0, <2>3, <2>4 DEF CallerIs
  <2> QED BY <2>3, <2>4, <2>5, <2>6, <2>7 DEF IInv, Joined
<1>6. ASSUME NEW w \in Workers, Del(w) PROVE IInv'
  <2>1. w \in Running /\ Becomes(w, "done")
    BY <1>6 DEF Del, Running
  <2>2. Counted'
    BY <1>6, <2>1, StillCounted DEF Del
  <2>3. TypeOK'
    BY <1>0, <1>6 DEF Del, Becomes, TypeOK
  <2>4. Appending' = Appending
    BY <1>0, <1>6 DEF Del, Becomes, TypeOK, Appending
  <2>5. Recorded'
    BY <1>0, <1>6, <2>4 DEF Del, Recorded
  <2>6. CallerIs' /\ Joined'
    BY <1>0, <1>6, <2>1, NobodyRuns DEF Del, CallerIs, Joined
  <2> QED BY <2>2, <2>3, <2>5, <2>6 DEF IInv
<1>7. ASSUME NEW w \in Workers, DelFails(w) PROVE IInv'
  <2>1. w \in Running /\ Becomes(w, "read")
    BY <1>7 DEF DelFails, Running
  <2>2. Counted'
    BY <1>7, <2>1, StillCounted DEF DelFails
  <2>3. TypeOK'
    BY <1>0, <1>7 DEF DelFails, Becomes, TypeOK
  <2>4. w \in Appending'
    BY <1>0, <2>1 DEF Becomes, TypeOK, Appending
  <2>5. Recorded'
    BY <1>7, <2>4 DEF DelFails, Recorded
  <2>6. CallerIs' /\ Joined'
    BY <1>0, <1>7, <2>1, NobodyRuns DEF DelFails, CallerIs, Joined
  <2> QED BY <2>2, <2>3, <2>5, <2>6 DEF IInv
<1>8. ASSUME NEW w \in Workers, ReadFailed(w) PROVE IInv'
  <2>1. w \in Running /\ w \in Appending /\ Becomes(w, "write")
    BY <1>8 DEF ReadFailed, Running, Appending
  <2>2. Counted'
    BY <1>8, <2>1, StillCounted DEF ReadFailed
  <2>3. TypeOK'
    BY <1>0, <1>8 DEF ReadFailed, Becomes, TypeOK
  <2>4. w \in Appending'
    BY <1>0, <2>1 DEF Becomes, TypeOK, Appending
  <2>5. Recorded'
    BY <1>0, <1>8, <2>1, <2>4 DEF ReadFailed, Recorded
  <2>6. CallerIs' /\ Joined'
    BY <1>0, <1>8, <2>1, NobodyRuns DEF ReadFailed, CallerIs, Joined
  <2> QED BY <2>2, <2>3, <2>5, <2>6 DEF IInv
<1>9. ASSUME NEW w \in Workers, WriteFailed(w) PROVE IInv'
  <2>1. w \in Running /\ w \in Appending /\ Becomes(w, "done")
    BY <1>9 DEF WriteFailed, Running, Appending
  <2>2. Counted'
    BY <1>9, <2>1, StillCounted DEF WriteFailed
  <2>3. TypeOK'
    BY <1>0, <1>9 DEF WriteFailed, Becomes, TypeOK
  <2>4. failed' # {} /\ anyFailed /\ anyFailed' = anyFailed
    BY <1>0, <1>9, <2>1 DEF WriteFailed, Counted, Recorded
  <2>5. Recorded'
    BY <2>4 DEF Recorded
  <2>6. CallerIs' /\ Joined'
    BY <1>0, <1>9, <2>1, NobodyRuns DEF WriteFailed, CallerIs, Joined
  <2> QED BY <2>2, <2>3, <2>5, <2>6 DEF IInv
<1>10. ASSUME NEW w \in Workers, Done(w) PROVE IInv'
  <2>1. w \in Running /\ Becomes(w, "none")
    BY <1>10 DEF Done, Running
  <2>2. Running' = Running \ {w}
    BY <1>0, <2>1 DEF Becomes, TypeOK, Running
  <2>3. wg' = Cardinality(Running')
    BY <1>0, <1>10, <2>1, <2>2, RunningIsFinite, FS_RemoveElement DEF Done, Counted
  <2>4. wg' \in 0 .. Cardinality(Workers)
    <3>1. Running' \in SUBSET Workers
      BY <2>2 DEF Running
    <3> QED BY <2>3, <3>1, GoroutinesAreFinite
  <2>5. \A q \in Running' : batch'[q] # {}
    BY <1>0, <1>10, <2>2 DEF Done, Counted, TypeOK, Running
  <2>6. TypeOK'
    BY <1>0, <1>10, <2>4 DEF Done, Becomes, TypeOK
  <2>7. Appending' = Appending
    BY <1>0, <1>10 DEF Done, Becomes, TypeOK, Appending
  <2>8. \A q \in Workers : seen'[q] # {} => seen[q] # {}
    BY <1>0, <1>10 DEF Done, TypeOK
  <2>9. Recorded'
    BY <1>0, <1>10, <2>7, <2>8 DEF Done, Recorded
  <2>10. CallerIs' /\ Joined'
    BY <1>0, <1>10, <2>1, NobodyRuns DEF Done, CallerIs, Joined
  <2> QED BY <2>3, <2>5, <2>6, <2>9, <2>10 DEF IInv, Counted
<1> QED
  BY <1>1, <1>2, <1>3, <1>4, <1>5, <1>6, <1>7, <1>8, <1>9, <1>10
  DEF Next, Caller, Goroutine

(* The invariant of the call and its goroutines holds.                      *)
THEOREM Invariance == Spec => []IInv
  BY InitIInv, NextIInv, PTL DEF Spec

(* The call, its goroutines and their slices keep their types; the counter  *)
(* of the WaitGroup is never negative, which would panic, and never above   *)
(* the number of goroutines.                                                *)
THEOREM TypeCorrect == Spec => []TypeOK
  BY Invariance, PTL DEF IInv

(* Whatever the racing appends lose, a failed DEL is reported.              *)
THEOREM FailuresReported == Spec => []FailureIsReported
<1>1. IInv => FailureIsReported
  BY DEF IInv, Joined, FailureIsReported
<1> QED BY <1>1, Invariance, PTL

(* A call that has scanned to its end has waited for all its goroutines.    *)
THEOREM NoneOutlivesTheCall == Spec => []GoroutinesJoined
<1>1. IInv => GoroutinesJoined
  BY DEF IInv, Joined, Running, GoroutinesJoined
<1> QED BY <1>1, Invariance, PTL

(* And it has left no key of the first page.                                *)
THEOREM FirstPageIsDeleted == Spec => []NothingLeft
<1>1. IInv => NothingLeft
  BY DEF IInv, CallerIs, NothingLeft
<1> QED BY <1>1, Invariance, PTL
=============================================================================
