---------------------------- MODULE RedisRemove ----------------------------
(***************************************************************************)
(* RemoveByPattern of cache/implementations/redis/goredis/redis.go.        *)
(*                                                                         *)
(* The caller scans, always from cursor 0, and starts a goroutine that     *)
(* deletes what the page holds, until a page is empty; then it waits for   *)
(* the goroutines and reports the keys whose deletion failed.  A goroutine *)
(* appends to the shared slice `failed` without a lock, so the append is a *)
(* read and a write of the slice.                                          *)
(***************************************************************************)
EXTENDS Naturals, FiniteSets

CONSTANTS
    Keys,       \* keys that match the pattern when the call starts
    FirstPage,  \* those in the page SCAN 0 returns (COUNT maxDelPerOperation)
    Workers     \* bound: goroutines that have not ended

ASSUME RemoveAssumption == FirstPage \subseteq Keys /\ IsFiniteSet(Workers)

VARIABLES
    keys,       \* keys that match the pattern
    pc,         \* the caller: scanning, spawning, waiting or back
    page,       \* keys of the last page
    worker,     \* worker[w]: what the goroutine in slot w does next
    batch,      \* batch[w]: its keys
    seen,       \* seen[w]: the slice it has read to append to
    wg,         \* the counter of the WaitGroup
    failed,     \* the keys in `failed`
    anyFailed,  \* whether some DEL has failed
    result      \* what the call returns

vars == <<keys, pc, page, worker, batch, seen, wg, failed, anyFailed, result>>

TypeOK ==
    /\ keys \in SUBSET Keys
    /\ pc \in {"scan", "spawn", "wait", "returned"}
    /\ page \in SUBSET FirstPage
    /\ worker \in [Workers -> {"none", "del", "read", "write", "done"}]
    /\ batch \in [Workers -> SUBSET FirstPage]
    /\ seen \in [Workers -> SUBSET FirstPage]
    /\ wg \in 0 .. Cardinality(Workers)
    /\ failed \in SUBSET FirstPage
    /\ anyFailed \in BOOLEAN
    /\ result \in {"none", "ok", "scan failed", "cannot delete"}

Init ==
    /\ keys = Keys
    /\ pc = "scan"
    /\ page = {}
    /\ worker = [w \in Workers |-> "none"]
    /\ batch = [w \in Workers |-> {}]
    /\ seen = [w \in Workers |-> {}]
    /\ wg = 0
    /\ failed = {}
    /\ anyFailed = FALSE
    /\ result = "none"
-----------------------------------------------------------------------------
(***************************************************************************)
(* The caller.                                                             *)
(***************************************************************************)

(* Mutant: `failed` is declared inside the loop. *)
Scan_ForgetsFailed ==
    /\ pc = "scan"
    /\ page' = keys \cap FirstPage
    /\ pc' = IF page' = {} THEN "wait" ELSE "spawn"
    /\ failed' = {}
    /\ UNCHANGED <<keys, worker, batch, seen, wg, anyFailed, result>>

(* An empty page ends the loop, whatever the cursor says. *)
Scan ==
    /\ pc = "scan"
    /\ page' = keys \cap FirstPage
    /\ pc' = IF page' = {} THEN "wait" ELSE "spawn"
    /\ UNCHANGED <<keys, worker, batch, seen, wg, failed, anyFailed, result>>

(* The call returns at once; its goroutines go on. *)
ScanFails ==
    /\ pc = "scan"
    /\ pc' = "returned"
    /\ result' = "scan failed"
    /\ UNCHANGED <<keys, page, worker, batch, seen, wg, failed, anyFailed>>

(* Mutant: wg.Add is forgotten. *)
Spawn_NoAdd ==
    \E w \in Workers :
        /\ pc = "spawn"
        /\ worker[w] = "none"
        /\ worker' = [worker EXCEPT ![w] = "del"]
        /\ batch' = [batch EXCEPT ![w] = page]
        /\ pc' = "scan"
        /\ UNCHANGED <<keys, page, seen, wg, failed, anyFailed, result>>

(* Mutant: there is only one round. *)
Spawn_Once ==
    \E w \in Workers :
        /\ pc = "spawn"
        /\ worker[w] = "none"
        /\ wg' = wg + 1
        /\ worker' = [worker EXCEPT ![w] = "del"]
        /\ batch' = [batch EXCEPT ![w] = page]
        /\ pc' = "wait"
        /\ UNCHANGED <<keys, page, seen, failed, anyFailed, result>>

(* wg.Add(1) and the go statement. *)
Spawn ==
    \E w \in Workers :
        /\ pc = "spawn"
        /\ worker[w] = "none"
        /\ wg' = wg + 1
        /\ worker' = [worker EXCEPT ![w] = "del"]
        /\ batch' = [batch EXCEPT ![w] = page]
        /\ pc' = "scan"
        /\ UNCHANGED <<keys, page, seen, failed, anyFailed, result>>

Outcome == IF failed # {} THEN "cannot delete" ELSE "ok"

(* Mutant: the goroutines are not waited for. *)
Wait_Not ==
    /\ pc = "wait"
    /\ pc' = "returned"
    /\ result' = Outcome
    /\ UNCHANGED <<keys, page, worker, batch, seen, wg, failed, anyFailed>>

(* wg.Wait() and the return. *)
Wait ==
    /\ pc = "wait"
    /\ wg = 0
    /\ pc' = "returned"
    /\ result' = Outcome
    /\ UNCHANGED <<keys, page, worker, batch, seen, wg, failed, anyFailed>>
-----------------------------------------------------------------------------
(***************************************************************************)
(* The goroutines.                                                         *)
(***************************************************************************)
Becomes(w, next) == worker' = [worker EXCEPT ![w] = next]

Del(w) ==
    /\ worker[w] = "del"
    /\ keys' = keys \ batch[w]
    /\ Becomes(w, "done")
    /\ UNCHANGED <<pc, page, batch, seen, wg, failed, anyFailed, result>>

DelFails(w) ==
    /\ worker[w] = "del"
    /\ anyFailed' = TRUE
    /\ Becomes(w, "read")
    /\ UNCHANGED <<keys, pc, page, batch, seen, wg, failed, result>>

ReadFailed(w) ==
    /\ worker[w] = "read"
    /\ seen' = [seen EXCEPT ![w] = failed]
    /\ Becomes(w, "write")
    /\ UNCHANGED <<keys, pc, page, batch, wg, failed, anyFailed, result>>

(* Mutant: a return before wg.Done(). *)
WriteFailed_Returns(w) ==
    /\ worker[w] = "write"
    /\ failed' = seen[w] \cup batch[w]
    /\ Becomes(w, "none")
    /\ UNCHANGED <<keys, pc, page, batch, seen, wg, anyFailed, result>>

(* What the other goroutines appended in between is lost. *)
WriteFailed(w) ==
    /\ worker[w] = "write"
    /\ failed' = seen[w] \cup batch[w]
    /\ Becomes(w, "done")
    /\ UNCHANGED <<keys, pc, page, batch, seen, wg, anyFailed, result>>

Done(w) ==
    /\ worker[w] = "done"
    /\ wg' = wg - 1
    /\ Becomes(w, "none")
    /\ batch' = [batch EXCEPT ![w] = {}]
    /\ seen' = [seen EXCEPT ![w] = {}]
    /\ UNCHANGED <<keys, pc, page, failed, anyFailed, result>>
-----------------------------------------------------------------------------
Caller == Scan \/ ScanFails \/ Spawn \/ Wait
Goroutine(w) == Del(w) \/ DelFails(w) \/ ReadFailed(w) \/ WriteFailed(w) \/ Done(w)

(* The call is made once; nothing happens after it has returned. *)
Next == Caller \/ \E w \in Workers : Goroutine(w)

(* The caller and the goroutines are scheduled, and the server does not     *)
(* refuse every DEL for ever.                                               *)
Fairness ==
    /\ WF_vars(Caller)
    /\ \A w \in Workers : WF_vars(Goroutine(w)) /\ SF_vars(Del(w))

Spec == Init /\ [][Next]_vars
FairSpec == Spec /\ Fairness
-----------------------------------------------------------------------------
(***************************************************************************)
(* Properties.                                                             *)
(***************************************************************************)

(* The error that names the undeleted keys is returned whenever a DEL       *)
(* failed, although unsynchronised appends may lose some of their names.    *)
FailureIsReported ==
    result \in {"ok", "cannot delete"} => (anyFailed <=> result = "cannot delete")

(* No goroutine outlives the call, unless a scan failed. *)
GoroutinesJoined ==
    result \in {"ok", "cannot delete"} => \A w \in Workers : worker[w] = "none"

(* nil or "cannot delete": a scan has found no key of the first page left.  *)
(* With a page of all keys, nothing that matches is left.                   *)
NothingLeft == result \in {"ok", "cannot delete"} => keys \cap FirstPage = {}

(* The call returns, although it scans on while its goroutines delete, if   *)
(* the server does not refuse every DEL.                                    *)
Returns == <>(pc = "returned")
=============================================================================
