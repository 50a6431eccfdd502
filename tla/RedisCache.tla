----------------------------- MODULE RedisCache -----------------------------
(***************************************************************************)
(* Keys and their expiry in cache/implementations/redis/goredis/redis.go.  *)
(*                                                                         *)
(* Set and SetNX write value and expiry in one command.  HSet and HMSet    *)
(* send EXPIRE after the write; MSet starts one goroutine per key that     *)
(* sends it, deletes the key if that fails, and reports on a channel the   *)
(* caller ranges over.  Clients are processes with a Redis each on one     *)
(* server; commands may fail and clients may die between two commands.     *)
(***************************************************************************)
EXTENDS Naturals, FiniteSets

CONSTANTS
    Clients,    \* processes, each making one call at a time
    Keys,       \* the keys they share: strings of bounded length
    Nobody      \* no key: the client has no EXPIRE of its own to send

ASSUME RedisAssumption == Nobody \notin Keys /\ IsFiniteSet(Keys)

VARIABLES
    store,      \* store[k]: absent, or how long the key lives
    pc,         \* pc[c]: idle, between HSet's two commands, or in MSet's loop
    key,        \* key[c]: the key HSet or HMSet has written
    data,       \* data[c]: the keys of MSet
    worker,     \* worker[c][k]: where MSet's goroutine for k is
    errs,       \* errs[c]: keys with an error message in MSet's channel
    nils,       \* nils[c]: messages without error in the channel
    failedKeys, \* failedKeys[c]: what MSet has collected
    expireFailed \* expireFailed[c]: keys of this MSet whose EXPIRE failed

caller == <<pc, key, data>>
channel == <<errs, nils, failedKeys>>
vars == <<store, pc, key, data, worker, errs, nils, failedKeys, expireFailed>>

(* plain: no expiry yet, though one was asked for; forsaken: nor will it    *)
(* get one, and the caller of HSet or HMSet was told so, or the process has *)
(* died; stranded: nor will it, and the MSet that knows tells nobody, as it *)
(* never returns.                                                           *)
Lifetimes == {"absent", "plain", "forsaken", "stranded", "expiring", "forever"}

TypeOK ==
    /\ store \in [Keys -> Lifetimes]
    /\ pc \in [Clients -> {"idle", "expire", "range"}]
    /\ key \in [Clients -> Keys \cup {Nobody}]
    /\ data \in [Clients -> SUBSET Keys]
    /\ worker \in [Clients -> [Keys -> {"none", "expire", "del", "error", "nil"}]]
    /\ errs \in [Clients -> SUBSET Keys]
    /\ nils \in [Clients -> 0 .. Cardinality(Keys)]
    /\ \A c \in Clients : nils[c] + Cardinality(errs[c]) <= Cardinality(data[c])
    /\ failedKeys \in [Clients -> SUBSET Keys]
    /\ expireFailed \in [Clients -> SUBSET Keys]

NoWorkers == [k \in Keys |-> "none"]

Init ==
    /\ store = [k \in Keys |-> "absent"]
    /\ pc = [c \in Clients |-> "idle"]
    /\ key = [c \in Clients |-> Nobody]
    /\ data = [c \in Clients |-> {}]
    /\ worker = [c \in Clients |-> NoWorkers]
    /\ errs = [c \in Clients |-> {}]
    /\ nils = [c \in Clients |-> 0]
    /\ failedKeys = [c \in Clients |-> {}]
    /\ expireFailed = [c \in Clients |-> {}]
-----------------------------------------------------------------------------
(***************************************************************************)
(* Calls of one command.  A command that fails changes nothing.            *)
(***************************************************************************)

(* SET with a duration of 0 has no expiry, as the caller asked. *)
Lifetime(zero) == IF zero THEN "forever" ELSE "expiring"

Set(c, k, zero) ==
    /\ pc[c] = "idle"
    /\ store' = [store EXCEPT ![k] = Lifetime(zero)]
    /\ UNCHANGED <<caller, worker, channel, expireFailed>>

SetNX(c, k, zero) == store[k] = "absent" /\ Set(c, k, zero)

(* DEL of some keys; HDEL of the last field removes the key, too. *)
Remove(c, ks) ==
    /\ pc[c] = "idle"
    /\ store' = [k \in Keys |-> IF k \in ks THEN "absent" ELSE store[k]]
    /\ UNCHANGED <<caller, worker, channel, expireFailed>>
-----------------------------------------------------------------------------
(***************************************************************************)
(* HSet and HMSet: the write, then EXPIRE.                                 *)
(***************************************************************************)

(* Keys without an expiry, none of which is to come. *)
GivenUp == {"forsaken", "stranded"}

(* HSET makes a key that lives for ever and keeps the expiry of one there,  *)
(* if it has any.                                                           *)
HWrite(c, k) ==
    /\ pc[c] = "idle"
    /\ store' = [store EXCEPT ![k] = IF @ \in GivenUp \cup {"absent"} THEN "plain" ELSE @]
    /\ pc' = [pc EXCEPT ![c] = "expire"]
    /\ key' = [key EXCEPT ![c] = k]
    /\ UNCHANGED <<data, worker, channel, expireFailed>>

(* EXPIRE of a key that is gone does nothing; EXPIRE 0 deletes the key. *)
Expired(k, zero) ==
    [store EXCEPT ![k] = IF @ = "absent" \/ zero THEN "absent" ELSE "expiring"]

Returned(c) ==
    /\ pc' = [pc EXCEPT ![c] = "idle"]
    /\ key' = [key EXCEPT ![c] = Nobody]
    /\ UNCHANGED <<data, worker, channel, expireFailed>>

HExpire(c, zero) ==
    /\ pc[c] = "expire"
    /\ store' = Expired(key[c], zero)
    /\ Returned(c)

(* A plain key stays as it is, given up by whoever was to expire it. *)
Left(k, lifetime) ==
    [store EXCEPT ![k] = IF @ = "plain" THEN lifetime ELSE @]

(* The error is returned to the caller. *)
HExpireFails(c) ==
    /\ pc[c] = "expire"
    /\ store' = Left(key[c], "forsaken")
    /\ Returned(c)
-----------------------------------------------------------------------------
(***************************************************************************)
(* MSet: one write, then a goroutine per key.                              *)
(***************************************************************************)

(* Mutant: every goroutine captures the loop variable, the last key. *)
MSet_CapturesVariable(c, ks) ==
    /\ pc[c] = "idle"
    /\ ks # {}
    /\ store' = [k \in Keys |-> IF k \in ks THEN "plain" ELSE store[k]]
    /\ pc' = [pc EXCEPT ![c] = "range"]
    /\ data' = [data EXCEPT ![c] = ks]
    /\ \E last \in ks : worker' = [worker EXCEPT ![c][last] = "expire"]
    /\ UNCHANGED <<key, channel, expireFailed>>

MSet(c, ks) ==
    /\ pc[c] = "idle"
    /\ ks # {}
    /\ store' = [k \in Keys |-> IF k \in ks THEN "plain" ELSE store[k]]
    /\ pc' = [pc EXCEPT ![c] = "range"]
    /\ data' = [data EXCEPT ![c] = ks]
    /\ worker' = [worker EXCEPT ![c] = [k \in Keys |-> IF k \in ks THEN "expire" ELSE "none"]]
    /\ UNCHANGED <<key, channel, expireFailed>>

Becomes(c, k, next) == worker' = [worker EXCEPT ![c][k] = next]

WorkerExpire(c, k, zero) ==
    /\ worker[c][k] = "expire"
    /\ store' = Expired(k, zero)
    /\ Becomes(c, k, "nil")
    /\ UNCHANGED <<caller, channel, expireFailed>>

WorkerExpireFails(c, k) ==
    /\ worker[c][k] = "expire"
    /\ expireFailed' = [expireFailed EXCEPT ![c] = @ \cup {k}]
    /\ Becomes(c, k, "del")
    /\ UNCHANGED <<store, caller, channel>>

(* The key is deleted, whoever wrote it last; an error of DEL is dropped,  *)
(* and the key is left to live for ever.                                    *)
WorkerDel(c, k) ==
    /\ worker[c][k] = "del"
    /\ \/ store' = [store EXCEPT ![k] = "absent"]
       \/ store' = Left(k, "stranded")
    /\ Becomes(c, k, "error")
    /\ UNCHANGED <<caller, channel, expireFailed>>

(* Mutant: the channel has room for one message more than it should. *)
HasRoom_Plus(c) == nils[c] + Cardinality(errs[c]) <= Cardinality(data[c])

(* The channel is buffered for len(data) messages. *)
HasRoom(c) == nils[c] + Cardinality(errs[c]) < Cardinality(data[c])

(* Mutant: the failure is logged and not sent. *)
WorkerSendsError_Logs(c, k) ==
    /\ worker[c][k] = "error"
    /\ Becomes(c, k, "nil")
    /\ UNCHANGED <<store, caller, channel, expireFailed>>

WorkerSendsError(c, k) ==
    /\ worker[c][k] = "error"
    /\ HasRoom(c)
    /\ errs' = [errs EXCEPT ![c] = @ \cup {k}]
    /\ Becomes(c, k, "nil")
    /\ UNCHANGED <<store, caller, nils, failedKeys, expireFailed>>

(* Sent after the error, too: there is no return in between. *)
WorkerSendsNil(c, k) ==
    /\ worker[c][k] = "nil"
    /\ HasRoom(c)
    /\ nils' = [nils EXCEPT ![c] = @ + 1]
    /\ Becomes(c, k, "none")
    /\ UNCHANGED <<store, caller, errs, failedKeys, expireFailed>>

(* Mutant: the loop ends at the first error. *)
Receive_UntilError(c) ==
    /\ pc[c] = "range"
    /\ failedKeys[c] = {}
    /\ \/ \E k \in errs[c] :
            /\ errs' = [errs EXCEPT ![c] = @ \ {k}]
            /\ failedKeys' = [failedKeys EXCEPT ![c] = @ \cup {k}]
            /\ UNCHANGED nils
       \/ /\ nils[c] > 0
          /\ nils' = [nils EXCEPT ![c] = @ - 1]
          /\ UNCHANGED <<errs, failedKeys>>
    /\ UNCHANGED <<store, caller, worker, expireFailed>>

(* for ch := range setDurationCh.  The order of the messages does not matter *)
(* to it; it would end when the channel is closed, and nobody closes it.     *)
Receive(c) ==
    /\ pc[c] = "range"
    /\ \/ \E k \in errs[c] :
            /\ errs' = [errs EXCEPT ![c] = @ \ {k}]
            /\ failedKeys' = [failedKeys EXCEPT ![c] = @ \cup {k}]
            /\ UNCHANGED nils
       \/ /\ nils[c] > 0
          /\ nils' = [nils EXCEPT ![c] = @ - 1]
          /\ UNCHANGED <<errs, failedKeys>>
    /\ UNCHANGED <<store, caller, worker, expireFailed>>

(* c has an EXPIRE of k, or MSet's DEL, still to send. *)
InHand(c, k) == key[c] = k \/ worker[c][k] \in {"expire", "del"}

(* The process dies with its goroutines, and is started again. *)
Crash(c) ==
    /\ pc[c] # "idle"
    /\ store' = [k \in Keys |->
                    IF \/ store[k] = "plain" /\ InHand(c, k)
                       \/ store[k] = "stranded" /\ k \in expireFailed[c]
                    THEN "forsaken" ELSE store[k]]
    /\ pc' = [pc EXCEPT ![c] = "idle"]
    /\ key' = [key EXCEPT ![c] = Nobody]
    /\ data' = [data EXCEPT ![c] = {}]
    /\ worker' = [worker EXCEPT ![c] = NoWorkers]
    /\ errs' = [errs EXCEPT ![c] = {}]
    /\ nils' = [nils EXCEPT ![c] = 0]
    /\ failedKeys' = [failedKeys EXCEPT ![c] = {}]
    /\ expireFailed' = [expireFailed EXCEPT ![c] = {}]
-----------------------------------------------------------------------------
Command(c) ==
    \/ \E k \in Keys, zero \in BOOLEAN : Set(c, k, zero) \/ SetNX(c, k, zero)
    \/ \E ks \in SUBSET Keys : Remove(c, ks) \/ MSet(c, ks)
    \/ \E k \in Keys : HWrite(c, k)

SecondCommand(c) == (\E zero \in BOOLEAN : HExpire(c, zero)) \/ HExpireFails(c)

Worker(c, k) ==
    \/ \E zero \in BOOLEAN : WorkerExpire(c, k, zero)
    \/ WorkerExpireFails(c, k) \/ WorkerDel(c, k)
    \/ WorkerSendsError(c, k) \/ WorkerSendsNil(c, k)

Next ==
    \E c \in Clients :
        \/ Command(c) \/ SecondCommand(c) \/ Receive(c) \/ Crash(c)
        \/ \E k \in Keys : Worker(c, k)

(* Goroutines are scheduled and the server answers, with an error or not. *)
Fairness ==
    \A c \in Clients :
        /\ WF_vars(SecondCommand(c)) /\ WF_vars(Receive(c))
        /\ \A k \in Keys : WF_vars(Worker(c, k))

Spec == Init /\ [][Next]_vars
FairSpec == Spec /\ Fairness
-----------------------------------------------------------------------------
(***************************************************************************)
(* Properties.                                                             *)
(***************************************************************************)

(* A key that would live for ever although every writer gave it a duration  *)
(* has an EXPIRE (or MSet's DEL) still to come; or HSet's or HMSet's caller  *)
(* was told, or the process died (forsaken); or both EXPIRE and DEL of MSet  *)
(* have failed, and MSet has the key's name or is about to be sent it, which *)
(* is all that is left of it.  Whatever clients interleave, no other key is  *)
(* forgotten.                                                                *)
Pending(k) == \E c \in Clients : InHand(c, k)

Remembered(k) ==
    \E c \in Clients : k \in failedKeys[c] \cup errs[c] \/ worker[c][k] = "error"

NoForgottenKey ==
    \A k \in Keys :
        /\ store[k] = "plain" => Pending(k)
        /\ store[k] = "stranded" => Remembered(k)

(* Once every goroutine of an MSet has ended and its channel is drained,    *)
(* exactly the keys whose EXPIRE failed have been collected, although such  *)
(* a goroutine sends two messages.                                          *)
CollectsExactly ==
    \A c \in Clients :
        pc[c] = "range" /\ worker[c] = NoWorkers /\ errs[c] = {} /\ nils[c] = 0
            => failedKeys[c] = expireFailed[c]

(* No goroutine of MSet blocks for ever on the channel, which has room for  *)
(* half of what they may send.                                              *)
WorkersEnd == \A c \in Clients, k \in Keys : worker[c][k] # "none" ~> worker[c][k] = "none"

(* "failed when insert keys": MSet returns, so that a caller can be told.   *)
MSetReturns == \A c \in Clients : pc[c] = "range" ~> pc[c] = "idle"
=============================================================================
