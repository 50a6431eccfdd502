----------------------------- MODULE CacheProofs -----------------------------
(***************************************************************************)
(* Proofs about the writes of the cache and their expiry, for any number   *)
(* of clients and of keys.                                                 *)
(*                                                                         *)
(* NoForgottenKey needs to know when a client has nothing left to send: a  *)
(* key in hand only between HSet's two commands, goroutines only in MSet.  *)
(* CollectsExactly follows from an account of where every failure is: with *)
(* its goroutine, in the channel, or collected.  The same account keeps the *)
(* name of a stranded key.                                                  *)
(***************************************************************************)
EXTENDS RedisCache, FiniteSetTheorems, TLAPS

(* A client has a key or goroutines only within the call that needs them. *)
InCall ==
    \A c \in Clients :
        /\ key[c] # Nobody => pc[c] = "expire"
        /\ pc[c] = "range" => data[c] # {}
        /\ pc[c] # "range" =>
              /\ worker[c] = NoWorkers
              /\ errs[c] = {} /\ nils[c] = 0
              /\ failedKeys[c] = {} /\ expireFailed[c] = {}

(* The goroutines of c's MSet that have a failure to report. *)
Reporting(c) == {k \in Keys : worker[c][k] \in {"del", "error"}}

(* Every failure of an MSet is collected, in the channel, or on its way. *)
Accounted ==
    \A c \in Clients : expireFailed[c] = failedKeys[c] \cup errs[c] \cup Reporting(c)

(* The two halves of NoForgottenKey. *)
PlainIsPending == \A k \in Keys : store[k] = "plain" => Pending(k)
StrandedIsRemembered == \A k \in Keys : store[k] = "stranded" => Remembered(k)

IInv == TypeOK /\ InCall /\ Accounted /\ PlainIsPending /\ StrandedIsRemembered

(* Sets of keys are finite, and so have sizes.                              *)
LEMMA KeysAreFinite ==
  ASSUME NEW S \in SUBSET Keys
  PROVE  /\ IsFiniteSet(S) /\ Cardinality(S) \in Nat
         /\ Cardinality(S) <= Cardinality(Keys) /\ Cardinality(Keys) \in Nat
  BY RedisAssumption, FS_Subset, FS_CardinalityType

(* Nothing is stored, and nobody calls.                                     *)
LEMMA InitIInv == Init => IInv
<1> SUFFICES ASSUME Init PROVE IInv
  OBVIOUS
<1>1. Cardinality({}) = 0 /\ 0 \in 0 .. Cardinality(Keys)
  BY KeysAreFinite, FS_EmptySet
<1>2. TypeOK
  BY <1>1 DEF Init, TypeOK, Lifetimes, NoWorkers
<1>3. InCall
  BY DEF Init, InCall
<1>4. Accounted
  BY DEF Init, Accounted, Reporting, NoWorkers
<1>5. PlainIsPending /\ StrandedIsRemembered
  BY DEF Init, PlainIsPending, StrandedIsRemembered
<1> QED BY <1>2, <1>3, <1>4, <1>5 DEF IInv

(* Names stay known: what MSet had collected, or was about to be sent, is    *)
(* collected or about to be sent after the step, and only a goroutine with a  *)
(* failure strands a key.                                                    *)
LEMMA StillRemembered ==
  ASSUME StrandedIsRemembered,
         \A q \in Keys : Remembered(q) => Remembered(q)',
         \A q \in Keys : store'[q] = "stranded" => store[q] = "stranded" \/ Remembered(q)'
  PROVE  StrandedIsRemembered'
  BY DEF StrandedIsRemembered

(* The commands of one step: those that leave plain keys only where they    *)
(* were, or in hand.                                                        *)
LEMMA StoredByOne ==
  ASSUME IInv, UNCHANGED <<caller, worker, channel, expireFailed>>,
         store' \in [Keys -> Lifetimes],
         \A k \in Keys : store'[k] \in {"plain", "stranded"} => store'[k] = store[k]
  PROVE  IInv'
<1>1. TypeOK'
  BY DEF IInv, TypeOK, caller, channel
<1>2. InCall' /\ Accounted'
  BY DEF IInv, InCall, Accounted, Reporting, caller, channel
<1>3. PlainIsPending'
  BY DEF IInv, PlainIsPending, Pending, InHand, caller
<1>4. StrandedIsRemembered'
  BY DEF IInv, StrandedIsRemembered, Remembered, channel
<1> QED BY <1>1, <1>2, <1>3, <1>4 DEF IInv

(* MSet is still ranging when its goroutine for k has come to `next`. *)
StillMSet(c, k, next) ==
    /\ PlainIsPending'
    /\ pc[c] = "range"
    /\ worker' \in [Clients -> [Keys -> {"none", "expire", "del", "error", "nil"}]]
    /\ worker'[c][k] = next
    /\ \A q \in Keys \ {k} : worker'[c][q] = worker[c][q]
    /\ \A d \in Clients \ {c} : worker'[d] = worker[d]
    /\ \A d \in Clients \ {c} : Reporting(d)' = Reporting(d)
    /\ Reporting(c)' = IF next \in {"del", "error"} THEN Reporting(c) \cup {k}
                       ELSE Reporting(c) \ {k}

(* A goroutine of MSet goes on; a key it is done with is not left plain.    *)
LEMMA WorkerStep ==
  ASSUME IInv, NEW c \in Clients, NEW k \in Keys, worker[c][k] # "none",
         NEW next \in {"none", "expire", "del", "error", "nil"}, Becomes(c, k, next),
         UNCHANGED caller, store' \in [Keys -> Lifetimes],
         \A q \in Keys : store'[q] = "plain" => store[q] = "plain",
         \/ next \in {"expire", "del"} \/ store'[k] # "plain"
         \/ worker[c][k] \notin {"expire", "del"}
  PROVE  StillMSet(c, k, next)
<1>1. /\ worker \in [Clients -> [Keys -> {"none", "expire", "del", "error", "nil"}]]
      /\ pc' = pc /\ key' = key
  BY DEF IInv, TypeOK, caller
<1>2. /\ worker' \in [Clients -> [Keys -> {"none", "expire", "del", "error", "nil"}]]
      /\ worker'[c][k] = next
      /\ \A q \in Keys \ {k} : worker'[c][q] = worker[c][q]
      /\ \A d \in Clients \ {c} : worker'[d] = worker[d]
  BY <1>1 DEF Becomes
<1>3. pc[c] = "range"
  BY DEF IInv, InCall, NoWorkers
<1>4. \A d \in Clients \ {c} : Reporting(d)' = Reporting(d)
  BY <1>2 DEF Reporting
<1>5. Reporting(c)' = IF next \in {"del", "error"} THEN Reporting(c) \cup {k}
                      ELSE Reporting(c) \ {k}
  BY <1>2 DEF Reporting
<1>6. PlainIsPending'
  <2> SUFFICES ASSUME NEW q \in Keys, store'[q] = "plain" PROVE Pending(q)'
    BY DEF PlainIsPending
  <2>1. Pending(q)
    BY DEF IInv, PlainIsPending
  <2>2. PICK d \in Clients : key[d] = q \/ worker[d][q] \in {"expire", "del"}
    BY <2>1 DEF Pending, InHand
  <2>3. key'[d] = q \/ worker'[d][q] \in {"expire", "del"}
    BY <1>1, <1>2, <2>2
  <2> QED BY <2>3 DEF Pending, InHand
<1> QED BY <1>2, <1>3, <1>4, <1>5, <1>6 DEF StillMSet

(* It reports a failure later, or has none: nothing is in the channel yet.  *)
LEMMA SilentWorker ==
  ASSUME IInv, NEW c \in Clients, NEW k \in Keys,
         UNCHANGED <<caller, errs, nils, failedKeys, expireFailed>>,
         store' \in [Keys -> Lifetimes],
         \A q \in Keys : store'[q] = "stranded" =>
             store[q] = "stranded" \/ (q = k /\ worker[c][k] = "del"),
         \/ worker[c][k] = "expire" /\ StillMSet(c, k, "nil")
         \/ worker[c][k] = "del" /\ StillMSet(c, k, "error")
  PROVE  IInv'
<1>1. TypeOK'
  BY DEF IInv, TypeOK, StillMSet, caller
<1>2. InCall'
  BY DEF IInv, InCall, StillMSet, caller
<1>3. \A d \in Clients : Reporting(d)' = Reporting(d)
  BY DEF StillMSet, Reporting
<1>4. Accounted'
  BY <1>3 DEF IInv, Accounted
<1>5. \A q \in Keys : Remembered(q) => Remembered(q)'
  BY DEF Remembered, StillMSet
<1>6. worker[c][k] = "del" => Remembered(k)'
  BY DEF Remembered, StillMSet
<1>7. StrandedIsRemembered'
  BY <1>5, <1>6, StillRemembered DEF IInv
<1> QED BY <1>1, <1>2, <1>4, <1>7 DEF IInv, StillMSet

(* The store after EXPIRE, after a failed one, and after a deletion.        *)
LEMMA Expiry ==
  ASSUME IInv, NEW k, NEW zero \in BOOLEAN
  PROVE  /\ Expired(k, zero) \in [Keys -> Lifetimes]
         /\ \A q \in Keys :
               Expired(k, zero)[q] \in {"plain", "stranded"} =>
                   Expired(k, zero)[q] = store[q] /\ q # k
  BY DEF Expired, IInv, TypeOK, Lifetimes

(* Giving up a key leaves it plain no more, and strands no other.           *)
LEMMA KeyIsLeft ==
  ASSUME IInv, NEW k, NEW lifetime \in GivenUp
  PROVE  /\ Left(k, lifetime) \in [Keys -> Lifetimes]
         /\ \A q \in Keys :
               Left(k, lifetime)[q] = "plain" => store[q] = "plain" /\ q # k
         /\ \A q \in Keys :
               Left(k, lifetime)[q] = "stranded" =>
                   store[q] = "stranded" \/ (q = k /\ lifetime = "stranded")
  BY DEF Left, GivenUp, IInv, TypeOK, Lifetimes

(* Every step of every client and goroutine keeps the invariant.            *)
LEMMA NextIInv == IInv /\ [Next]_vars => IInv'
<1> SUFFICES ASSUME IInv, [Next]_vars PROVE IInv'
  OBVIOUS
<1>0. TypeOK /\ InCall /\ Accounted /\ PlainIsPending /\ StrandedIsRemembered
  BY DEF IInv
<1>1. CASE UNCHANGED vars
  BY <1>1, StoredByOne, <1>0 DEF vars, caller, channel, TypeOK
<1>2. ASSUME NEW c \in Clients, NEW k \in Keys, NEW zero \in BOOLEAN,
             Set(c, k, zero) \/ SetNX(c, k, zero)
      PROVE  IInv'
  <2>1. /\ store' \in [Keys -> Lifetimes]
        /\ \A q \in Keys : store'[q] \in {"plain", "stranded"} => store'[q] = store[q]
    BY <1>0, <1>2 DEF Set, SetNX, Lifetime, TypeOK, Lifetimes
  <2> QED BY <1>2, <2>1, StoredByOne DEF Set, SetNX
<1>3. ASSUME NEW c \in Clients, NEW ks \in SUBSET Keys, Remove(c, ks) PROVE IInv'
  <2>1. /\ store' \in [Keys -> Lifetimes]
        /\ \A q \in Keys : store'[q] \in {"plain", "stranded"} => store'[q] = store[q]
    BY <1>0, <1>3 DEF Remove, TypeOK, Lifetimes
  <2> QED BY <1>3, <2>1, StoredByOne DEF Remove
<1>4. ASSUME NEW c \in Clients, NEW k \in Keys, HWrite(c, k) PROVE IInv'
  <2>1. /\ pc[c] = "idle" /\ pc' = [pc EXCEPT ![c] = "expire"]
        /\ key' = [key EXCEPT ![c] = k]
        /\ UNCHANGED <<data, worker, errs, nils, failedKeys, expireFailed>>
    BY <1>4 DEF HWrite, channel
  <2>2. /\ store' \in [Keys -> Lifetimes]
        /\ \A q \in Keys : store'[q] = "plain" => store[q] = "plain" \/ q = k
        /\ \A q \in Keys : store'[q] = "stranded" => store[q] = "stranded"
    BY <1>0, <1>4 DEF HWrite, TypeOK, Lifetimes, GivenUp
  <2>3. TypeOK'
    BY <1>0, <2>1, <2>2 DEF TypeOK
  <2>4. InCall' /\ Accounted'
    BY <1>0, <2>1 DEF InCall, Accounted, Reporting, TypeOK
  <2>5. key[c] = Nobody /\ \A d \in Clients \ {c} : key'[d] = key[d]
    BY <1>0, <2>1 DEF InCall, TypeOK
  <2>6. \A q \in Keys : Pending(q) \/ q = k => Pending(q)'
    BY <1>0, <2>1, <2>5, RedisAssumption DEF Pending, InHand, TypeOK
  <2>7. PlainIsPending'
    BY <1>0, <2>2, <2>6 DEF PlainIsPending
  <2>8. \A q \in Keys : Remembered(q) => Remembered(q)'
    BY <2>1 DEF Remembered
  <2>9. StrandedIsRemembered'
    BY <1>0, <2>2, <2>8, StillRemembered
  <2> QED BY <2>3, <2>4, <2>7, <2>9 DEF IInv
<1>5. ASSUME NEW c \in Clients, SecondCommand(c) PROVE IInv'
  <2>1. /\ pc[c] = "expire" /\ pc' = [pc EXCEPT ![c] = "idle"]
        /\ key' = [key EXCEPT ![c] = Nobody]
        /\ UNCHANGED <<data, worker, errs, nils, failedKeys, expireFailed>>
    BY <1>5 DEF SecondCommand, HExpire, HExpireFails, Returned, channel
  <2>2. /\ store' \in [Keys -> Lifetimes]
        /\ \A q \in Keys : store'[q] = "plain" => store[q] = "plain" /\ q # key[c]
        /\ \A q \in Keys : store'[q] = "stranded" => store[q] = "stranded"
    BY <1>5, Expiry, KeyIsLeft DEF SecondCommand, HExpire, HExpireFails, GivenUp
  <2>3. TypeOK'
    BY <1>0, <2>1, <2>2 DEF TypeOK
  <2>4. InCall' /\ Accounted'
    BY <1>0, <2>1 DEF InCall, Accounted, Reporting, TypeOK
  <2>5. \A q \in Keys : Pending(q) /\ q # key[c] => Pending(q)'
    BY <1>0, <2>1 DEF Pending, InHand, TypeOK
  <2>6. PlainIsPending'
    BY <1>0, <2>2, <2>5 DEF PlainIsPending
  <2>7. \A q \in Keys : Remembered(q) => Remembered(q)'
    BY <2>1 DEF Remembered
  <2>8. StrandedIsRemembered'
    BY <1>0, <2>2, <2>7, StillRemembered
  <2> QED BY <2>3, <2>4, <2>6, <2>8 DEF IInv
<1>6. ASSUME NEW c \in Clients, NEW ks \in SUBSET Keys, MSet(c, ks) PROVE IInv'
  <2> DEFINE started == [k \in Keys |-> IF k \in ks THEN "expire" ELSE "none"]
  <2>1. /\ pc[c] = "idle" /\ ks # {} /\ pc' = [pc EXCEPT ![c] = "range"]
        /\ data' = [data EXCEPT ![c] = ks]
        /\ worker' = [worker EXCEPT ![c] = started]
        /\ UNCHANGED <<key, errs, nils, failedKeys, expireFailed>>
    BY <1>6 DEF MSet, channel
  <2>2. /\ store' \in [Keys -> Lifetimes]
        /\ \A q \in Keys : store'[q] = "plain" => store[q] = "plain" \/ q \in ks
        /\ \A q \in Keys : store'[q] = "stranded" => store[q] = "stranded"
    BY <1>0, <1>6 DEF MSet, TypeOK, Lifetimes
  <2>3. errs[c] = {} /\ nils[c] = 0 /\ worker[c] = NoWorkers
    BY <1>0, <2>1 DEF InCall
  <2>4. nils[c] + Cardinality(errs[c]) <= Cardinality(ks)
    BY <2>3, KeysAreFinite, FS_EmptySet
  <2>5. TypeOK'
    BY <1>0, <2>1, <2>2, <2>4 DEF TypeOK
  <2>6. InCall'
    BY <1>0, <2>1 DEF InCall, TypeOK
  <2>7. \A d \in Clients : Reporting(d)' = Reporting(d)
    BY <1>0, <2>1, <2>3 DEF Reporting, TypeOK, NoWorkers
  <2>8. Accounted'
    BY <1>0, <2>1, <2>7 DEF Accounted
  <2>9. \A q \in Keys : Pending(q) \/ q \in ks => Pending(q)'
    BY <1>0, <2>1, <2>3 DEF Pending, InHand, TypeOK, NoWorkers
  <2>10. PlainIsPending'
    BY <1>0, <2>2, <2>9 DEF PlainIsPending
  <2>11. \A q \in Keys : Remembered(q) => Remembered(q)'
    BY <1>0, <2>1, <2>3 DEF Remembered, TypeOK, NoWorkers
  <2>12. StrandedIsRemembered'
    BY <1>0, <2>2, <2>11, StillRemembered
  <2> QED BY <2>5, <2>6, <2>8, <2>10, <2>12 DEF IInv
<1>7. ASSUME NEW c \in Clients, NEW k \in Keys, NEW zero \in BOOLEAN,
             WorkerExpire(c, k, zero)
      PROVE  IInv'
  <2>1. /\ worker[c][k] = "expire" /\ Becomes(c, k, "nil")
        /\ UNCHANGED <<caller, errs, nils, failedKeys, expireFailed>>
    BY <1>7 DEF WorkerExpire, channel
  <2>2. /\ store' \in [Keys -> Lifetimes]
        /\ \A q \in Keys : store'[q] = "plain" => store[q] = "plain" /\ q # k
        /\ \A q \in Keys : store'[q] = "stranded" => store[q] = "stranded"
    BY <1>7, Expiry DEF WorkerExpire
  <2>3. StillMSet(c, k, "nil")
    BY <2>1, <2>2, WorkerStep
  <2> QED BY <2>1, <2>2, <2>3, SilentWorker
<1>8. ASSUME NEW c \in Clients, NEW k \in Keys, WorkerExpireFails(c, k) PROVE IInv'
  <2>1. /\ worker[c][k] = "expire" /\ Becomes(c, k, "del")
        /\ UNCHANGED <<caller, store, errs, nils, failedKeys>>
        /\ expireFailed' = [expireFailed EXCEPT ![c] = @ \cup {k}]
    BY <1>8 DEF WorkerExpireFails, channel
  <2>2. StillMSet(c, k, "del")
    BY <1>0, <2>1, WorkerStep DEF TypeOK
  <2>3. TypeOK'
    BY <1>0, <2>1, <2>2 DEF TypeOK, StillMSet, caller
  <2>4. InCall'
    BY <1>0, <2>1, <2>2 DEF InCall, TypeOK, StillMSet, caller
  <2>5. Accounted'
    BY <1>0, <2>1, <2>2 DEF Accounted, TypeOK, StillMSet
  <2>6. \A q \in Keys : Remembered(q) => Remembered(q)'
    BY <2>1, <2>2 DEF Remembered, StillMSet
  <2>7. StrandedIsRemembered'
    BY <1>0, <2>1, <2>6, StillRemembered
  <2> QED BY <2>2, <2>3, <2>4, <2>5, <2>7 DEF IInv, StillMSet
<1>9. ASSUME NEW c \in Clients, NEW k \in Keys, WorkerDel(c, k) PROVE IInv'
  <2>1. /\ worker[c][k] = "del" /\ Becomes(c, k, "error")
        /\ UNCHANGED <<caller, errs, nils, failedKeys, expireFailed>>
    BY <1>9 DEF WorkerDel, channel
  <2>2. /\ store' \in [Keys -> Lifetimes]
        /\ \A q \in Keys : store'[q] = "plain" => store[q] = "plain" /\ q # k
        /\ \A q \in Keys : store'[q] = "stranded" => store[q] = "stranded" \/ q = k
    BY <1>0, <1>9, KeyIsLeft DEF WorkerDel, TypeOK, Lifetimes, GivenUp
  <2>3. StillMSet(c, k, "error")
    BY <2>1, <2>2, WorkerStep
  <2> QED BY <2>1, <2>2, <2>3, SilentWorker
<1>10. ASSUME NEW c \in Clients, NEW k \in Keys, WorkerSendsError(c, k) PROVE IInv'
  <2>1. /\ worker[c][k] = "error" /\ Becomes(c, k, "nil") /\ HasRoom(c)
        /\ UNCHANGED <<caller, store, nils, failedKeys, expireFailed>>
        /\ errs' = [errs EXCEPT ![c] = @ \cup {k}]
    BY <1>10 DEF WorkerSendsError
  <2>2. StillMSet(c, k, "nil")
    BY <1>0, <2>1, WorkerStep DEF TypeOK
  <2>3. nils[c] + Cardinality(errs'[c]) <= Cardinality(data[c])
    <3>1. errs[c] \in SUBSET Keys /\ errs'[c] = errs[c] \cup {k} /\ nils[c] \in Nat
          /\ data[c] \in SUBSET Keys
      BY <1>0, <2>1, KeysAreFinite DEF TypeOK
    <3>2. /\ Cardinality(errs[c]) \in Nat /\ Cardinality(errs'[c]) \in Nat
          /\ Cardinality(data[c]) \in Nat
      BY <3>1, KeysAreFinite
    <3>3. nils[c] + Cardinality(errs[c]) < Cardinality(data[c])
      BY <2>1 DEF HasRoom
    <3>4. CASE k \in errs[c]
      <4>1. Cardinality(errs'[c]) = Cardinality(errs[c])
        <5>1. errs'[c] = errs[c]
          BY <3>1, <3>4
        <5> QED BY <5>1
      <4>2. nils[c] \in Nat
        BY <3>1
      <4> QED BY <3>2, <3>3, <4>1, <4>2
    <3>5. CASE k \notin errs[c]
      <4>1. IsFiniteSet(errs[c])
        BY <3>1, KeysAreFinite
      <4>2. Cardinality(errs[c] \cup {k}) = Cardinality(errs[c]) + 1
        BY <3>5, <4>1, FS_AddElement
      <4> QED BY <3>1, <3>2, <3>3, <4>2
    <3> QED BY <3>4, <3>5
  <2>4. TypeOK'
    BY <1>0, <2>1, <2>2, <2>3 DEF TypeOK, StillMSet, caller
  <2>5. InCall'
    BY <1>0, <2>1, <2>2 DEF InCall, TypeOK, StillMSet, caller
  <2>6. Accounted'
    BY <1>0, <2>1, <2>2 DEF Accounted, Reporting, TypeOK, StillMSet
  <2>7. \A q \in Keys : Remembered(q) => Remembered(q)'
    BY <1>0, <2>1, <2>2 DEF Remembered, TypeOK, StillMSet
  <2>8. StrandedIsRemembered'
    BY <1>0, <2>1, <2>7, StillRemembered DEF caller
  <2> QED BY <2>2, <2>4, <2>5, <2>6, <2>8 DEF IInv, StillMSet
<1>11. ASSUME NEW c \in Clients, NEW k \in Keys, WorkerSendsNil(c, k) PROVE IInv'
  <2>1. /\ worker[c][k] = "nil" /\ Becomes(c, k, "none") /\ HasRoom(c)
        /\ UNCHANGED <<caller, store, errs, failedKeys, expireFailed>>
        /\ nils' = [nils EXCEPT ![c] = @ + 1]
    BY <1>11 DEF WorkerSendsNil
  <2>2. StillMSet(c, k, "none")
    BY <1>0, <2>1, WorkerStep DEF TypeOK
  <2>3. /\ nils'[c] + Cardinality(errs[c]) <= Cardinality(data[c])
        /\ nils'[c] \in 0 .. Cardinality(Keys)
    <3>1. errs[c] \in SUBSET Keys /\ data[c] \in SUBSET Keys /\ nils[c] \in Nat
          /\ nils'[c] = nils[c] + 1
      BY <1>0, <2>1, KeysAreFinite DEF TypeOK
    <3> QED BY <2>1, <3>1, KeysAreFinite DEF HasRoom
  <2>4. TypeOK'
    BY <1>0, <2>1, <2>2, <2>3 DEF TypeOK, StillMSet, caller
  <2>5. InCall'
    BY <1>0, <2>1, <2>2 DEF InCall, TypeOK, StillMSet, caller
  <2>6. Accounted'
    BY <1>0, <2>1, <2>2 DEF Accounted, Reporting, TypeOK, StillMSet
  <2>7. \A q \in Keys : Remembered(q) => Remembered(q)'
    BY <1>0, <2>1, <2>2 DEF Remembered, TypeOK, StillMSet
  <2>8. StrandedIsRemembered'
    BY <1>0, <2>1, <2>7, StillRemembered DEF caller
  <2> QED BY <2>2, <2>4, <2>5, <2>6, <2>8 DEF IInv, StillMSet
<1>12. ASSUME NEW c \in Clients, Receive(c) PROVE IInv'
  <2>1. /\ pc[c] = "range" /\ UNCHANGED <<store, pc, key, data, worker, expireFailed>>
        /\ \A d \in Clients : Reporting(d)' = Reporting(d)
    BY <1>12 DEF Receive, caller, Reporting
  <2>2. PlainIsPending'
    BY <1>0, <2>1 DEF PlainIsPending, Pending, InHand
  <2>3. CASE \E k \in errs[c] : /\ errs' = [errs EXCEPT ![c] = @ \ {k}]
                                /\ failedKeys' = [failedKeys EXCEPT ![c] = @ \cup {k}]
                                /\ UNCHANGED nils
    <3>1. PICK k \in errs[c] : /\ errs' = [errs EXCEPT ![c] = @ \ {k}]
                               /\ failedKeys' = [failedKeys EXCEPT ![c] = @ \cup {k}]
                               /\ UNCHANGED nils
      BY <2>3
    <3>2. /\ errs[c] \in SUBSET Keys /\ errs'[c] = errs[c] \ {k} /\ k \in Keys
          /\ nils[c] \in Nat /\ data[c] \in SUBSET Keys
      BY <1>0, <3>1, KeysAreFinite DEF TypeOK
    <3>3. nils[c] + Cardinality(errs'[c]) <= Cardinality(data[c])
      <4>1. /\ IsFiniteSet(errs[c]) /\ Cardinality(errs[c]) \in Nat
            /\ Cardinality(data[c]) \in Nat
        BY <3>2, KeysAreFinite
      <4>2. Cardinality(errs[c] \ {k}) = Cardinality(errs[c]) - 1
        BY <4>1, FS_RemoveElement
      <4>3. nils[c] + Cardinality(errs[c]) <= Cardinality(data[c])
        BY <1>0 DEF TypeOK
      <4> QED BY <3>2, <4>1, <4>2, <4>3
    <3>4. TypeOK'
      BY <1>0, <2>1, <3>1, <3>2, <3>3 DEF TypeOK
    <3>5. InCall'
      BY <1>0, <2>1, <3>1 DEF InCall, TypeOK
    <3>6. Accounted'
      BY <1>0, <2>1, <3>1 DEF Accounted, TypeOK
    <3>7. \A q \in Keys : Remembered(q) => Remembered(q)'
      BY <1>0, <2>1, <3>1 DEF Remembered, TypeOK
    <3>8. StrandedIsRemembered'
      BY <1>0, <2>1, <3>7, StillRemembered
    <3> QED BY <2>2, <3>4, <3>5, <3>6, <3>8 DEF IInv
  <2>4. CASE nils[c] > 0 /\ nils' = [nils EXCEPT ![c] = @ - 1]
           /\ UNCHANGED <<errs, failedKeys>>
    <3>1. /\ nils[c] \in 0 .. Cardinality(Keys) /\ nils'[c] = nils[c] - 1
          /\ Cardinality(Keys) \in Nat
          /\ Cardinality(errs[c]) \in Nat /\ Cardinality(data[c]) \in Nat
          /\ nils[c] + Cardinality(errs[c]) <= Cardinality(data[c])
      BY <1>0, <2>4, KeysAreFinite DEF TypeOK
    <3>2. /\ nils'[c] \in 0 .. Cardinality(Keys)
          /\ nils'[c] + Cardinality(errs[c]) <= Cardinality(data[c])
      BY <2>4, <3>1
    <3>3. TypeOK'
      BY <1>0, <2>1, <2>4, <3>2 DEF TypeOK
    <3>4. InCall'
      BY <1>0, <2>1, <2>4 DEF InCall, TypeOK
    <3>5. Accounted'
      BY <1>0, <2>1, <2>4 DEF Accounted
    <3>6. \A q \in Keys : Remembered(q) => Remembered(q)'
      BY <2>1, <2>4 DEF Remembered
    <3>7. StrandedIsRemembered'
      BY <1>0, <2>1, <3>6, StillRemembered
    <3> QED BY <2>2, <3>3, <3>4, <3>5, <3>7 DEF IInv
  <2> QED BY <1>12, <2>3, <2>4 DEF Receive
<1>13. ASSUME NEW c \in Clients, Crash(c) PROVE IInv'
  <2>1. /\ store' \in [Keys -> Lifetimes]
        /\ \A q \in Keys : store'[q] = "plain" => store[q] = "plain" /\ ~InHand(c, q)
        /\ \A q \in Keys : store'[q] = "stranded" =>
               store[q] = "stranded" /\ q \notin expireFailed[c]
    BY <1>0, <1>13 DEF Crash, TypeOK, Lifetimes
  <2>2. /\ pc' = [pc EXCEPT ![c] = "idle"]
        /\ key' = [key EXCEPT ![c] = Nobody]
        /\ data' = [data EXCEPT ![c] = {}] /\ worker' = [worker EXCEPT ![c] = NoWorkers]
        /\ errs' = [errs EXCEPT ![c] = {}] /\ nils' = [nils EXCEPT ![c] = 0]
        /\ failedKeys' = [failedKeys EXCEPT ![c] = {}]
        /\ expireFailed' = [expireFailed EXCEPT ![c] = {}]
    BY <1>13 DEF Crash
  <2>3. /\ NoWorkers \in [Keys -> {"none", "expire", "del", "error", "nil"}]
        /\ 0 \in 0 .. Cardinality(Keys) /\ 0 + Cardinality({}) <= Cardinality({})
    BY KeysAreFinite, FS_EmptySet DEF NoWorkers
  <2>4. TypeOK'
    BY <1>0, <2>1, <2>2, <2>3 DEF TypeOK
  <2>5. InCall'
    BY <1>0, <2>2 DEF InCall, TypeOK
  <2>6. Accounted'
    BY <1>0, <2>2 DEF Accounted, Reporting, NoWorkers, TypeOK
  <2>7. \A q \in Keys : Pending(q) /\ ~InHand(c, q) => Pending(q)'
    BY <1>0, <2>2 DEF Pending, InHand, TypeOK
  <2>8. PlainIsPending'
    BY <1>0, <2>1, <2>7 DEF PlainIsPending
  <2>9. \A q \in Keys : Remembered(q) /\ q \notin expireFailed[c] => Remembered(q)'
    BY <1>0, <2>2 DEF Remembered, Accounted, Reporting, TypeOK
  <2>10. StrandedIsRemembered'
    BY <1>0, <2>1, <2>9 DEF StrandedIsRemembered
  <2> QED BY <2>4, <2>5, <2>6, <2>8, <2>10 DEF IInv
<1> QED
  BY <1>1, <1>2, <1>3, <1>4, <1>5, <1>6, <1>7, <1>8, <1>9, <1>10, <1>11, <1>12, <1>13
  DEF Next, Command, Worker

(* The invariant of the clients and their goroutines holds.                 *)
THEOREM Invariance == Spec => []IInv
  BY InitIInv, NextIInv, PTL DEF Spec

(* Type correctness; with it, the channel of an MSet never holds more       *)
(* messages than it has keys.                                               *)
THEOREM TypeCorrect == Spec => []TypeOK
  BY Invariance, PTL DEF IInv

(* However many clients write, expire and remove the same keys, fail or     *)
(* die: a key that was given a duration and has no expiry either has its     *)
(* EXPIRE still to come, or HSet's or HMSet's caller was told, or the        *)
(* process died, or an MSet that cannot tell anybody has its name.           *)
THEOREM NoKeyIsForgotten == Spec => []NoForgottenKey
<1>1. IInv => NoForgottenKey
  BY DEF IInv, PlainIsPending, StrandedIsRemembered, NoForgottenKey
<1> QED BY <1>1, Invariance, PTL

(* An MSet of any number of keys collects exactly those that failed.        *)
THEOREM FailuresAreCollected == Spec => []CollectsExactly
<1>1. IInv => CollectsExactly
  BY DEF IInv, Accounted, Reporting, NoWorkers, CollectsExactly
<1> QED BY <1>1, Invariance, PTL

(* A goroutine of MSet that finds the channel full finds its caller at the  *)
(* range, with a message there to take.                                     *)
FullIsRead ==
    \A c \in Clients, k \in Keys :
        worker[c][k] \in {"error", "nil"} /\ ~HasRoom(c) =>
            pc[c] = "range" /\ (errs[c] # {} \/ nils[c] > 0)

(* So no goroutine and its caller wait for each other, although together    *)
(* the goroutines may send twice what the channel has room for.             *)
THEOREM NobodyWaitsForRoom == Spec => []FullIsRead
<1>1. IInv => FullIsRead
  <2> SUFFICES ASSUME IInv, NEW c \in Clients, NEW k \in Keys,
                      worker[c][k] \in {"error", "nil"}, ~HasRoom(c)
               PROVE  pc[c] = "range" /\ (errs[c] # {} \/ nils[c] > 0)
    BY DEF FullIsRead
  <2>1. pc[c] = "range" /\ data[c] # {}
    BY DEF IInv, InCall, NoWorkers
  <2>2. data[c] \in SUBSET Keys /\ errs[c] \in SUBSET Keys /\ nils[c] \in Nat
    BY KeysAreFinite DEF IInv, TypeOK
  <2>3. IsFiniteSet(data[c]) /\ Cardinality(data[c]) \in Nat
    BY <2>2, KeysAreFinite
  <2>4. Cardinality(data[c]) # 0
    BY <2>1, <2>3, FS_EmptySet
  <2>5. CASE errs[c] = {}
    <3>1. Cardinality(errs[c]) = 0
      <4>1. Cardinality({}) = 0
        BY FS_EmptySet
      <4> QED BY <2>5, <4>1
    <3> QED BY <2>1, <2>2, <2>3, <2>4, <3>1 DEF HasRoom
  <2> QED BY <2>1, <2>5
<1> QED BY <1>1, Invariance, PTL
=============================================================================
