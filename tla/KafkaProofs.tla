---------------------------- MODULE KafkaProofs ----------------------------
(***************************************************************************)
(* Proofs about the consumer loop, for any number of consumers, writers    *)
(* and messages.                                                           *)
(*                                                                         *)
(* The properties are inductive together with what a commit covers: what a *)
(* reader fetched is behind nothing that was never handled, and nor is what *)
(* it commits once its handler was called, whoever owns the partition then. *)
(***************************************************************************)
EXTENDS KafkaQueue, TLAPS

(* Every offset below n was handled, or nobody is to handle it any more.   *)
Covered(n) == \A o \in Offsets : o < n => o \in handled \cup late

CommitsCover ==
    /\ committed # None => Covered(committed)
    /\ \A r \in Readers : message[r] # None =>
          /\ pc[r] = "handle" => Covered(message[r])
          /\ pc[r] = "commit" => Covered(message[r] + 1)

IInv == TypeOK /\ CommitsCover /\ SessionHasNoGap /\ NothingIsLost

(* There is no member yet.                                                  *)
LEMMA InitIInv == Init => IInv
  BY KafkaAssumption
  DEF Init, IInv, TypeOK, CommitsCover, SessionHasNoGap, NothingIsLost, Readers

(* A message is not the zero message.                                       *)
LEMMA OffsetsAreNat == Offsets \subseteq Nat /\ None \notin Offsets /\ None \notin Nat
  BY KafkaAssumption DEF Offsets

(* What is below the successor of an offset.                                *)
LEMMA BelowNext ==
  ASSUME NEW n \in Nat, NEW o \in Offsets, o < n + 1
  PROVE  o = n \/ o < n
  BY OffsetsAreNat

(* A new generation of the group starts within the log ...                  *)
LEMMA RebalanceType ==
  ASSUME TypeOK, NEW group \in SUBSET Readers, Rebalance(group)
  PROVE  /\ members' \in SUBSET Readers
         /\ owner' \in members' \cup {None}
         /\ start' \in [Readers -> 0 .. MaxLog]
         /\ next' \in [Readers -> 0 .. MaxLog]
<1>1. StartOffset \in 0 .. MaxLog
  BY KafkaAssumption DEF StartOffset, TypeOK
<1> QED BY <1>1 DEF Rebalance, TypeOK

(* ... and nobody has passed over a message of it yet.                      *)
LEMMA RebalanceHasNoGap ==
  ASSUME TypeOK, NEW group \in SUBSET Readers, Rebalance(group)
  PROVE  SessionHasNoGap'
<1>1. StartOffset \in 0 .. MaxLog
  BY KafkaAssumption DEF StartOffset, TypeOK
<1>2. ASSUME NEW r \in Consumers, owner' = r
      PROVE  start'[r] = StartOffset /\ next'[r] = StartOffset
  BY <1>2 DEF Rebalance, Readers
<1>3. StartOffset .. (StartOffset - 1) = {}
  BY <1>1, KafkaAssumption
<1> QED BY <1>2, <1>3 DEF SessionHasNoGap

(* What is covered stays covered: a step that commits nothing and hands    *)
(* nobody a message to handle or to commit leaves CommitsCover alone.       *)
LEMMA CoverStays ==
  ASSUME CommitsCover, handled \subseteq handled', late \subseteq late',
         committed' = committed,
         \A r \in Readers : message'[r] # None /\ pc'[r] \in {"handle", "commit"} =>
             pc'[r] = pc[r] /\ message'[r] = message[r]
  PROVE  CommitsCover'
  BY DEF CommitsCover, Covered

(* A session starts behind nothing that is to be handled: at a commit, or at *)
(* the end of the log, which makes the rest late.                            *)
LEMMA RebalanceLosesNothing ==
  ASSUME TypeOK, CommitsCover, NEW group \in SUBSET Readers, Rebalance(group),
         handled' = handled
  PROVE  /\ late \subseteq late' /\ late' \in SUBSET Offsets
         /\ NothingIsLost'
<1>1. late \subseteq late' /\ late' \in SUBSET Offsets
  BY KafkaAssumption DEF Rebalance, TypeOK, Offsets
<1>2. ASSUME owner' # None PROVE next'[owner'] = StartOffset
  BY <1>2, KafkaAssumption DEF Rebalance, TypeOK
<1>3. ASSUME owner' # None, NEW o \in Offsets, o < StartOffset
      PROVE  o \in handled' \cup late'
  <2>1. CASE committed = None
    BY <1>3, <2>1, OffsetsAreNat DEF StartOffset, Rebalance, TypeOK, Offsets
  <2>2. CASE committed # None
    BY <1>1, <1>3, <2>2 DEF StartOffset, CommitsCover, Covered
  <2> QED BY <2>1, <2>2
<1> QED BY <1>1, <1>2, <1>3 DEF NothingIsLost

(* Every step keeps the invariant.                                          *)
LEMMA NextIInv == IInv /\ [Next]_vars => IInv'
<1> SUFFICES ASSUME IInv, [Next]_vars PROVE IInv'
  OBVIOUS
<1> USE KafkaAssumption
<1>0. /\ TypeOK /\ CommitsCover /\ SessionHasNoGap /\ NothingIsLost
      /\ Offsets \subseteq Nat /\ None \notin Offsets
  BY OffsetsAreNat DEF IInv
<1>1. CASE UNCHANGED vars
  <2>1. TypeOK' /\ CommitsCover'
    BY <1>0, <1>1 DEF vars, TypeOK, CommitsCover, Covered
  <2>2. SessionHasNoGap' /\ NothingIsLost'
    BY <1>0, <1>1 DEF vars, SessionHasNoGap, NothingIsLost
  <2> QED BY <2>1, <2>2 DEF IInv
<1>2. CASE Append
  <2>1. TypeOK'
    BY <1>0, <1>2 DEF Append, TypeOK
  <2>2. CommitsCover'
    BY <1>0, <1>2, CoverStays DEF Append
  <2>3. SessionHasNoGap' /\ NothingIsLost'
    BY <1>0, <1>2 DEF Append, SessionHasNoGap, NothingIsLost
  <2> QED BY <2>1, <2>2, <2>3 DEF IInv
<1>3. ASSUME NEW r \in Readers, ReadMessages(r) \/ WriteMessages(r) PROVE IInv'
  <2>1. Rebalance(members \cup {r}) /\ members \cup {r} \in SUBSET Readers
    BY <1>0, <1>3 DEF ReadMessages, WriteMessages, TypeOK
  <2>2. /\ UNCHANGED <<log, committed, message, handled>>
        /\ \/ pc' = [pc EXCEPT ![r] = "fetch"]
           \/ pc' = [pc EXCEPT ![r] = "publish"]
    BY <1>3 DEF ReadMessages, WriteMessages, Rebalance
  <2>3. late \subseteq late' /\ late' \in SUBSET Offsets /\ NothingIsLost'
    BY <1>0, <2>1, <2>2, RebalanceLosesNothing
  <2>4. SessionHasNoGap'
    BY <1>0, <2>1, RebalanceHasNoGap
  <2>5. TypeOK'
    BY <1>0, <2>1, <2>2, <2>3, RebalanceType DEF TypeOK
  <2>6. CommitsCover'
    BY <1>0, <2>2, <2>3, CoverStays DEF TypeOK
  <2> QED BY <2>3, <2>4, <2>5, <2>6 DEF IInv
<1>4. ASSUME NEW r \in Readers, Crash(r) PROVE IInv'
  <2>1. Rebalance(members \ {r}) /\ members \ {r} \in SUBSET Readers
    BY <1>0, <1>4 DEF Crash, TypeOK
  <2>2. /\ UNCHANGED <<log, committed, handled>>
        /\ pc' = [pc EXCEPT ![r] = "off"]
        /\ message' = [message EXCEPT ![r] = None]
    BY <1>4 DEF Crash, Rebalance
  <2>3. late \subseteq late' /\ late' \in SUBSET Offsets /\ NothingIsLost'
    BY <1>0, <2>1, <2>2, RebalanceLosesNothing
  <2>4. SessionHasNoGap'
    BY <1>0, <2>1, RebalanceHasNoGap
  <2>5. TypeOK'
    BY <1>0, <2>1, <2>2, <2>3, RebalanceType DEF TypeOK
  <2>6. CommitsCover'
    BY <1>0, <2>2, <2>3, CoverStays DEF TypeOK
  <2> QED BY <2>3, <2>4, <2>5, <2>6 DEF IInv
<1>5. ASSUME NEW r \in Readers, Fetch(r) PROVE IInv'
  <2>1. next[r] \in Offsets /\ next[r] + 1 \in 0 .. MaxLog
    BY <1>0, <1>5 DEF Fetch, TypeOK, Offsets
  <2>2. TypeOK'
    BY <1>0, <1>5, <2>1 DEF Fetch, broker, TypeOK
  <2>3. /\ owner = r /\ owner' = r /\ r # None
        /\ message'[r] = next[r] /\ next'[r] = next[r] + 1 /\ start'[r] = start[r]
        /\ pc[r] = "fetch" /\ pc'[r] = "handle"
        /\ UNCHANGED <<handled, late, committed>>
    BY <1>0, <1>5 DEF Fetch, broker, TypeOK, Readers
  <2>4. Covered(next[r])
    BY <1>0, <2>3 DEF NothingIsLost, Covered
  <2>5. CommitsCover'
    <3>1. ASSUME NEW q \in Readers, message'[q] # None
          PROVE  /\ pc'[q] = "handle" => Covered(message[q])'
                 /\ pc'[q] = "commit" => Covered(message[q] + 1)'
      <4>1. CASE q = r
        BY <2>3, <2>4, <4>1 DEF Covered
      <4>2. CASE q # r
        <5>1. pc'[q] = pc[q] /\ message'[q] = message[q]
          BY <1>0, <1>5, <4>2 DEF Fetch, TypeOK
        <5> QED BY <1>0, <2>3, <3>1, <5>1 DEF CommitsCover, Covered
      <4> QED BY <4>1, <4>2
    <3> QED BY <1>0, <2>3, <3>1 DEF CommitsCover, Covered
  <2>6. NothingIsLost'
    <3>1. next[r] \in Nat
      BY <2>1, OffsetsAreNat
    <3>2. ASSUME NEW o \in Offsets, o < next[r] + 1
          PROVE  o \in handled' \cup late' \/ message'[r] = o
      <4>1. o = next[r] \/ o < next[r]
        BY <3>1, <3>2, BelowNext
      <4> QED BY <2>3, <2>4, <4>1 DEF Covered
    <3> QED BY <2>3, <3>2 DEF NothingIsLost
  <2>7. ASSUME NEW q \in Consumers, owner' = q, NEW o \in start'[q] .. (next'[q] - 1)
        PROVE  (o \in handled \/ (pc[q] = "handle" /\ message[q] = o))'
    <3>1. q = r /\ q \in Readers
      BY <2>3, <2>7 DEF Readers
    <3>2. start[q] \in Nat /\ next[q] \in Nat
      BY <1>0, <3>1 DEF TypeOK
    <3>3. CASE o = next[q]
      BY <2>3, <3>1, <3>3
    <3>4. CASE o # next[q]
      <4>1. o \in start[q] .. (next[q] - 1)
        BY <2>3, <2>7, <3>1, <3>2, <3>4
      <4>2. o \in handled
        BY <1>0, <2>3, <3>1, <4>1 DEF SessionHasNoGap
      <4> QED BY <2>3, <4>2
    <3> QED BY <3>3, <3>4
  <2> QED BY <2>2, <2>5, <2>6, <2>7 DEF IInv, SessionHasNoGap
<1>6. ASSUME NEW r \in Readers, FetchFails(r) PROVE IInv'
  <2>1. TypeOK'
    BY <1>0, <1>6 DEF FetchFails, broker, TypeOK
  <2>2. CommitsCover'
    BY <1>0, <1>6, CoverStays DEF FetchFails, broker, TypeOK
  <2>3. SessionHasNoGap' /\ NothingIsLost'
    BY <1>0, <1>6
    DEF FetchFails, broker, TypeOK, SessionHasNoGap, NothingIsLost, Readers
  <2> QED BY <2>1, <2>2, <2>3 DEF IInv
<1>7. ASSUME NEW r \in Readers, NEW error \in BOOLEAN, Handle(r, error) PROVE IInv'
  <2>1. message[r] \in Offsets \cup {None}
    BY <1>0 DEF TypeOK
  <2>2. pc' \in [Readers -> {"off", "fetch", "handle", "commit", "publish", "returned"}]
    BY <1>0, <1>7 DEF Handle, AfterHandler, TypeOK
  <2>3. TypeOK'
    BY <1>0, <1>7, <2>1, <2>2 DEF Handle, broker, TypeOK
  <2>4. handled \subseteq handled' /\ UNCHANGED <<broker, next, message>>
    BY <1>7 DEF Handle
  <2>5. pc[r] = "handle" /\ (message[r] # None => message[r] \in handled')
    BY <1>7 DEF Handle
  <2>6. ASSUME NEW q \in Readers, q # r PROVE pc'[q] = pc[q]
    BY <1>0, <1>7, <2>6 DEF Handle, TypeOK
  <2>7. CommitsCover'
    <3>1. pc'[r] # "handle"
      BY <1>0, <1>7 DEF Handle, AfterHandler, TypeOK
    <3>2. ASSUME message[r] # None, NEW o \in Offsets, o < message[r] + 1
          PROVE  o \in handled' \cup late'
      <4>1. message[r] \in Nat
        BY <2>1, <3>2, OffsetsAreNat
      <4>2. o = message[r] \/ o < message[r]
        BY <3>2, <4>1, BelowNext
      <4>3. \A p \in Offsets : p < message[r] => p \in handled \cup late
        BY <1>0, <2>5, <3>2 DEF CommitsCover, Covered
      <4>4. late' = late
        BY <2>4 DEF broker
      <4> QED BY <2>4, <2>5, <3>2, <4>2, <4>3, <4>4
    <3>3. ASSUME NEW q \in Readers, message'[q] # None
          PROVE  /\ pc'[q] = "handle" => Covered(message[q])'
                 /\ pc'[q] = "commit" => Covered(message[q] + 1)'
      <4>1. CASE q = r
        <5>1. message'[q] = message[r] /\ message[r] # None
          BY <2>4, <3>3, <4>1
        <5>2. Covered(message[q] + 1)'
          BY <3>2, <4>1, <5>1 DEF Covered
        <5> QED BY <3>1, <4>1, <5>2
      <4>2. CASE q # r
        BY <1>0, <2>4, <2>6, <3>3, <4>2 DEF CommitsCover, Covered, broker
      <4> QED BY <4>1, <4>2
    <3>4. committed' # None => Covered(committed)'
      BY <1>0, <2>4 DEF CommitsCover, Covered, broker
    <3> QED BY <3>3, <3>4 DEF CommitsCover
  <2>8. ASSUME NEW q \in Readers, NEW o \in Nat, pc[q] = "handle", message[q] = o
        PROVE  o \in handled' \/ (pc'[q] = "handle" /\ message'[q] = o)
    BY <2>4, <2>5, <2>6, <2>8
  <2>9. ASSUME NEW q \in Consumers, owner' = q, NEW o \in start'[q] .. (next'[q] - 1)
        PROVE  (o \in handled \/ (pc[q] = "handle" /\ message[q] = o))'
    <3>1. q \in Readers /\ owner = q /\ o \in start[q] .. (next[q] - 1)
      BY <2>4, <2>9 DEF broker, Readers
    <3>2. o \in Nat
      BY <1>0, <3>1 DEF TypeOK
    <3>3. o \in handled \/ (pc[q] = "handle" /\ message[q] = o)
      BY <1>0, <3>1 DEF SessionHasNoGap
    <3> QED BY <2>4, <2>8, <3>1, <3>2, <3>3
  <2>10. ASSUME owner' # None, NEW o \in Offsets, o < next'[owner']
         PROVE  (o \in handled \cup late \/ (pc[owner] = "handle" /\ message[owner] = o))'
    <3>1. owner' = owner /\ owner \in Readers /\ o < next[owner]
      BY <1>0, <2>4, <2>10 DEF broker, TypeOK
    <3>2. o \in Nat
      BY OffsetsAreNat
    <3>3. o \in handled \cup late \/ (pc[owner] = "handle" /\ message[owner] = o)
      BY <1>0, <2>10, <3>1 DEF NothingIsLost
    <3>4. late' = late
      BY <2>4 DEF broker
    <3> QED BY <2>4, <2>8, <3>1, <3>2, <3>3, <3>4
  <2> QED
    BY <2>3, <2>7, <2>9, <2>10 DEF IInv, SessionHasNoGap, NothingIsLost
<1>8. ASSUME NEW r \in Readers, Commit(r) PROVE IInv'
  <2>1. \/ UNCHANGED committed
        \/ /\ message[r] \in Offsets /\ committed' = message[r] + 1
           /\ Covered(message[r] + 1)
    BY <1>0, <1>8 DEF Commit, CommitOffset, TypeOK, CommitsCover
  <2>2. committed' \in 1 .. MaxLog \cup {None}
    BY <1>0, <2>1 DEF TypeOK, Offsets
  <2>3. TypeOK'
    BY <1>0, <1>8, <2>2 DEF Commit, TypeOK
  <2>4. UNCHANGED <<message, handled, late>> /\ pc' = [pc EXCEPT ![r] = "fetch"]
    BY <1>8 DEF Commit
  <2>5. committed' # None => Covered(committed)'
    BY <1>0, <2>1, <2>4 DEF CommitsCover, Covered
  <2>6. ASSUME NEW q \in Readers, message'[q] # None
        PROVE  /\ pc'[q] = "handle" => Covered(message[q])'
               /\ pc'[q] = "commit" => Covered(message[q] + 1)'
    <3>1. pc'[q] \in {"handle", "commit"} => pc'[q] = pc[q]
      BY <1>0, <2>4 DEF TypeOK
    <3> QED BY <1>0, <2>4, <2>6, <3>1 DEF CommitsCover, Covered
  <2>7. CommitsCover'
    BY <2>5, <2>6 DEF CommitsCover
  <2>8. SessionHasNoGap' /\ NothingIsLost'
    BY <1>0, <1>8 DEF Commit, TypeOK, SessionHasNoGap, NothingIsLost, Readers
  <2> QED BY <2>3, <2>7, <2>8 DEF IInv
<1>9. ASSUME NEW r \in Readers, Publish(r) PROVE IInv'
  <2>1. TypeOK'
    BY <1>0, <1>9 DEF Publish, broker, TypeOK
  <2>2. CommitsCover'
    BY <1>0, <1>9, CoverStays DEF Publish, broker, TypeOK
  <2>3. SessionHasNoGap' /\ NothingIsLost'
    BY <1>0, <1>9 DEF Publish, broker, TypeOK, SessionHasNoGap, NothingIsLost, Readers
  <2> QED BY <2>1, <2>2, <2>3 DEF IInv
<1> QED
  BY <1>1, <1>2, <1>3, <1>4, <1>5, <1>6, <1>7, <1>8, <1>9 DEF Next, Loop

(* The loop's invariant holds.                                              *)
THEOREM Invariance == Spec => []IInv
  BY InitIInv, NextIInv, PTL DEF Spec

(* The readers, their sessions and what they hold keep their types.         *)
THEOREM TypeCorrect == Spec => []TypeOK
  BY Invariance, PTL DEF IInv

(* However many consumers and writers join, crash and take the partition    *)
(* from each other, and whichever fetches fail, no session passes over a    *)
(* message.                                                                 *)
THEOREM NoMessagePassedOver == Spec => []SessionHasNoGap
  BY Invariance, PTL DEF IInv

(* Whatever is committed, in whatever order and by whom, the owner of the   *)
(* partition is behind no unhandled message but the one in its hands and    *)
(* those that came late.                                                    *)
THEOREM NoMessageIsLost == Spec => []NothingIsLost
  BY Invariance, PTL DEF IInv
=============================================================================
