----------------------------- MODULE KafkaQueue -----------------------------
(***************************************************************************)
(* The consumer loop and the producer of                                   *)
(* queue/implementations/kafkago/kafka.go over one partition of a topic.   *)
(*                                                                         *)
(* ReadMessages and WriteMessages both open a kafka.Reader, that is, a     *)
(* member of the consumer group, and neither ever closes it.  The group    *)
(* (join, session timeout, assignment, offsets) is external: whenever the  *)
(* membership changes some member gets the partition and starts again at   *)
(* the committed offset, or at the end of the log if there is none         *)
(* (StartOffset: kafka.LastOffset).  Messages are their offsets.           *)
(***************************************************************************)
EXTENDS Naturals

CONSTANTS
    Consumers,  \* processes that call ReadMessages
    Writers,    \* processes that call WriteMessages in the same group
    Retry,      \* the argument `retry`
    MaxLog,     \* bound: messages other producers append
    None        \* no offset, no member

ASSUME KafkaAssumption ==
    /\ Consumers \cap Writers = {}
    /\ Retry \in BOOLEAN
    /\ MaxLog \in Nat
    /\ None \notin Nat \cup Consumers \cup Writers

Readers == Consumers \cup Writers
Offsets == 0 .. (MaxLog - 1)

VARIABLES
    log,        \* messages in the partition; the next one gets offset `log`
    committed,  \* the offset the group has committed, or None
    members,    \* readers in the group
    owner,      \* the reader the partition is assigned to, or None
    start,      \* start[r]: where r's current session started
    next,       \* next[r]: the offset r fetches next
    pc,         \* pc[r]: where the method of r is
    message,    \* message[r]: what r fetched last; None: the zero message
    handled,    \* offsets some handler was called with, to its end
    late        \* ghost: those not handled before a session that started behind
                \* them, at the end of the log, for want of a commit

broker == <<log, committed, members, owner, start, late>>
vars == <<log, committed, members, owner, start, next, pc, message, handled, late>>

TypeOK ==
    /\ log \in 0 .. MaxLog
    /\ committed \in 1 .. MaxLog \cup {None}
    /\ members \in SUBSET Readers
    /\ owner \in members \cup {None}
    /\ start \in [Readers -> 0 .. MaxLog]
    /\ next \in [Readers -> 0 .. MaxLog]
    /\ pc \in [Readers -> {"off", "fetch", "handle", "commit", "publish", "returned"}]
    /\ message \in [Readers -> Offsets \cup {None}]
    /\ handled \in SUBSET Offsets
    /\ late \in SUBSET Offsets

Init ==
    /\ log = 0
    /\ committed = None
    /\ members = {}
    /\ owner = None
    /\ start = [r \in Readers |-> 0]
    /\ next = [r \in Readers |-> 0]
    /\ pc = [r \in Readers |-> "off"]
    /\ message = [r \in Readers |-> None]
    /\ handled = {}
    /\ late = {}
-----------------------------------------------------------------------------
(***************************************************************************)
(* The broker and the group.                                               *)
(***************************************************************************)
Append ==
    /\ log < MaxLog
    /\ log' = log + 1
    /\ UNCHANGED <<committed, members, owner, start, next, pc, message, handled, late>>

(* StartOffset counts only while the group has committed nothing. *)
StartOffset == IF committed = None THEN log ELSE committed

(* A new generation: some member is assigned the partition. *)
Rebalance(group) ==
    /\ members' = group
    /\ owner' \in IF group = {} THEN {None} ELSE group
    /\ start' = [r \in Readers |-> IF r = owner' THEN StartOffset ELSE start[r]]
    /\ next' = [r \in Readers |-> IF r = owner' THEN StartOffset ELSE next[r]]
    /\ late' = IF owner' = None \/ committed # None THEN late
               ELSE late \cup ((0 .. log - 1) \ handled)
    /\ UNCHANGED <<log, committed>>
-----------------------------------------------------------------------------
(***************************************************************************)
(* The methods.                                                            *)
(***************************************************************************)
ReadMessages(r) ==
    /\ r \in Consumers
    /\ pc[r] = "off"
    /\ Rebalance(members \cup {r})
    /\ pc' = [pc EXCEPT ![r] = "fetch"]
    /\ UNCHANGED <<message, handled>>

(* Mutant: ReadMessage, which commits what it fetches, for FetchMessage. *)
Fetch_Commits(r) ==
    /\ pc[r] = "fetch"
    /\ owner = r
    /\ next[r] < log
    /\ message' = [message EXCEPT ![r] = next[r]]
    /\ next' = [next EXCEPT ![r] = @ + 1]
    /\ committed' = next[r] + 1
    /\ pc' = [pc EXCEPT ![r] = "handle"]
    /\ UNCHANGED <<log, members, owner, start, late, handled>>

(* FetchMessage waits for a message of the partition, if r has it. *)
Fetch(r) ==
    /\ pc[r] = "fetch"
    /\ owner = r
    /\ next[r] < log
    /\ message' = [message EXCEPT ![r] = next[r]]
    /\ next' = [next EXCEPT ![r] = @ + 1]
    /\ pc' = [pc EXCEPT ![r] = "handle"]
    /\ UNCHANGED <<broker, handled>>

(* Mutant: the failed fetch moves the reader on. *)
FetchFails_Skips(r) ==
    /\ pc[r] = "fetch"
    /\ next[r] < log
    /\ message' = [message EXCEPT ![r] = None]
    /\ next' = [next EXCEPT ![r] = @ + 1]
    /\ pc' = [pc EXCEPT ![r] = "handle"]
    /\ UNCHANGED <<broker, handled>>

(* Mutant: ReadMessages returns the error, and its reader stays open. *)
FetchFails_Returns(r) ==
    /\ pc[r] = "fetch"
    /\ pc' = [pc EXCEPT ![r] = "returned"]
    /\ UNCHANGED <<broker, next, message, handled>>

(* An error is logged, and the handler is called with the zero message. *)
FetchFails(r) ==
    /\ pc[r] = "fetch"
    /\ message' = [message EXCEPT ![r] = None]
    /\ pc' = [pc EXCEPT ![r] = "handle"]
    /\ UNCHANGED <<broker, next, handled>>

(* What the loop does with the handler's error. *)
AfterHandler(error) == IF error /\ Retry THEN "commit" ELSE "fetch"

Handle(r, error) ==
    /\ pc[r] = "handle"
    /\ handled' = handled \cup ({message[r]} \ {None})
    /\ pc' = [pc EXCEPT ![r] = AfterHandler(error)]
    /\ UNCHANGED <<broker, next, message>>

(* The offset a reader commits for its message. *)
CommitOffset(r) == message[r] + 1

(* "retrying message..." (line 96) commits the message whose handler failed; *)
(* the loop goes on to the next one, and nothing hands it out again.        *)
(* CommitMessages: the zero message has no topic and commits nothing; the  *)
(* call may fail, which is logged.  A member may commit a message of an     *)
(* earlier generation.                                                      *)
Commit(r) ==
    /\ pc[r] = "commit"
    /\ \/ message[r] # None /\ committed' = CommitOffset(r)
       \/ UNCHANGED committed
    /\ pc' = [pc EXCEPT ![r] = "fetch"]
    /\ UNCHANGED <<log, members, owner, start, late, next, message, handled>>

(* WriteMessages opens its "producer", a reader that joins the group ... *)
WriteMessages(r) ==
    /\ r \in Writers
    /\ pc[r] = "off"
    /\ Rebalance(members \cup {r})
    /\ pc' = [pc EXCEPT ![r] = "publish"]
    /\ UNCHANGED <<message, handled>>

(* ... and calls CommitMessages on it with a message that has no topic.    *)
(* Whatever it answers, WriteMessages returns and leaves the reader open.  *)
Publish(r) ==
    /\ pc[r] = "publish"
    /\ pc' = [pc EXCEPT ![r] = "returned"]
    /\ UNCHANGED <<broker, next, message, handled>>

(* The process dies and its session expires; it may be started again. *)
Crash(r) ==
    /\ pc[r] # "off"
    /\ Rebalance(members \ {r})
    /\ pc' = [pc EXCEPT ![r] = "off"]
    /\ message' = [message EXCEPT ![r] = None]
    /\ UNCHANGED handled
-----------------------------------------------------------------------------
Loop(r) == (\E error \in BOOLEAN : Handle(r, error)) \/ Commit(r)

Next ==
    \/ Append
    \/ \E r \in Readers :
          \/ ReadMessages(r) \/ Fetch(r) \/ FetchFails(r) \/ Loop(r)
          \/ WriteMessages(r) \/ Publish(r) \/ Crash(r)

(* The loop goes on, handlers return, and a broker that has a message does *)
(* not answer every fetch with an error.                                    *)
Fairness == \A r \in Consumers : WF_vars(Loop(r)) /\ SF_vars(Fetch(r))

Spec == Init /\ [][Next]_vars
FairSpec == Spec /\ Fairness
-----------------------------------------------------------------------------
(***************************************************************************)
(* Properties.                                                             *)
(***************************************************************************)

(* However fetches fail and members come and go, a session hands every      *)
(* message from its start on to the handler: none is passed over.           *)
SessionHasNoGap ==
    \A r \in Consumers :
        owner = r =>
            \A o \in start[r] .. (next[r] - 1) :
                o \in handled \/ (pc[r] = "handle" /\ message[r] = o)

(* At least once, across sessions: whatever the group has committed, in     *)
(* whatever order members that lost the partition commit their messages,    *)
(* and wherever a process dies, the owner is behind no message that was     *)
(* never handled, but the one in its hands and those a session without a    *)
(* commit started behind (LastOffset).                                      *)
NothingIsLost ==
    owner # None =>
        \A o \in Offsets : o < next[owner] =>
            o \in handled \cup late \/ (pc[owner] = "handle" /\ message[owner] = o)

(* Once members stop joining and leaving, every message the owner's session *)
(* covers is handled, although any of its fetches may fail on the way.      *)
GroupSettles == <>[][members' = members]_vars

HandledEventually ==
    GroupSettles =>
        \A r \in Consumers, o \in Offsets :
            owner = r /\ start[r] <= o /\ o < log
                ~> o \in handled \/ owner # r \/ start[r] > o
=============================================================================
