--------------------------- MODULE SchemaHistory ---------------------------
(***************************************************************************)
(* What a migrator promises, without processes, transactions or scripts:   *)
(* the set of versions recorded in the "migrations" table changes by one   *)
(* version at a time.  With Ordered it also grows upwards from the oldest  *)
(* version and shrinks downwards from the newest, which is the order that  *)
(* Up (sort.Strings) and Down ("version desc") walk in migration.go.       *)
(***************************************************************************)
EXTENDS Naturals

CONSTANTS
    Versions,  \* the versions there are, ordered by their timestamps
    Ordered    \* whether the history has no gaps

VARIABLE applied

Init == applied = {}

Apply(v) ==
    /\ v \notin applied
    /\ Ordered => \A w \in Versions : w < v => w \in applied
    /\ applied' = applied \cup {v}

Revert(v) ==
    /\ v \in applied
    /\ Ordered => \A w \in applied : w <= v
    /\ applied' = applied \ {v}

Next == \E v \in Versions : Apply(v) \/ Revert(v)

Spec == Init /\ [][Next]_applied
=============================================================================
