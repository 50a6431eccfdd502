----------------------------- MODULE FileStore -----------------------------
(***************************************************************************)
(* What the uploader promises its callers (uploader/uploader/uploader.go): *)
(* a call that is answered has taken effect, at once and once, between its *)
(* start and its answer; only Get answers with an error.  A call may also  *)
(* be lost, and nobody learns then whether it has taken effect; all that   *)
(* remains to happen is that the process dies.                             *)
(***************************************************************************)
CONSTANTS
    Goroutines, \* the callers
    Files       \* names of files

VARIABLES
    files,   \* the files stored
    request  \* request[g]: the call of g in progress

vars == <<files, request>>

Operations == {"Put", "Get", "Remove"}

Idle == [state |-> "idle", call |-> <<>>]

Init ==
    /\ files = {}
    /\ request = [g \in Goroutines |-> Idle]

Ask(g, op, file) ==
    /\ request[g] = Idle
    /\ request' = [request EXCEPT ![g] = [state |-> "asked", call |-> <<op, file>>]]
    /\ UNCHANGED files

(* The files after the call of g. *)
Effect(g) ==
    LET file == request[g].call[2] IN
    CASE request[g].call[1] = "Put" -> files \cup {file}
      [] request[g].call[1] = "Remove" -> files \ {file}
      [] OTHER -> files

Becomes(g, state) ==
    /\ request[g].state = "asked"
    /\ request' = [request EXCEPT ![g].state = state]

Do(g) ==
    /\ Becomes(g, "done")
    /\ request[g].call[1] = "Get" => request[g].call[2] \in files
    /\ files' = Effect(g)

(* The file is not there, or cannot be read. *)
Refuse(g) ==
    /\ Becomes(g, "refused")
    /\ request[g].call[1] = "Get"
    /\ UNCHANGED files

Lose(g) ==
    /\ Becomes(g, "lost")
    /\ files' \in {files, Effect(g)}

Answer(g) ==
    /\ request[g].state \in {"done", "refused"}
    /\ request' = [request EXCEPT ![g] = Idle]
    /\ UNCHANGED files

Die ==
    /\ request' = [g \in Goroutines |-> Idle]
    /\ UNCHANGED files

Next ==
    \/ \E g \in Goroutines :
        \/ \E op \in Operations, file \in Files : Ask(g, op, file)
        \/ Do(g) \/ Refuse(g) \/ Lose(g) \/ Answer(g)
    \/ Die

Spec == Init /\ [][Next]_vars
=============================================================================
