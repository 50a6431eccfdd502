----------------------------- MODULE RestyClient -----------------------------
(***************************************************************************)
(* http/implementations/resty/resty.go: goroutines of one process that     *)
(* send requests through handles on one resty client.                      *)
(*                                                                         *)
(* Every handle shares the client, and with it the client's UserInfo;      *)
(* monitor, isMonitor and captureError are copied from handle to handle.   *)
(* resty and the servers are external: resty builds the request, reads the *)
(* UserInfo without a lock and sends; it has no timeout.  A user stands    *)
(* for a name and the password that goes with it; each goroutine has one.  *)
(***************************************************************************)
CONSTANT
    Goroutines \* the goroutines that use the client, and their users

VARIABLES
    userInfo, \* the client's UserInfo: a user, in a set, or {}
    http      \* http[g]: the handle of g and its request

vars == <<userInfo, http>>

UserInfos == {{}} \cup {{u} : u \in Goroutines}

(* own (the user set last on the way to the handle), monitored, captures    *)
(* (what Monitor was asked for last) and overtaken (when a user was set     *)
(* behind the handle's back) are about the handle's history.                *)
TypeOK ==
    /\ userInfo \in UserInfos
    /\ http \in [Goroutines ->
            [isMonitor : BOOLEAN, monitor : BOOLEAN, captureError : BOOLEAN,
             own : UserInfos, monitored : BOOLEAN, captures : BOOLEAN,
             overtaken : {"no", "before", "during"},
             pc : {"idle", "build", "credentials", "sent", "return", "done", "panicked"},
             username : UserInfos, password : UserInfos,
             span : {"none", "open", "finished"}, event : BOOLEAN,
             answer : {"none", "ok", "error"}]]

(* The handle NewHttpRestyClient returns, when the client has these users.  *)
New(users) ==
    [isMonitor |-> FALSE, monitor |-> FALSE, captureError |-> FALSE,
     own |-> {}, monitored |-> FALSE, captures |-> FALSE,
     overtaken |-> IF users = {} THEN "no" ELSE "before",
     pc |-> "idle", username |-> {}, password |-> {},
     span |-> "none", event |-> FALSE, answer |-> "none"]

Init ==
    /\ userInfo = {}
    /\ http = [g \in Goroutines |-> New({})]

At(g, pc) == http[g].pc = pc
-----------------------------------------------------------------------------
(***************************************************************************)
(* Handles.                                                                *)
(***************************************************************************)

(* h has had the user of its client replaced. *)
Overtaken(h) ==
    [h EXCEPT !.overtaken =
        IF h.pc \in {"build", "credentials"} THEN "during"
        ELSE IF @ = "during" THEN @ ELSE "before"]

(* The handle of g, with its own user set. *)
WithUser(g) ==
    [http[g] EXCEPT !.isMonitor = TRUE, !.own = {g}, !.overtaken = "no"]

(* Mutant: a client that has a user keeps it. *)
SetBasicAuth_Once(g) ==
    /\ At(g, "idle")
    /\ userInfo' = IF userInfo = {} THEN {g} ELSE userInfo
    /\ http' = [q \in Goroutines |-> IF q = g THEN WithUser(g) ELSE Overtaken(http[q])]

(* Mutant: captureError is not handed on. *)
SetBasicAuth_NoCapture(g) ==
    /\ At(g, "idle")
    /\ userInfo' = {g}
    /\ http' = [q \in Goroutines |->
            IF q = g THEN [WithUser(g) EXCEPT !.captureError = FALSE] ELSE Overtaken(http[q])]

(* The user goes into the shared client; the handle returned has isMonitor  *)
(* set, with a monitor or without.                                          *)
SetBasicAuth(g) ==
    /\ At(g, "idle")
    /\ userInfo' = {g}
    /\ http' = [q \in Goroutines |-> IF q = g THEN WithUser(g) ELSE Overtaken(http[q])]

Monitor(g, captureError) ==
    /\ At(g, "idle")
    /\ http' = [http EXCEPT ![g].isMonitor = TRUE, ![g].monitor = TRUE,
                            ![g].monitored = TRUE, ![g].captures = captureError,
                            ![g].captureError = captureError]
    /\ UNCHANGED userInfo

(* The goroutine goes back to the handle it was given at first. *)
StartAgain(g) ==
    /\ At(g, "idle")
    /\ http' = [http EXCEPT ![g] = New(userInfo)]
    /\ UNCHANGED userInfo
-----------------------------------------------------------------------------
(***************************************************************************)
(* Requests: GET, POST, POSTForm, PUT, PATCH and DELETE do the same.       *)
(***************************************************************************)

(* startMonitor calls a monitor that is not there. *)
RequestPanics(g) ==
    /\ At(g, "idle")
    /\ http[g].isMonitor /\ ~http[g].monitor
    /\ http' = [http EXCEPT ![g].pc = "panicked"]
    /\ UNCHANGED userInfo

Request(g) ==
    /\ At(g, "idle")
    /\ http[g].isMonitor => http[g].monitor
    /\ http' = [http EXCEPT ![g].pc = "build",
                            ![g].span = IF http[g].isMonitor THEN "open" ELSE "none"]
    /\ UNCHANGED userInfo

(* The request cannot be built, for a parameter that GET has put into the   *)
(* URL as it is or a body that cannot be encoded: resty gives no response,  *)
(* and finishMonitor asks it for its status all the same, monitored or not. *)
(* (Or preRequest meets a request_id that is no string.)                    *)
BuildPanics(g) ==
    /\ At(g, "build")
    /\ http' = [http EXCEPT ![g].pc = "panicked"]
    /\ UNCHANGED userInfo

(* resty loads the UserInfo twice. *)
ReadUsername(g) ==
    /\ At(g, "build")
    /\ http' = [http EXCEPT ![g].pc = "credentials", ![g].username = userInfo]
    /\ UNCHANGED userInfo

(* None is read when there was none. *)
ReadPassword(g) ==
    /\ At(g, "credentials")
    /\ http' = [http EXCEPT ![g].pc = "sent",
                ![g].password = IF http[g].username = {} THEN {} ELSE userInfo]
    /\ UNCHANGED userInfo

(* Any status is a response; a request or a response that gets lost, or     *)
(* cannot be read, is an error, and resty gives a response without status   *)
(* or body.                                                                 *)
Answered(g, answer) ==
    /\ At(g, "sent")
    /\ http' = [http EXCEPT ![g].pc = "return", ![g].answer = answer]
    /\ UNCHANGED userInfo

(* Mutant: the deferred call forgets the span of a failed request. *)
FinishMonitor_IfOk(g) ==
    /\ At(g, "return")
    /\ http' = [http EXCEPT ![g].pc = "done",
            ![g].span = IF http[g].answer = "ok" /\ @ = "open" THEN "finished" ELSE @,
            ![g].event = /\ http[g].isMonitor /\ http[g].captureError
                         /\ http[g].answer = "error"]
    /\ UNCHANGED userInfo

(* The deferred finishMonitor: the span is finished and the error captured, *)
(* nil as nothing.                                                          *)
FinishMonitor(g) ==
    /\ At(g, "return")
    /\ http' = [http EXCEPT ![g].pc = "done",
            ![g].span = IF http[g].isMonitor THEN "finished" ELSE @,
            ![g].event = /\ http[g].isMonitor /\ http[g].captureError
                         /\ http[g].answer = "error"]
    /\ UNCHANGED userInfo

(* The caller has its answer, or somebody up the stack recovers; what is    *)
(* left is the handle.                                                      *)
Over(g) ==
    /\ http[g].pc \in {"done", "panicked"}
    /\ http' = [http EXCEPT ![g].pc = "idle", ![g].username = {}, ![g].password = {},
                ![g].span = "none", ![g].event = FALSE, ![g].answer = "none",
                ![g].overtaken = IF @ = "during" THEN "before" ELSE @]
    /\ UNCHANGED userInfo
-----------------------------------------------------------------------------
Next ==
    \E g \in Goroutines :
        \/ SetBasicAuth(g) \/ StartAgain(g)
        \/ \E captureError \in BOOLEAN : Monitor(g, captureError)
        \/ RequestPanics(g) \/ Request(g) \/ BuildPanics(g)
        \/ ReadUsername(g) \/ ReadPassword(g)
        \/ \E answer \in {"ok", "error"} : Answered(g, answer)
        \/ FinishMonitor(g) \/ Over(g)

Spec == Init /\ [][Next]_vars
-----------------------------------------------------------------------------
(***************************************************************************)
(* Properties.                                                             *)
(***************************************************************************)

(* A request carries the credentials its handle was made with, unless       *)
(* another handle has set others since; and then those of one user, unless  *)
(* that was while the request was built.                                    *)
OwnCredentials ==
    \A g \in Goroutines : http[g].pc \in {"sent", "return", "done"} =>
        /\ http[g].overtaken = "no" =>
                http[g].username = http[g].own /\ http[g].password = http[g].own
        /\ http[g].overtaken # "during" => http[g].username = http[g].password

(* A request whose handle was ever monitored has a span, which ends before  *)
(* the caller has the answer; it is left open only by a request that was    *)
(* never sent, and no such request panics for want of a monitor.            *)
SpanEndsWithRequest ==
    \A g \in Goroutines :
        /\ At(g, "done") => http[g].span = IF http[g].monitored THEN "finished" ELSE "none"
        /\ At(g, "panicked") => http[g].answer = "none"
        /\ At(g, "panicked") /\ http[g].monitored => http[g].span = "open"

(* Of the requests of a handle whose monitor was asked to capture errors,   *)
(* those that fail are captured and no others, with SetBasicAuth after      *)
(* Monitor, too.                                                            *)
FailuresAreCaptured ==
    \A g \in Goroutines : At(g, "done") =>
        (http[g].event <=> http[g].captures /\ http[g].answer = "error")
=============================================================================
