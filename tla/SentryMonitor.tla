--------------------------- MODULE SentryMonitor ---------------------------
(***************************************************************************)
(* monitor/implementations/sentry/sentrygo/sentry.go: one monitor shared   *)
(* by the requests of a server, with the spans its middlewares, its gRPC   *)
(* client interceptor and the adapters' doMonitor open and finish, and the *)
(* hub its events go to.                                                   *)
(*                                                                         *)
(* The hub and the spans of sentry-go are external: a hub is known by the  *)
(* request whose echo hub it was cloned from, and a scope set on one clone *)
(* is not seen by another.  An adapter call stands for any method of the   *)
(* redis, SQL, mongo, kafka or minio adapter that does                     *)
(* `defer x.doMonitor(...)()`; the http adapter is in RestyClient.         *)
(***************************************************************************)
EXTENDS Naturals

CONSTANTS
    Requests, \* slots for the requests the server has in hand
    Global    \* sentry.CurrentHub()

ASSUME SentryAssumption == Global \notin Requests

Hubs == Requests \cup {Global}

VARIABLES
    hub,    \* s.hub
    request \* request[r]: the request in slot r

vars == <<hub, request>>

(* kind says which middleware the request passes: SetNewTransaction or      *)
(* GRPCServerMonitor.  pc "ok", "error" and "panic" is a handler that ends  *)
(* so, with its defers still to run.  root is the span the middleware       *)
(* opened, inContext says whether the context of the calls holds it; parent *)
(* is what the open span of a call is a child of (the root of a request, or *)
(* Global if it is a transaction), in a set; scoped is the hub in the       *)
(* monitor SetScope gave; event is the event captured last.  failed and     *)
(* overtaken are history: has anything failed, and has s.hub been replaced  *)
(* since the request came in.                                               *)
TypeOK ==
    /\ hub \in Hubs
    /\ request \in [Requests ->
            [kind : {"none", "echo", "grpc"},
             pc : {"outside", "handler", "call", "ok", "error", "panic",
                   "returned", "panicked"},
             root : {"none", "open", "finished"}, inContext : BOOLEAN,
             call : {"none", "adapter", "client"}, parent : SUBSET Hubs,
             recovers : {"no", "deferred", "panic", "nothing"},
             scoped : SUBSET Hubs,
             event : SUBSET [hub : Hubs, wanted : BOOLEAN, scope : BOOLEAN],
             failed : BOOLEAN, overtaken : BOOLEAN]]

New == [kind |-> "none", pc |-> "outside", root |-> "none", inContext |-> FALSE,
        call |-> "none", parent |-> {}, recovers |-> "no", scoped |-> {},
        event |-> {}, failed |-> FALSE, overtaken |-> FALSE]

Init ==
    /\ hub = Global
    /\ request = [r \in Requests |-> New]

At(r, pc) == request[r].pc = pc
Echo(r) == request[r].kind = "echo"
Grpc(r) == request[r].kind = "grpc"
-----------------------------------------------------------------------------
(***************************************************************************)
(* The middlewares, when a request comes in.                               *)
(***************************************************************************)

(* SetNewTransaction lets a swagger request, or one without a hub, through. *)
EchoSkips(r) ==
    /\ At(r, "outside")
    /\ request' = [request EXCEPT ![r].kind = "echo", ![r].pc = "handler"]
    /\ UNCHANGED hub

(* r has its transaction, and those that came before it another hub. *)
Entered(r) ==
    request' = [q \in Requests |->
        IF q = r
        THEN [request[r] EXCEPT !.kind = "echo", !.pc = "handler", !.root = "open"]
        ELSE [request[q] EXCEPT !.overtaken = request[q].root # "none"]]

(* Mutant: the hub is set once. *)
EchoEnters_SetsHubOnce(r) ==
    /\ At(r, "outside")
    /\ hub' = IF hub = Global THEN r ELSE hub
    /\ Entered(r)

(* For any other it replaces s.hub by a clone of the request's hub, opens   *)
(* the transaction and defers its finish.                                   *)
EchoEnters(r) ==
    /\ At(r, "outside")
    /\ hub' = r
    /\ Entered(r)

(* GRPCServerMonitor opens a transaction and puts it into the context. *)
GrpcEnters(r) ==
    /\ At(r, "outside")
    /\ request' = [request EXCEPT ![r].kind = "grpc", ![r].pc = "handler",
                                  ![r].root = "open", ![r].inContext = TRUE]
    /\ UNCHANGED hub

(* CreateNewContextWithTransaction: no change without a transaction. *)
CreateContext(r) ==
    /\ Echo(r)
    /\ At(r, "handler")
    /\ request' = [request EXCEPT ![r].inContext = request[r].root # "none"]
    /\ UNCHANGED hub
-----------------------------------------------------------------------------
(***************************************************************************)
(* Events.                                                                 *)
(***************************************************************************)

(* What a capture makes: an event on the monitor's hub of this moment, or,  *)
(* by a monitor SetScope gave, one that wants a scope on that one's hub.    *)
(* The scope is set on a clone of it, the event captured on another.        *)
Events(r) ==
    {[hub |-> hub, wanted |-> FALSE, scope |-> FALSE]} \cup
    {[hub |-> on, wanted |-> TRUE, scope |-> FALSE] : on \in request[r].scoped}

(* Mutant: nil is captured, too. *)
CapturedError_Nil(r, error) == {[hub |-> hub, wanted |-> FALSE, scope |-> FALSE]}

(* Capture(nil) captures nothing. *)
CapturedError(r, error) ==
    IF error THEN {[hub |-> hub, wanted |-> FALSE, scope |-> FALSE]}
    ELSE request[r].event

(* SetScope: another monitor with the hub of this moment. *)
SetScope(r) ==
    /\ At(r, "handler")
    /\ request' = [request EXCEPT ![r].scoped = {hub}]
    /\ UNCHANGED hub

(* Capture or CaptureMessage by the handler. *)
Capture(r) ==
    /\ At(r, "handler")
    /\ \E e \in Events(r) :
        request' = [request EXCEPT ![r].event = {e}, ![r].failed = TRUE]
    /\ UNCHANGED hub
-----------------------------------------------------------------------------
(***************************************************************************)
(* Calls of the adapters, and of gRPC servers through GRPCClientMonitor.   *)
(***************************************************************************)

(* NewTransactionFromContext: a child of the context's transaction, or a    *)
(* transaction of its own.                                                  *)
ParentFromContext(r) == IF request[r].inContext THEN r ELSE Global

CallStarts(r, call) ==
    /\ At(r, "handler")
    /\ request' = [request EXCEPT ![r].pc = "call", ![r].call = call,
                                  ![r].parent = {ParentFromContext(r)}]
    /\ UNCHANGED hub

(* The error of an adapter is captured by its captureError, if asked, that  *)
(* of a gRPC call always; the span is finished.                             *)
CallReturns(r, error) ==
    /\ At(r, "call")
    /\ request' = [request EXCEPT
            ![r].pc = "handler", ![r].call = "none", ![r].parent = {},
            ![r].event = CapturedError(r, error), ![r].failed = @ \/ error]
    /\ UNCHANGED hub

(* Mutant: the adapter's finish is not deferred either. *)
CallPanics_NotDeferred(r) ==
    /\ At(r, "call")
    /\ request' = [request EXCEPT ![r].pc = "panic", ![r].failed = TRUE,
                                  ![r].call = "none"]
    /\ UNCHANGED hub

(* An adapter has deferred its finish before the operation, the interceptor *)
(* defers it after the invoker has returned.                                *)
CallPanics(r) ==
    /\ At(r, "call")
    /\ request' = [request EXCEPT ![r].pc = "panic", ![r].failed = TRUE,
            ![r].parent = IF request[r].call = "client" THEN @ ELSE {}]
    /\ UNCHANGED hub
-----------------------------------------------------------------------------
(***************************************************************************)
(* The end of a handler.                                                   *)
(***************************************************************************)

(* defer monitor.Recover() *)
DeferRecover(r) ==
    /\ At(r, "handler")
    /\ request' = [request EXCEPT ![r].recovers = "deferred"]
    /\ UNCHANGED hub

HandlerEnds(r, how) ==
    /\ At(r, "handler")
    /\ request' = [request EXCEPT ![r].pc = how, ![r].failed = @ \/ how # "ok"]
    /\ UNCHANGED hub

(* A panic is captured and over, and the handler returns zero values; when  *)
(* there is none, "unknown error : <nil>" is captured.                      *)
Recover(r) ==
    /\ request[r].pc \in {"ok", "error", "panic"}
    /\ request[r].recovers = "deferred"
    /\ \E e \in Events(r) : request' = [request EXCEPT ![r].event = {e},
            ![r].recovers = IF At(r, "panic") THEN "panic" ELSE "nothing",
            ![r].pc = IF @ = "panic" THEN "ok" ELSE @]
    /\ UNCHANGED hub

Finished(span) == IF span = "open" THEN "finished" ELSE span

Left(r) == IF At(r, "panic") THEN "panicked" ELSE "returned"

(* Mutant: the finish is not deferred. *)
EchoLeaves_NotDeferred(r) ==
    /\ Echo(r)
    /\ request[r].pc \in {"ok", "error", "panic"}
    /\ request[r].recovers # "deferred"
    /\ request' = [request EXCEPT ![r].pc = Left(r),
                        ![r].root = IF At(r, "panic") THEN @ ELSE Finished(@)]
    /\ UNCHANGED hub

(* defer tr.FinishWithTags: whether the handler returns or panics. *)
EchoLeaves(r) ==
    /\ Echo(r)
    /\ request[r].pc \in {"ok", "error", "panic"}
    /\ request[r].recovers # "deferred"
    /\ request' = [request EXCEPT ![r].pc = Left(r), ![r].root = Finished(@)]
    /\ UNCHANGED hub

(* The handler's error is captured; then the span is finished. *)
GrpcReturns(r) ==
    /\ Grpc(r)
    /\ request[r].pc \in {"ok", "error"}
    /\ request[r].recovers # "deferred"
    /\ request' = [request EXCEPT ![r].pc = "returned", ![r].root = "finished",
                        ![r].event = CapturedError(r, At(r, "error"))]
    /\ UNCHANGED hub

(* The finish is deferred only after the handler has returned. *)
GrpcPanics(r) ==
    /\ Grpc(r)
    /\ At(r, "panic")
    /\ request[r].recovers # "deferred"
    /\ request' = [request EXCEPT ![r].pc = "panicked"]
    /\ UNCHANGED hub

(* The slot is free for the next request. *)
Gone(r) ==
    /\ request[r].pc \in {"returned", "panicked"}
    /\ request' = [request EXCEPT ![r] = New]
    /\ UNCHANGED hub
-----------------------------------------------------------------------------
Next ==
    \E r \in Requests :
        \/ EchoSkips(r) \/ EchoEnters(r) \/ GrpcEnters(r) \/ CreateContext(r)
        \/ SetScope(r) \/ Capture(r) \/ DeferRecover(r)
        \/ \E call \in {"adapter", "client"} : CallStarts(r, call)
        \/ \E error \in BOOLEAN : CallReturns(r, error)
        \/ CallPanics(r)
        \/ \E how \in {"ok", "error", "panic"} : HandlerEnds(r, how)
        \/ Recover(r) \/ EchoLeaves(r) \/ GrpcReturns(r) \/ GrpcPanics(r)
        \/ Gone(r)

Spec == Init /\ [][Next]_vars
-----------------------------------------------------------------------------
(***************************************************************************)
(* Properties.                                                             *)
(***************************************************************************)

(* A gRPC call has panicked, and its span is left open. *)
LeftByClient(r) == request[r].call = "client" /\ ~At(r, "call")

(* A span that belongs to a request's transaction is never open after it:   *)
(* sub-segments end inside their segment, on errors and panics, too, and    *)
(* while other requests replace the monitor's hub.  Only the span of a gRPC *)
(* call that panics does not.                                               *)
SpansNest ==
    \A r \in Requests : \A parent \in request[r].parent \ {Global} :
        parent = r /\ (request[r].root = "open" \/ LeftByClient(r))

(* A request that is over has left no span open, except that a panic in a   *)
(* gRPC call leaves the client's, and one in a gRPC handler that does not   *)
(* defer Recover the server's.                                              *)
NoSpanLeft ==
    \A r \in Requests :
        request[r].pc \in {"returned", "panicked"} =>
            /\ request[r].parent # {} => LeftByClient(r)
            /\ request[r].root = "open" =>
                    Grpc(r) /\ At(r, "panicked") /\ request[r].recovers = "no"

(* An echo request's events go to its own hub, unless a later request has   *)
(* replaced the shared s.hub.                                               *)
OwnHubUnlessOvertaken ==
    \A r \in Requests : \A e \in request[r].event :
        Echo(r) /\ request[r].root # "none" /\ ~request[r].overtaken => e.hub = r

(* Captures are passed errors that are nil: a request in which nothing has  *)
(* failed has no event, unless it defers Recover, which captures one.  No   *)
(* panic gets past a handler that defers Recover, nor goes unreported.      *)
EventsTellFailures ==
    \A r \in Requests :
        /\ request[r].event # {} => request[r].failed \/ request[r].recovers = "nothing"
        /\ request[r].recovers = "panic" => request[r].event # {}
        /\ request[r].recovers # "no" => ~At(r, "panicked")

(* "Capture With Scope": an event captured after SetScope carries the scope.*)
ScopeIsCaptured == \A r \in Requests : \A e \in request[r].event : e.wanted => e.scope
=============================================================================
