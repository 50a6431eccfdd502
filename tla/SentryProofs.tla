---------------------------- MODULE SentryProofs ----------------------------
(***************************************************************************)
(* Proofs about the monitor, for any number of requests in hand.           *)
(*                                                                         *)
(* The invariant follows a request through its stages: while its handler   *)
(* or a call of it runs, its transaction is open and nothing of an earlier *)
(* call is; a panic is on its way only until a deferred Recover; and an    *)
(* echo request that was not overtaken still has its hub in the monitor.   *)
(***************************************************************************)
EXTENDS SentryMonitor, TLAPS

Event == [hub : Hubs, wanted : BOOLEAN, scope : BOOLEAN]

Request ==
    [kind : {"none", "echo", "grpc"},
     pc : {"outside", "handler", "call", "ok", "error", "panic",
           "returned", "panicked"},
     root : {"none", "open", "finished"}, inContext : BOOLEAN,
     call : {"none", "adapter", "client"}, parent : SUBSET Hubs,
     recovers : {"no", "deferred", "panic", "nothing"},
     scoped : SUBSET Hubs, event : SUBSET Event,
     failed : BOOLEAN, overtaken : BOOLEAN]

Inside == {"handler", "call", "ok", "error", "panic"}

(* The spans of the request q of slot r. *)
Spans(r, q) ==
    /\ q.kind = "none" <=> q.pc = "outside"
    /\ q.pc \in Inside => q.root # "finished"
    /\ q.kind = "grpc" => q.root # "none"
    /\ q.inContext => q.root # "none"
    /\ q.parent \in SUBSET {r, Global}
    /\ r \in q.parent => q.root # "none"
    /\ q.parent # {} => q.pc = "call" \/ q.call = "client"
    /\ q.pc = "handler" => q.parent = {}
    /\ q.pc \in {"returned", "panicked"} /\ q.root = "open" =>
            q.kind = "grpc" /\ q.pc = "panicked" /\ q.recovers = "no"

(* What went wrong in it, and what is known of that. *)
Failures(q) ==
    /\ q.pc \in {"error", "panic"} => q.failed
    /\ q.event # {} => q.failed \/ q.recovers = "nothing"
    /\ q.recovers = "panic" => q.event # {} /\ q.pc \in {"ok", "returned"}
    /\ q.recovers = "nothing" => q.pc \in {"ok", "error", "returned"}
    /\ q.recovers = "deferred" => q.pc \in Inside

(* Where its events go, when the monitor's hub is on. *)
OnHub(r, q, on) ==
    q.kind = "echo" /\ q.root # "none" /\ ~q.overtaken =>
        /\ on = r
        /\ q.scoped \in SUBSET {r}
        /\ \A e \in q.event : e.hub = r

Free(q) ==
    /\ q.root = "none" /\ q.parent = {} /\ q.scoped = {} /\ q.event = {}
    /\ q.recovers = "no"

Good(r, q, on) ==
    /\ q \in Request
    /\ q.pc = "outside" => Free(q)
    /\ Spans(r, q) /\ Failures(q) /\ OnHub(r, q, on)

IInv ==
    /\ hub \in Hubs
    /\ request \in [Requests -> Request]
    /\ \A r \in Requests : Good(r, request[r], hub)

(* A free slot.                                                             *)
LEMMA NewIsGood == ASSUME NEW r, NEW on PROVE Good(r, New, on)
<1>1. New \in Request
  BY DEF New, Request
<1> QED BY <1>1 DEF New, Good, Free, Spans, Failures, OnHub, Inside

(* All slots are free at first.                                             *)
LEMMA InitIInv == Init => IInv
<1> SUFFICES ASSUME Init PROVE IInv
  OBVIOUS
<1>1. \A r \in Requests : Good(r, request[r], hub) /\ request[r] \in Request
  BY NewIsGood DEF Init, Good
<1> QED BY <1>1 DEF Init, IInv, Hubs

(* A step of one request that leaves the monitor's hub alone.               *)
LEMMA OwnStep ==
  ASSUME IInv, NEW r \in Requests, hub' = hub,
         NEW q, request' = [request EXCEPT ![r] = q], Good(r, q, hub)
  PROVE  IInv'
<1>1. request' \in [Requests -> Request]
  BY DEF IInv, Good
<1>2. \A s \in Requests : Good(s, request'[s], hub)
  BY DEF IInv
<1> QED BY <1>1, <1>2 DEF IInv

(* Events are on the monitor's hub, or on the one SetScope has kept.        *)
LEMMA EventsAreOnHubs ==
  ASSUME IInv, NEW r \in Requests, NEW e \in Events(r)
  PROVE  e \in Event /\ (e.hub = hub \/ e.hub \in request[r].scoped)
<1>1. hub \in Hubs /\ request[r].scoped \in SUBSET Hubs
  BY DEF IInv, Request
<1>2. \/ e = [hub |-> hub, wanted |-> FALSE, scope |-> FALSE]
      \/ \E on \in request[r].scoped : e = [hub |-> on, wanted |-> TRUE, scope |-> FALSE]
  BY DEF Events
<1>3. CASE e = [hub |-> hub, wanted |-> FALSE, scope |-> FALSE]
  BY <1>1, <1>3 DEF Event
<1>4. ASSUME NEW on \in request[r].scoped,
             e = [hub |-> on, wanted |-> TRUE, scope |-> FALSE]
      PROVE  e \in Event /\ e.hub \in request[r].scoped
  <2>1. on \in Hubs
    BY <1>1
  <2> QED BY <1>4, <2>1 DEF Event
<1> QED BY <1>2, <1>3, <1>4

(* A captured error adds at most an event on the monitor's hub.             *)
LEMMA CapturedIsOnHub ==
  ASSUME IInv, NEW r \in Requests, NEW error \in BOOLEAN
  PROVE  /\ CapturedError(r, error) \in SUBSET Event
         /\ ~error => CapturedError(r, error) = request[r].event
         /\ error => CapturedError(r, error) # {}
         /\ \A e \in CapturedError(r, error) : e.hub = hub \/ e \in request[r].event
<1> DEFINE e == [hub |-> hub, wanted |-> FALSE, scope |-> FALSE]
<1>1. hub \in Hubs /\ request[r].event \in SUBSET Event
  BY DEF IInv, Request
<1>2. e \in Event /\ e.hub = hub
  BY <1>1 DEF Event
<1>3. CapturedError(r, error) = IF error THEN {e} ELSE request[r].event
  BY DEF CapturedError
<1> HIDE DEF e
<1> QED BY <1>1, <1>2, <1>3

(* Every step keeps the invariant.                                          *)
LEMMA NextIInv == IInv /\ [Next]_vars => IInv'
<1> SUFFICES ASSUME IInv, Next PROVE IInv'
  BY DEF IInv, vars
<1> PICK r \in Requests :
        \/ EchoSkips(r) \/ EchoEnters(r) \/ GrpcEnters(r) \/ CreateContext(r)
        \/ SetScope(r) \/ Capture(r) \/ DeferRecover(r)
        \/ \E call \in {"adapter", "client"} : CallStarts(r, call)
        \/ \E error \in BOOLEAN : CallReturns(r, error)
        \/ CallPanics(r)
        \/ \E how \in {"ok", "error", "panic"} : HandlerEnds(r, how)
        \/ Recover(r) \/ EchoLeaves(r) \/ GrpcReturns(r) \/ GrpcPanics(r)
        \/ Gone(r)
  BY DEF Next
<1> DEFINE w == request[r]
<1>0. w \in Request /\ Good(r, w, hub) /\ hub \in Hubs /\ {r, Global} \in SUBSET Hubs
  BY DEF IInv, Hubs
<1>1. CASE EchoEnters(r)
  <2> DEFINE k == [w EXCEPT !.kind = "echo", !.pc = "handler", !.root = "open"]
             Other(s) == [request[s] EXCEPT !.overtaken = request[s].root # "none"]
  <2>1. hub' = r /\ request' = [s \in Requests |-> IF s = r THEN k ELSE Other(s)]
    BY <1>1 DEF EchoEnters, Entered
  <2>2. k \in Request /\ k.pc # "outside"
    BY <1>0, <1>1 DEF EchoEnters, At, Request
  <2>3. Spans(r, k)
    BY <1>0, <1>1 DEF EchoEnters, At, Good, Free, Request, Spans, Inside
  <2>4. Failures(k)
    BY <1>0, <1>1 DEF EchoEnters, At, Good, Free, Request, Failures, Inside
  <2>5. OnHub(r, k, r)
    BY <1>0, <1>1 DEF EchoEnters, At, Good, Free, Request, OnHub
  <2>6. Good(r, k, r)
    BY <2>2, <2>3, <2>4, <2>5 DEF Good
  <2>7. ASSUME NEW s \in Requests \ {r} PROVE Good(s, Other(s), r)
    <3>1. Good(s, request[s], hub)
      BY DEF IInv
    <3>2. Other(s) \in Request /\ (Other(s).pc = "outside" => Free(Other(s)))
      BY <3>1 DEF Good, Request, Free
    <3>3. Spans(s, Other(s)) /\ Failures(Other(s))
      BY <3>1 DEF Good, Request, Spans, Failures
    <3>4. OnHub(s, Other(s), r)
      BY <3>1 DEF Good, Request, OnHub
    <3> QED BY <3>2, <3>3, <3>4 DEF Good
  <2> HIDE DEF k, Other
  <2>8. \A s \in Requests : Good(s, request'[s], r) /\ request'[s] \in Request
    BY <2>1, <2>6, <2>7 DEF Good
  <2> QED BY <2>1, <2>8 DEF IInv, Hubs
<1>2. CASE Gone(r)
  BY <1>2, NewIsGood, OwnStep DEF Gone
<1>3. CASE EchoSkips(r)
  <2> DEFINE k == [w EXCEPT !.kind = "echo", !.pc = "handler"]
  <2>1. request' = [request EXCEPT ![r] = k] /\ hub' = hub
    BY <1>0, <1>3 DEF EchoSkips, IInv, Request
  <2>2. k \in Request /\ k.pc # "outside"
    BY <1>0, <1>3 DEF EchoSkips, At, Request
  <2>3. Spans(r, k)
    BY <1>0, <1>3 DEF EchoSkips, At, Good, Free, Request, Spans, Inside
  <2>4. Failures(k)
    BY <1>0, <1>3 DEF EchoSkips, At, Good, Free, Request, Failures, Inside
  <2>5. OnHub(r, k, hub)
    BY <1>0, <1>3 DEF EchoSkips, At, Good, Free, Request, OnHub
  <2> HIDE DEF k
  <2> QED BY <2>1, <2>2, <2>3, <2>4, <2>5, OwnStep DEF Good
<1>4. CASE GrpcEnters(r)
  <2> DEFINE k == [w EXCEPT !.kind = "grpc", !.pc = "handler",
                            !.root = "open", !.inContext = TRUE]
  <2>1. request' = [request EXCEPT ![r] = k] /\ hub' = hub
    BY <1>0, <1>4 DEF GrpcEnters, IInv, Request
  <2>2. k \in Request /\ k.pc # "outside"
    BY <1>0, <1>4 DEF GrpcEnters, At, Request
  <2>3. Spans(r, k)
    BY <1>0, <1>4 DEF GrpcEnters, At, Good, Free, Request, Spans, Inside
  <2>4. Failures(k)
    BY <1>0, <1>4 DEF GrpcEnters, At, Good, Free, Request, Failures, Inside
  <2>5. OnHub(r, k, hub)
    BY <1>0, <1>4 DEF GrpcEnters, At, Good, Free, Request, OnHub
  <2> HIDE DEF k
  <2> QED BY <2>1, <2>2, <2>3, <2>4, <2>5, OwnStep DEF Good
<1>5. CASE CreateContext(r)
  <2> DEFINE k == [w EXCEPT !.inContext = w.root # "none"]
  <2>1. request' = [request EXCEPT ![r] = k] /\ hub' = hub
    BY <1>0, <1>5 DEF CreateContext, IInv, Request
  <2>2. k \in Request /\ k.pc # "outside"
    BY <1>0, <1>5 DEF CreateContext, At, Request
  <2>3. Spans(r, k)
    BY <1>0, <1>5 DEF CreateContext, At, Good, Free, Request, Spans, Inside
  <2>4. Failures(k)
    BY <1>0, <1>5 DEF CreateContext, At, Good, Free, Request, Failures, Inside
  <2>5. OnHub(r, k, hub)
    BY <1>0, <1>5 DEF CreateContext, At, Good, Free, Request, OnHub
  <2> HIDE DEF k
  <2> QED BY <2>1, <2>2, <2>3, <2>4, <2>5, OwnStep DEF Good
<1>6. CASE SetScope(r)
  <2> DEFINE k == [w EXCEPT !.scoped = {hub}]
  <2>1. request' = [request EXCEPT ![r] = k] /\ hub' = hub
    BY <1>0, <1>6 DEF SetScope, IInv, Request
  <2>2. k \in Request /\ k.pc # "outside"
    BY <1>0, <1>6 DEF SetScope, At, Request
  <2>3. Spans(r, k)
    BY <1>0, <1>6 DEF SetScope, At, Good, Free, Request, Spans, Inside
  <2>4. Failures(k)
    BY <1>0, <1>6 DEF SetScope, At, Good, Free, Request, Failures, Inside
  <2>5. OnHub(r, k, hub)
    BY <1>0, <1>6 DEF SetScope, At, Good, Free, Request, OnHub
  <2> HIDE DEF k
  <2> QED BY <2>1, <2>2, <2>3, <2>4, <2>5, OwnStep DEF Good
<1>7. CASE DeferRecover(r)
  <2> DEFINE k == [w EXCEPT !.recovers = "deferred"]
  <2>1. request' = [request EXCEPT ![r] = k] /\ hub' = hub
    BY <1>0, <1>7 DEF DeferRecover, IInv, Request
  <2>2. k \in Request /\ k.pc # "outside"
    BY <1>0, <1>7 DEF DeferRecover, At, Request
  <2>3. Spans(r, k)
    BY <1>0, <1>7 DEF DeferRecover, At, Good, Free, Request, Spans, Inside
  <2>4. Failures(k)
    BY <1>0, <1>7 DEF DeferRecover, At, Good, Free, Request, Failures, Inside
  <2>5. OnHub(r, k, hub)
    BY <1>0, <1>7 DEF DeferRecover, At, Good, Free, Request, OnHub
  <2> HIDE DEF k
  <2> QED BY <2>1, <2>2, <2>3, <2>4, <2>5, OwnStep DEF Good
<1>8. ASSUME NEW call \in {"adapter", "client"}, CallStarts(r, call) PROVE IInv'
  <2> DEFINE k == [w EXCEPT !.pc = "call", !.call = call,
                            !.parent = {IF w.inContext THEN r ELSE Global}]
  <2>1. request' = [request EXCEPT ![r] = k] /\ hub' = hub
    BY <1>0, <1>8 DEF CallStarts, ParentFromContext, IInv, Request
  <2>2. k \in Request /\ k.pc # "outside"
    BY <1>0, <1>8 DEF CallStarts, ParentFromContext, At, Request
  <2>3. Spans(r, k)
    BY <1>0, <1>8, SentryAssumption DEF CallStarts, At, Good, Request, Spans, Inside
  <2>4. Failures(k)
    BY <1>0, <1>8 DEF CallStarts, ParentFromContext, At, Good, Free, Request, Failures, Inside
  <2>5. OnHub(r, k, hub)
    BY <1>0, <1>8 DEF CallStarts, ParentFromContext, At, Good, Free, Request, OnHub
  <2> HIDE DEF k
  <2> QED BY <2>1, <2>2, <2>3, <2>4, <2>5, OwnStep DEF Good
<1>9. CASE CallPanics(r)
  <2> DEFINE k == [w EXCEPT !.pc = "panic", !.failed = TRUE,
                            !.parent = IF w.call = "client" THEN @ ELSE {}]
  <2>1. request' = [request EXCEPT ![r] = k] /\ hub' = hub
    BY <1>0, <1>9 DEF CallPanics, IInv, Request
  <2>2. k \in Request /\ k.pc # "outside"
    BY <1>0, <1>9 DEF CallPanics, At, Request
  <2>3. Spans(r, k)
    BY <1>0, <1>9 DEF CallPanics, At, Good, Free, Request, Spans, Inside
  <2>4. Failures(k)
    BY <1>0, <1>9 DEF CallPanics, At, Good, Free, Request, Failures, Inside
  <2>5. OnHub(r, k, hub)
    BY <1>0, <1>9 DEF CallPanics, At, Good, Free, Request, OnHub
  <2> HIDE DEF k
  <2> QED BY <2>1, <2>2, <2>3, <2>4, <2>5, OwnStep DEF Good
<1>10. ASSUME NEW how \in {"ok", "error", "panic"}, HandlerEnds(r, how) PROVE IInv'
  <2> DEFINE k == [w EXCEPT !.pc = how, !.failed = @ \/ how # "ok"]
  <2>1. request' = [request EXCEPT ![r] = k] /\ hub' = hub
    BY <1>0, <1>10 DEF HandlerEnds, IInv, Request
  <2>2. k \in Request /\ k.pc # "outside"
    BY <1>0, <1>10 DEF HandlerEnds, At, Request
  <2>3. Spans(r, k)
    BY <1>0, <1>10 DEF HandlerEnds, At, Good, Free, Request, Spans, Inside
  <2>4. Failures(k)
    BY <1>0, <1>10 DEF HandlerEnds, At, Good, Free, Request, Failures, Inside
  <2>5. OnHub(r, k, hub)
    BY <1>0, <1>10 DEF HandlerEnds, At, Good, Free, Request, OnHub
  <2> HIDE DEF k
  <2> QED BY <2>1, <2>2, <2>3, <2>4, <2>5, OwnStep DEF Good
<1>11. CASE EchoLeaves(r)
  <2> DEFINE k == [w EXCEPT !.pc = IF w.pc = "panic" THEN "panicked" ELSE "returned",
                            !.root = IF @ = "open" THEN "finished" ELSE @]
  <2>1. request' = [request EXCEPT ![r] = k] /\ hub' = hub
    BY <1>0, <1>11 DEF EchoLeaves, Left, Finished, At, IInv, Request
  <2>2. k \in Request /\ k.pc # "outside"
    BY <1>0, <1>11 DEF EchoLeaves, Left, Finished, Echo, At, Request
  <2>3. Spans(r, k)
    BY <1>0, <1>11
    DEF EchoLeaves, Left, Finished, Echo, At, Good, Free, Request, Spans, Inside
  <2>4. Failures(k)
    BY <1>0, <1>11
    DEF EchoLeaves, Left, Finished, Echo, At, Good, Free, Request, Failures, Inside
  <2>5. OnHub(r, k, hub)
    BY <1>0, <1>11
    DEF EchoLeaves, Left, Finished, Echo, At, Good, Free, Request, OnHub
  <2> HIDE DEF k
  <2> QED BY <2>1, <2>2, <2>3, <2>4, <2>5, OwnStep DEF Good
<1>12. CASE GrpcPanics(r)
  <2> DEFINE k == [w EXCEPT !.pc = "panicked"]
  <2>1. request' = [request EXCEPT ![r] = k] /\ hub' = hub
    BY <1>0, <1>12 DEF GrpcPanics, Grpc, IInv, Request
  <2>2. k \in Request /\ k.pc # "outside"
    BY <1>0, <1>12 DEF GrpcPanics, Grpc, At, Request
  <2>3. Spans(r, k)
    BY <1>0, <1>12
    DEF GrpcPanics, Grpc, At, Good, Free, Request, Spans, Failures, Inside
  <2>4. Failures(k)
    BY <1>0, <1>12 DEF GrpcPanics, Grpc, At, Good, Free, Request, Failures, Inside
  <2>5. OnHub(r, k, hub)
    BY <1>0, <1>12 DEF GrpcPanics, Grpc, At, Good, Free, Request, OnHub
  <2> HIDE DEF k
  <2> QED BY <2>1, <2>2, <2>3, <2>4, <2>5, OwnStep DEF Good
<1>13. CASE Capture(r)
  <2> PICK e \in Events(r) :
        request' = [request EXCEPT ![r].event = {e}, ![r].failed = TRUE]
    BY <1>13 DEF Capture
  <2>1. e \in Event /\ (e.hub = hub \/ e.hub \in w.scoped)
    BY EventsAreOnHubs
  <2> DEFINE k == [w EXCEPT !.event = {e}, !.failed = TRUE]
  <2>2. request' = [request EXCEPT ![r] = k] /\ hub' = hub
    BY <1>0, <1>13, <2>1 DEF Capture, IInv, Request
  <2>3. k \in Request /\ k.pc # "outside"
    BY <1>0, <1>13, <2>1 DEF Capture, At, Request
  <2>4. Spans(r, k) /\ Failures(k)
    BY <1>0, <1>13, <2>1 DEF Capture, At, Good, Request, Spans, Failures, Inside
  <2>5. OnHub(r, k, hub)
    BY <1>0, <1>13, <2>1 DEF Capture, At, Good, Request, OnHub
  <2> HIDE DEF k
  <2> QED BY <2>2, <2>3, <2>4, <2>5, OwnStep DEF Good
<1>14. CASE Recover(r)
  <2> PICK e \in Events(r) : request' = [request EXCEPT ![r].event = {e},
            ![r].recovers = IF At(r, "panic") THEN "panic" ELSE "nothing",
            ![r].pc = IF @ = "panic" THEN "ok" ELSE @]
    BY <1>14 DEF Recover
  <2>1. e \in Event /\ (e.hub = hub \/ e.hub \in w.scoped)
    BY EventsAreOnHubs
  <2> DEFINE k == [w EXCEPT !.event = {e},
                            !.recovers = IF w.pc = "panic" THEN "panic" ELSE "nothing",
                            !.pc = IF @ = "panic" THEN "ok" ELSE @]
  <2>2. request' = [request EXCEPT ![r] = k] /\ hub' = hub
    BY <1>0, <1>14, <2>1 DEF Recover, At, IInv, Request
  <2>3. k \in Request /\ k.pc # "outside"
    BY <1>0, <1>14, <2>1 DEF Recover, At, Request
  <2>4. Spans(r, k) /\ Failures(k)
    BY <1>0, <1>14, <2>1 DEF Recover, At, Good, Request, Spans, Failures, Inside
  <2>5. OnHub(r, k, hub)
    BY <1>0, <1>14, <2>1 DEF Recover, At, Good, Request, OnHub
  <2> HIDE DEF k
  <2> QED BY <2>2, <2>3, <2>4, <2>5, OwnStep DEF Good
<1>15. ASSUME NEW error \in BOOLEAN, CallReturns(r, error) PROVE IInv'
  <2> DEFINE E == CapturedError(r, error)
  <2>1. /\ E \in SUBSET Event
        /\ ~error => E = w.event
        /\ error => E # {}
        /\ \A e \in E : e.hub = hub \/ e \in w.event
    BY CapturedIsOnHub DEF At
  <2> HIDE DEF E
  <2> DEFINE k == [w EXCEPT !.pc = "handler", !.call = "none", !.parent = {},
                            !.event = E, !.failed = @ \/ error]
  <2>2. request' = [request EXCEPT ![r] = k] /\ hub' = hub
    BY <1>0, <1>15, <2>1 DEF CallReturns, E, IInv, Request
  <2>3. k \in Request /\ k.pc # "outside"
    BY <1>0, <1>15, <2>1 DEF At, Request
  <2>4. Spans(r, k) /\ Failures(k)
    BY <1>0, <1>15, <2>1 DEF CallReturns, At, Good, Request, Spans, Failures, Inside
  <2>5. OnHub(r, k, hub)
    BY <1>0, <1>15, <2>1 DEF CallReturns, At, Good, Request, OnHub
  <2> HIDE DEF k
  <2> QED BY <2>2, <2>3, <2>4, <2>5, OwnStep DEF Good
<1>16. CASE GrpcReturns(r)
  <2> DEFINE E == CapturedError(r, w.pc = "error")
  <2>1. /\ E \in SUBSET Event
        /\ w.pc # "error" => E = w.event
        /\ w.pc = "error" => E # {}
        /\ \A e \in E : e.hub = hub \/ e \in w.event
    BY CapturedIsOnHub DEF At
  <2> HIDE DEF E
  <2> DEFINE k == [w EXCEPT !.pc = "returned", !.root = "finished", !.event = E]
  <2>2. request' = [request EXCEPT ![r] = k] /\ hub' = hub
    BY <1>0, <1>16, <2>1 DEF GrpcReturns, At, E, IInv, Request
  <2>3. k \in Request /\ k.pc # "outside"
    BY <1>0, <1>16, <2>1 DEF At, Request
  <2>4. Spans(r, k) /\ Failures(k)
    BY <1>0, <1>16, <2>1 DEF GrpcReturns, Grpc, At, Good, Request, Spans, Failures, Inside
  <2>5. OnHub(r, k, hub)
    BY <1>0, <1>16, <2>1 DEF GrpcReturns, Grpc, At, Good, Request, OnHub
  <2> HIDE DEF k
  <2> QED BY <2>2, <2>3, <2>4, <2>5, OwnStep DEF Good
<1> QED
  BY <1>1, <1>2, <1>3, <1>4, <1>5, <1>6, <1>7, <1>8, <1>9,
     <1>10, <1>11, <1>12, <1>13, <1>14, <1>15, <1>16

(* The invariant of the requests in hand holds.                             *)
THEOREM Invariance == Spec => []IInv
  BY InitIInv, NextIInv, PTL DEF Spec

(* The hub and the requests keep their types.                               *)
THEOREM TypeCorrect == Spec => []TypeOK
<1>1. IInv => TypeOK
  BY DEF IInv, TypeOK, Request, Event
<1> QED BY <1>1, Invariance, PTL

(* Spans of calls nest in their request's transaction, however many         *)
(* requests replace the monitor's hub meanwhile.                            *)
THEOREM CallsNest == Spec => []SpansNest
<1>1. IInv => SpansNest
  BY DEF IInv, Good, Request, Spans, Inside, SpansNest, LeftByClient, At
<1> QED BY <1>1, Invariance, PTL

(* A request leaves no span, but for the two panics that do.                *)
THEOREM RequestsFinishSpans == Spec => []NoSpanLeft
<1>1. IInv => NoSpanLeft
  BY DEF IInv, Good, Spans, NoSpanLeft, LeftByClient, At, Grpc
<1> QED BY <1>1, Invariance, PTL

(* Events go to the hub of their request as long as no later one came in.   *)
THEOREM EventsOnOwnHub == Spec => []OwnHubUnlessOvertaken
<1>1. IInv => OwnHubUnlessOvertaken
  BY DEF IInv, Good, OnHub, OwnHubUnlessOvertaken, Echo
<1> QED BY <1>1, Invariance, PTL

(* Events tell of failures, but for Recover's own, and recovered panics are *)
(* told of.                                                                 *)
THEOREM FailuresAreTold == Spec => []EventsTellFailures
<1>1. IInv => EventsTellFailures
  BY DEF IInv, Good, Request, Failures, Inside, EventsTellFailures, At
<1> QED BY <1>1, Invariance, PTL
=============================================================================
