----------------------------- MODULE HttpProofs -----------------------------
(***************************************************************************)
(* Proofs about the HTTP side: the client, for any number of goroutines,   *)
(* and the conversions between statuses and gRPC errors, for chains of any *)
(* length and any set of statuses.  The two share nothing.                 *)
(***************************************************************************)
EXTENDS RestyClient, StatusRelay, TLAPS

(***************************************************************************)
(* The client.  The invariant says of each handle what its fields owe to   *)
(* its history, and of each request how far the credentials read so far    *)
(* can be those of the client: a handle that was not overtaken shares its  *)
(* user with it.                                                           *)
(***************************************************************************)

Handle ==
    [isMonitor : BOOLEAN, monitor : BOOLEAN, captureError : BOOLEAN,
     own : UserInfos, monitored : BOOLEAN, captures : BOOLEAN,
     overtaken : {"no", "before", "during"},
     pc : {"idle", "build", "credentials", "sent", "return", "done", "panicked"},
     username : UserInfos, password : UserInfos,
     span : {"none", "open", "finished"}, event : BOOLEAN,
     answer : {"none", "ok", "error"}]

(* The fields copied from handle to handle. *)
Copied(h) ==
    /\ h.monitor = h.monitored
    /\ h.captureError = h.captures
    /\ h.monitored => h.isMonitor
    /\ h.captures => h.monitored

(* The credentials a request has read, when the client's are `users`. *)
Read(h, users) ==
    /\ h.overtaken = "no" => h.own = users
    /\ h.pc = "credentials" /\ h.overtaken # "during" => h.username = users
    /\ h.pc \in {"sent", "return", "done"} =>
        /\ h.overtaken = "no" => h.username = h.own /\ h.password = h.own
        /\ h.overtaken # "during" => h.username = h.password

(* The span and the event of a request. *)
Watched(h) ==
    /\ h.pc \in {"build", "credentials", "sent", "return"} =>
        /\ h.isMonitor => h.monitor
        /\ h.span = IF h.isMonitor THEN "open" ELSE "none"
    /\ h.pc \in {"idle", "build", "credentials", "sent", "panicked"} =>
        h.answer = "none" /\ ~h.event
    /\ h.pc = "idle" => h.span = "none"
    /\ h.pc = "done" =>
        /\ h.span = IF h.monitored THEN "finished" ELSE "none"
        /\ h.event <=> h.captures /\ h.answer = "error"
    /\ h.pc = "panicked" /\ h.monitored => h.span = "open"

Good(h, users) == h \in Handle /\ Copied(h) /\ Read(h, users) /\ Watched(h)

IInv ==
    /\ userInfo \in UserInfos
    /\ http \in [Goroutines -> Handle]
    /\ \A g \in Goroutines : Good(http[g], userInfo)

(* The handle NewHttpRestyClient returned, whatever has happened since.     *)
LEMMA NewIsGood == ASSUME NEW users \in UserInfos PROVE Good(New(users), users)
<1>1. {} \in UserInfos
  BY DEF UserInfos
<1>2. New(users) \in Handle
  BY <1>1 DEF New, Handle
<1> QED BY <1>2 DEF New, Good, Copied, Read, Watched

(* Every handle is as the client gave it at first.                          *)
LEMMA InitIInv == Init => IInv
<1> SUFFICES ASSUME Init PROVE IInv
  OBVIOUS
<1>1. {} \in UserInfos
  BY DEF UserInfos
<1>2. \A g \in Goroutines : Good(http[g], userInfo) /\ http[g] \in Handle
  BY <1>1, NewIsGood DEF Init, Good
<1> QED BY <1>1, <1>2 DEF Init, IInv

(* A step of one goroutine that leaves the client alone.                    *)
LEMMA OwnStep ==
  ASSUME IInv, NEW g \in Goroutines, userInfo' = userInfo,
         NEW h, http' = [http EXCEPT ![g] = h], Good(h, userInfo)
  PROVE  IInv'
  BY DEF IInv, Good

(* The user of the client is replaced behind a handle's back.               *)
LEMMA OvertakenIsGood ==
  ASSUME NEW users \in UserInfos, NEW more \in UserInfos, NEW h, Good(h, users)
  PROVE  Good(Overtaken(h), more)
<1>1. Overtaken(h) \in Handle
  BY DEF Good, Handle, Overtaken
<1>2. Copied(Overtaken(h)) /\ Watched(Overtaken(h))
  BY DEF Good, Handle, Overtaken, Copied, Watched
<1>3. Read(Overtaken(h), more)
  BY DEF Good, Handle, Overtaken, Read
<1> QED BY <1>1, <1>2, <1>3 DEF Good

(* Every step keeps the invariant.                                          *)
LEMMA NextIInv == IInv /\ [Next]_vars => IInv'
<1> SUFFICES ASSUME IInv, Next PROVE IInv'
  BY DEF IInv, vars
<1> PICK g \in Goroutines :
        \/ SetBasicAuth(g) \/ StartAgain(g)
        \/ \E captureError \in BOOLEAN : Monitor(g, captureError)
        \/ RequestPanics(g) \/ Request(g) \/ BuildPanics(g)
        \/ ReadUsername(g) \/ ReadPassword(g)
        \/ \E answer \in {"ok", "error"} : Answered(g, answer)
        \/ FinishMonitor(g) \/ Over(g)
  BY DEF Next
<1> DEFINE h == http[g]
<1>0. h \in Handle /\ Good(h, userInfo) /\ userInfo \in UserInfos
  BY DEF IInv
<1>1. CASE SetBasicAuth(g)
  <2>1. userInfo' = {g} /\ {g} \in UserInfos
    BY <1>1 DEF SetBasicAuth, UserInfos
  <2>2. Good(WithUser(g), {g})
    BY <1>0, <1>1, <2>1 DEF SetBasicAuth, At, WithUser, Good, Handle, Copied, Read, Watched
  <2>3. \A q \in Goroutines : Good(Overtaken(http[q]), {g})
    BY <2>1, OvertakenIsGood DEF IInv
  <2>4. \A q \in Goroutines : Good(http'[q], {g}) /\ http'[q] \in Handle
    BY <1>1, <2>2, <2>3 DEF SetBasicAuth, Good
  <2> QED BY <1>1, <2>1, <2>4 DEF SetBasicAuth, IInv
<1>2. CASE StartAgain(g)
  <2>1. Good(New(userInfo), userInfo)
    BY <1>0, NewIsGood
  <2> QED BY <1>2, <2>1, OwnStep DEF StartAgain
<1>3. ASSUME NEW captureError \in BOOLEAN, Monitor(g, captureError) PROVE IInv'
  <2> DEFINE k == [h EXCEPT !.isMonitor = TRUE, !.monitor = TRUE, !.monitored = TRUE,
                            !.captures = captureError, !.captureError = captureError]
  <2>1. http' = [http EXCEPT ![g] = k]
    BY <1>0, <1>3 DEF Monitor, IInv, Handle
  <2>2. Good(k, userInfo)
    BY <1>0, <1>3 DEF Monitor, At, Good, Handle, Copied, Read, Watched
  <2> HIDE DEF k
  <2> QED BY <1>3, <2>1, <2>2, OwnStep DEF Monitor
<1>4. CASE RequestPanics(g)
  <2> DEFINE k == [h EXCEPT !.pc = "panicked"]
  <2>1. http' = [http EXCEPT ![g] = k]
    BY <1>4 DEF RequestPanics
  <2>2. Good(k, userInfo)
    BY <1>0, <1>4 DEF RequestPanics, At, Good, Handle, Copied, Read, Watched
  <2> HIDE DEF k
  <2> QED BY <1>4, <2>1, <2>2, OwnStep DEF RequestPanics
<1>5. CASE Request(g)
  <2> DEFINE k == [h EXCEPT !.pc = "build",
                            !.span = IF h.isMonitor THEN "open" ELSE "none"]
  <2>1. http' = [http EXCEPT ![g] = k]
    BY <1>0, <1>5 DEF Request, IInv, Handle
  <2>2. Good(k, userInfo)
    BY <1>0, <1>5 DEF Request, At, Good, Handle, Copied, Read, Watched
  <2> HIDE DEF k
  <2> QED BY <1>5, <2>1, <2>2, OwnStep DEF Request
<1>6. CASE BuildPanics(g)
  <2> DEFINE k == [h EXCEPT !.pc = "panicked"]
  <2>1. http' = [http EXCEPT ![g] = k]
    BY <1>6 DEF BuildPanics
  <2>2. Good(k, userInfo)
    BY <1>0, <1>6 DEF BuildPanics, At, Good, Handle, Copied, Read, Watched
  <2> HIDE DEF k
  <2> QED BY <1>6, <2>1, <2>2, OwnStep DEF BuildPanics
<1>7. CASE ReadUsername(g)
  <2> DEFINE k == [h EXCEPT !.pc = "credentials", !.username = userInfo]
  <2>1. http' = [http EXCEPT ![g] = k]
    BY <1>0, <1>7 DEF ReadUsername, IInv, Handle
  <2>2. Good(k, userInfo)
    BY <1>0, <1>7 DEF ReadUsername, At, Good, Handle, Copied, Read, Watched
  <2> HIDE DEF k
  <2> QED BY <1>7, <2>1, <2>2, OwnStep DEF ReadUsername
<1>8. CASE ReadPassword(g)
  <2> DEFINE p == IF h.username = {} THEN {} ELSE userInfo
             k == [h EXCEPT !.pc = "sent", !.password = p]
  <2>1. http' = [http EXCEPT ![g] = k]
    BY <1>0, <1>8 DEF ReadPassword, IInv, Handle
  <2>2. p \in UserInfos /\ (h.overtaken # "during" => h.username = userInfo /\ p = userInfo)
    BY <1>0, <1>8 DEF ReadPassword, At, Good, Read, UserInfos
  <2> HIDE DEF p
  <2>3. Good(k, userInfo)
    BY <1>0, <1>8, <2>2 DEF ReadPassword, At, Good, Handle, Copied, Read, Watched
  <2> HIDE DEF k
  <2> QED BY <1>8, <2>1, <2>3, OwnStep DEF ReadPassword
<1>9. ASSUME NEW answer \in {"ok", "error"}, Answered(g, answer) PROVE IInv'
  <2> DEFINE k == [h EXCEPT !.pc = "return", !.answer = answer]
  <2>1. http' = [http EXCEPT ![g] = k]
    BY <1>0, <1>9 DEF Answered, IInv, Handle
  <2>2. Good(k, userInfo)
    BY <1>0, <1>9 DEF Answered, At, Good, Handle, Copied, Read, Watched
  <2> HIDE DEF k
  <2> QED BY <1>9, <2>1, <2>2, OwnStep DEF Answered
<1>10. CASE FinishMonitor(g)
  <2> DEFINE e == h.isMonitor /\ h.captureError /\ h.answer = "error"
             k == [h EXCEPT !.pc = "done",
                            !.span = IF h.isMonitor THEN "finished" ELSE @,
                            !.event = e]
  <2>1. http' = [http EXCEPT ![g] = k]
    BY <1>0, <1>10 DEF FinishMonitor, IInv, Handle
  <2>2. Good(k, userInfo)
    BY <1>0, <1>10 DEF FinishMonitor, At, Good, Handle, Copied, Read, Watched
  <2> HIDE DEF k
  <2> QED BY <1>10, <2>1, <2>2, OwnStep DEF FinishMonitor
<1>11. CASE Over(g)
  <2> DEFINE k == [h EXCEPT !.pc = "idle", !.username = {}, !.password = {},
                            !.span = "none", !.event = FALSE, !.answer = "none",
                            !.overtaken = IF @ = "during" THEN "before" ELSE @]
  <2>1. http' = [http EXCEPT ![g] = k]
    BY <1>0, <1>11 DEF Over, IInv, Handle
  <2>2. {} \in UserInfos
    BY DEF UserInfos
  <2>3. Good(k, userInfo)
    BY <1>0, <1>11, <2>2 DEF Over, Good, Handle, Copied, Read, Watched
  <2> HIDE DEF k
  <2> QED BY <1>11, <2>1, <2>3, OwnStep DEF Over
<1> QED
  BY <1>1, <1>2, <1>3, <1>4, <1>5, <1>6, <1>7, <1>8, <1>9, <1>10, <1>11

(* The invariant of the handles and requests holds.                         *)
THEOREM Invariance == Spec => []IInv
  BY InitIInv, NextIInv, PTL DEF Spec

(* The handles and requests keep their types.                               *)
THEOREM TypeCorrect == Spec => []TypeOK
<1>1. IInv => TypeOK
  BY DEF IInv, TypeOK, Handle
<1> QED BY <1>1, Invariance, PTL

(* However many goroutines set users on the one client, a request carries   *)
(* the credentials of its handle unless somebody has set others since.      *)
THEOREM CredentialsAreOwn == Spec => []OwnCredentials
<1>1. IInv => OwnCredentials
  BY DEF IInv, Good, Read, OwnCredentials
<1> QED BY <1>1, Invariance, PTL

(* A request that was sent leaves no span open.                             *)
THEOREM SpansEnd == Spec => []SpanEndsWithRequest
<1>1. IInv => SpanEndsWithRequest
  BY DEF IInv, Good, Watched, SpanEndsWithRequest, At
<1> QED BY <1>1, Invariance, PTL

(* What fails is captured for whoever asked for it, and nothing else.       *)
THEOREM CapturedFailures == Spec => []FailuresAreCaptured
<1>1. IInv => FailuresAreCaptured
  BY DEF IInv, Good, Watched, FailuresAreCaptured, At
<1> QED BY <1>1, Invariance, PTL

-----------------------------------------------------------------------------
(***************************************************************************)
(* The conversions.  What later services answer is a matter of the last    *)
(* answer only, so the invariant says of every answer, and not of the HTTP *)
(* ones alone, what status it amounts to; that one more round leaves it    *)
(* there is Idempotent.                                                    *)
(***************************************************************************)

(* The status a later service answers. *)
Relayed == StatusOf(ErrorOf(origin.status, origin.err))

(* What every answer amounts to. *)
Amounts ==
    /\ hops = 0 => at = "http" /\ status = origin.status /\ err = origin.err
    /\ hops > 0 => (err # "nil" <=> Fails)
    /\ hops > 0 /\ at = "http" => status = Relayed
    /\ at = "grpc" => StatusOf(err) = Relayed /\ err # "plain"

RelayIInv == RelayTypeOK /\ Amounts

(* The switches give a code for every status and a status for every code.   *)
LEMMA Converted ==
    /\ \A s \in Nat : CodeOf(s) \in Codes
    /\ \A e \in Codes \cup {"nil", "plain"} : StatusOf(e) \in Answers
  BY DEF CodeOf, StatusOf, Codes, Answers

(* Only "no error" has the status 200; every other has an error's.          *)
LEMMA ErrorStatus ==
    \A e \in Codes \cup {"plain"} : StatusOf(e) # 200 /\ StatusOf(e) >= 400
  BY DEF StatusOf, Codes

(* A status made from an error's code and relayed once more stays.          *)
LEMMA Idempotent ==
    \A e \in Codes : StatusOf(CodeOf(StatusOf(e))) = StatusOf(e)
  BY DEF StatusOf, CodeOf, Codes

(* The first answer is what it is.                                          *)
LEMMA RelayInitIInv == RelayInit => RelayIInv
  BY StatusAssumption DEF RelayInit, RelayIInv, RelayTypeOK, Amounts

(* Every conversion preserves what the answers amount to.                   *)
LEMMA RelayNextIInv == RelayIInv /\ [RelayNext]_relayVars => RelayIInv'
<1> SUFFICES ASSUME RelayIInv, [RelayNext]_relayVars PROVE RelayIInv'
  OBVIOUS
<1> USE StatusAssumption
<1>1. CASE HttpToGrpcError
  <2>1. origin' = origin /\ hops' = hops + 1 /\ hops' \in 0..MaxHops /\ hops \in Nat
    BY <1>1 DEF HttpToGrpcError, Hop, RelayIInv, RelayTypeOK
  <2>2. status \in Nat /\ CodeOf(status) \in Codes /\ err' \in Codes \cup {"nil"}
    BY <1>1, Converted DEF HttpToGrpcError, ErrorOf, RelayIInv, RelayTypeOK
  <2>3. RelayTypeOK'
    BY <1>1, <2>1, <2>2 DEF HttpToGrpcError, RelayIInv, RelayTypeOK
  <2>4. CASE hops = 0
    <3>1. err' = ErrorOf(origin.status, origin.err)
      BY <1>1, <2>4 DEF HttpToGrpcError, RelayIInv, Amounts
    <3>2. err' # "nil" <=> Fails
      BY <3>1, <2>2, <2>4, Converted DEF Fails, ErrorOf, Codes, RelayIInv, RelayTypeOK, Amounts
    <3> QED
      BY <1>1, <2>1, <2>2, <2>3, <3>1, <3>2
         DEF HttpToGrpcError, RelayIInv, Amounts, Relayed, Fails, Codes
  <2>5. CASE hops > 0
    <3>1. status = Relayed /\ (err # "nil" <=> Fails)
      BY <1>1, <2>5 DEF HttpToGrpcError, RelayIInv, Amounts
    <3>2. CASE ~Fails
      <4>1. err = "nil" /\ ErrorOf(origin.status, origin.err) = "nil"
        BY <3>1, <3>2 DEF Fails, ErrorOf, RelayIInv, RelayTypeOK
      <4> QED
        BY <1>1, <2>1, <2>3, <2>5, <3>2, <4>1
           DEF HttpToGrpcError, ErrorOf, RelayIInv, Amounts, Relayed, Fails
    <3>3. CASE Fails
      <4>1. /\ ErrorOf(origin.status, origin.err) = CodeOf(origin.status)
            /\ CodeOf(origin.status) \in Codes
        BY <3>3, Converted DEF Fails, ErrorOf, RelayIInv, RelayTypeOK
      <4>2. status # 200 /\ err # "nil"
        BY <3>1, <3>3, <4>1, ErrorStatus DEF Relayed
      <4>3. err' = CodeOf(Relayed)
        BY <1>1, <3>1, <4>2 DEF HttpToGrpcError, ErrorOf
      <4>4. StatusOf(err') = Relayed
        BY <4>1, <4>3, Idempotent DEF Relayed
      <4>5. err' # "nil" /\ err' # "plain"
        BY <2>2, <3>1, <4>3, Converted DEF Codes
      <4> QED
        BY <1>1, <2>1, <2>3, <2>5, <3>3, <4>4, <4>5
           DEF HttpToGrpcError, RelayIInv, Amounts, Relayed, Fails
    <3> QED BY <3>2, <3>3
  <2> QED BY <2>1, <2>4, <2>5
<1>2. ASSUME GrpcToHttpStatus \/ GrpcToHttpStatusError PROVE RelayIInv'
  <2>1. /\ at = "grpc" /\ at' = "http" /\ status' = StatusOf(err)
        /\ origin' = origin /\ hops' = hops + 1 /\ hops' \in 0..MaxHops /\ hops \in Nat
    BY <1>2 DEF GrpcToHttpStatus, GrpcToHttpStatusError, Hop, RelayIInv, RelayTypeOK
  <2>2. err' # "nil" <=> err # "nil"
    BY <1>2 DEF GrpcToHttpStatus, GrpcToHttpStatusError
  <2>3. err' \in Codes \cup {"nil", "plain"} /\ status' \in Statuses
    BY <1>2, <2>1, Converted DEF GrpcToHttpStatus, GrpcToHttpStatusError, RelayIInv, RelayTypeOK
  <2>4. hops > 0
    BY <2>1 DEF RelayIInv, Amounts
  <2> QED
    BY <2>1, <2>2, <2>3, <2>4 DEF RelayIInv, RelayTypeOK, Amounts, Relayed, Fails
<1>3. CASE UNCHANGED relayVars
  BY <1>3 DEF relayVars, RelayIInv, RelayTypeOK, Amounts, Relayed, Fails
<1> QED BY <1>1, <1>2, <1>3 DEF RelayNext

(* The invariant holds along every chain.                                   *)
THEOREM RelayInvariance == RelaySpec => []RelayIInv
  BY RelayInitIInv, RelayNextIInv, PTL DEF RelaySpec

(* However long the chain, an error is passed on as an error and nothing    *)
(* else becomes one.                                                        *)
THEOREM ErrorsArePassedOn == RelaySpec => []ErrorIsPassedOn
<1>1. RelayIInv => ErrorIsPassedOn
  <2> SUFFICES ASSUME RelayIInv, hops > 0, at = "http"
               PROVE  status >= 400 <=> Fails
    BY DEF RelayIInv, Amounts, ErrorIsPassedOn
  <2>1. status = Relayed
    BY DEF RelayIInv, Amounts
  <2>2. CASE Fails
    BY <2>1, <2>2, Converted, ErrorStatus, StatusAssumption
       DEF Fails, Relayed, ErrorOf, RelayIInv, RelayTypeOK
  <2>3. CASE ~Fails
    BY <2>1, <2>3 DEF Fails, Relayed, ErrorOf, StatusOf, RelayIInv, RelayTypeOK
  <2> QED BY <2>2, <2>3
<1> QED BY <1>1, RelayInvariance, PTL

(* However long the chain, every service answers what the first one would.  *)
THEOREM StatusesSettle == RelaySpec => []StatusSettles
<1>1. RelayIInv => StatusSettles
  BY DEF RelayIInv, Amounts, Relayed, StatusSettles
<1> QED BY <1>1, RelayInvariance, PTL

(* 503 is answered exactly for the statuses that allow a retry.             *)
THEOREM UnavailableStays == RelaySpec => []UnavailableIsKept
<1>1. RelayIInv => UnavailableIsKept
  BY StatusAssumption
     DEF RelayIInv, RelayTypeOK, Amounts, Relayed, UnavailableIsKept, StatusOf, ErrorOf, CodeOf
<1> QED BY <1>1, RelayInvariance, PTL
=============================================================================
