---------------------------- MODULE StatusRelay ----------------------------
(***************************************************************************)
(* The conversions between HTTP statuses and gRPC errors of                *)
(* shared/shared/shared.go, along a chain of services: one answers over    *)
(* HTTP, the next relays that as a gRPC error, the next as an HTTP status  *)
(* again, and so on.                                                       *)
(***************************************************************************)
EXTENDS Naturals

CONSTANTS
    Statuses,   \* the HTTP statuses services answer with
    MaxHops     \* bound: conversions along the chain

(* The statuses the conversions themselves answer with. *)
Answers == {200, 400, 401, 403, 404, 500, 503}

ASSUME StatusAssumption ==
    /\ Statuses \subseteq Nat
    /\ Answers \subseteq Statuses
    /\ MaxHops \in Nat

Codes == {"InvalidArgument", "Unauthenticated", "PermissionDenied", "NotFound",
          "Unavailable", "Internal", "Unknown"}

VARIABLES
    at,     \* the kind of the last answer
    status, \* the last HTTP status
    err,    \* the error with it: "nil", "plain", or a gRPC error's code
    origin, \* the first answer's status and error
    hops    \* conversions so far

relayVars == <<at, status, err, origin, hops>>

RelayTypeOK ==
    /\ at \in {"http", "grpc"}
    /\ status \in Statuses
    /\ err \in Codes \cup {"nil", "plain"}
    /\ origin \in [status : Statuses, err : {"nil", "plain"}]
    /\ hops \in 0..MaxHops

RelayInit ==
    /\ at = "http"
    /\ origin \in [status : Statuses, err : {"nil", "plain"}]
    /\ status = origin.status
    /\ err = origin.err
    /\ hops = 0
-----------------------------------------------------------------------------
(* Mutant: the switch forgets 503. *)
CodeOf_Forgets503(s) ==
    CASE s = 400 -> "InvalidArgument"
      [] s = 401 -> "Unauthenticated"
      [] s = 403 -> "PermissionDenied"
      [] s = 404 -> "NotFound"
      [] s \in {429, 502, 504} -> "Unavailable"
      [] s = 500 -> "Internal"
      [] OTHER -> "Unknown"

CodeOf(s) ==
    CASE s = 400 -> "InvalidArgument"
      [] s = 401 -> "Unauthenticated"
      [] s = 403 -> "PermissionDenied"
      [] s = 404 -> "NotFound"
      [] s \in {429, 502, 503, 504} -> "Unavailable"
      [] s = 500 -> "Internal"
      [] OTHER -> "Unknown"

(* A plain error has the code Unknown, no error the code OK. *)
StatusOf(e) ==
    CASE e = "nil" -> 200
      [] e = "InvalidArgument" -> 400
      [] e = "Unauthenticated" -> 401
      [] e = "PermissionDenied" -> 403
      [] e = "NotFound" -> 404
      [] e = "Unavailable" -> 503
      [] OTHER -> 500

(* Mutant: only the statuses of the switch are errors. *)
ErrorOf_KnownOnly(s, e) ==
    IF e = "nil" \/ CodeOf(s) = "Unknown" THEN "nil" ELSE CodeOf(s)

(* No error, or an error with status 200, is no gRPC error. *)
ErrorOf(s, e) == IF e = "nil" \/ s = 200 THEN "nil" ELSE CodeOf(s)

Hop ==
    /\ hops < MaxHops
    /\ hops' = hops + 1
    /\ UNCHANGED origin

HttpToGrpcError ==
    /\ at = "http"
    /\ at' = "grpc"
    /\ err' = ErrorOf(status, err)
    /\ Hop
    /\ UNCHANGED status

(* Answers with the status only; the gRPC error itself goes on with it. *)
GrpcToHttpStatus ==
    /\ at = "grpc"
    /\ at' = "http"
    /\ status' = StatusOf(err)
    /\ Hop
    /\ UNCHANGED err

(* Answers with the status and a plain error that has the message. *)
GrpcToHttpStatusError ==
    /\ at = "grpc"
    /\ at' = "http"
    /\ status' = StatusOf(err)
    /\ err' = IF err = "nil" THEN "nil" ELSE "plain"
    /\ Hop

RelayNext == HttpToGrpcError \/ GrpcToHttpStatus \/ GrpcToHttpStatusError

RelaySpec == RelayInit /\ [][RelayNext]_relayVars
-----------------------------------------------------------------------------
(***************************************************************************)
(* Properties.                                                             *)
(***************************************************************************)
Fails == origin.err = "plain" /\ origin.status # 200

(* The first answer's error reaches every later service, as an error and    *)
(* with a status that is one; what had none gets none.  (An error that came *)
(* with status 200 is dropped by the first conversion.)                     *)
ErrorIsPassedOn ==
    hops > 0 =>
        /\ err # "nil" <=> Fails
        /\ at = "http" => (status >= 400 <=> Fails)

(* The length of the chain makes no difference: every service answers what  *)
(* the first one behind the origin would.                                   *)
StatusSettles ==
    hops > 0 /\ at = "http" => status = StatusOf(ErrorOf(origin.status, origin.err))

(* A retry is in order, 503, exactly when the first answer allowed it.      *)
UnavailableIsKept ==
    hops > 0 /\ at = "http" =>
        (status = 503 <=> origin.err = "plain" /\ origin.status \in {429, 502, 503, 504})
=============================================================================
