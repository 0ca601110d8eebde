----------------------------- MODULE UnaryCalls -----------------------------
(***************************************************************************)
(* The RPCs on their way through the server: the generated handler         *)
(* (pkg/pb/matchFunction_grpc.pb.go) calls the interceptor chain, whose    *)
(* last member checks the authorization (pkg/common/                       *)
(* authServerInterceptor.go), and then the method of MatchFunctionServer   *)
(* (pkg/server/matchFunctionService.go). "Check" is the health service,    *)
(* whose calls take the same way but are not checked.                      *)
(*                                                                         *)
(* Each client makes one call. The unary methods share no state, so each   *)
(* is one step. "MakeMatches" stands for either stream, of which only the  *)
(* stages are here: its goroutines are in modules MakeMatchesStream and    *)
(* BackfillStream. What a call does to the process is left to module       *)
(* ServerProcess.                                                          *)
(***************************************************************************)
CONSTANTS Clients,
          Requests  \* the requests a client may make

Methods == {"GetStatCodes", "ValidateTicket", "EnrichTicket", "Check", "MakeMatches"}

\* Rules: accepted by RulesFromJSON (module RulesLoading), of a text it cannot decode,
\* with a minimum above its maximum, or none at all; whether there is a ticket; and the
\* authorization metadata.
RequestSpace == [method : Methods, rules : {"accepted", "undecodable", "disordered", "missing"},
                 ticket : BOOLEAN, token : {"none", "bad", "good"}]

VARIABLES
    request,       \* of each client: its request, once it has made it
    call,          \* of each client: "idle", "arrived", "admitted", "streaming", or
                   \* the answer
    validator,     \* common.Validator: "unset", "failed" or "ready", by its Initialize
    intercepting   \* the authorization interceptors are installed

Stages == {"idle", "arrived", "admitted", "streaming"}

\* What the interceptor answers with, and what a method does.
Denials == {"Internal", "Unauthenticated", "PermissionDenied"}
Answers == {"codes", "valid", "enriched", "ok", "InvalidArgument", "Unknown", "Canceled"}
               \cup Denials

TypeOK ==
    /\ DOMAIN request \subseteq Clients
    /\ \A c \in DOMAIN request : request[c] \in Requests
    /\ call \in [Clients -> Stages \cup Answers]
    /\ \A c \in Clients : call[c] = "idle" <=> c \notin DOMAIN request

Init ==
    /\ request = [c \in {} |-> "none"]
    /\ call = [c \in Clients |-> "idle"]

Arrive(c, r) ==
    /\ call[c] = "idle"
    /\ request' = [d \in DOMAIN request \cup {c} |-> IF d = c THEN r ELSE request[d]]
    /\ call' = [call EXCEPT ![c] = "arrived"]

-----------------------------------------------------------------------------
(***************************************************************************)
(* UnaryAuthServerIntercept and StreamAuthServerIntercept.                 *)
(***************************************************************************)
SkipCheck(r) == r.method = "Check"

\* Mutant of Admits: the token is not validated.
AdmitsUnvalidated(r) == validator # "unset" /\ r.token # "none"

\* checkAuthorizationMetadata. A validator that could not be initialized may lack the
\* keys for a good token.
Admits(r) == validator # "unset" /\ r.token = "good"

\* Mutant of Refusal: the missing header is left to Validate.
RefusalByValidate(r) == IF validator = "unset" THEN "Internal" ELSE "PermissionDenied"

Refusal(r) ==
    IF validator = "unset" THEN "Internal"
    ELSE IF r.token = "none" THEN "Unauthenticated" ELSE "PermissionDenied"

Admit(c) ==
    /\ call[c] = "arrived"
    /\ ~intercepting \/ SkipCheck(request[c]) \/ Admits(request[c])
    /\ call' = [call EXCEPT ![c] = "admitted"]
    /\ UNCHANGED request

Refuse(c) ==
    /\ call[c] = "arrived"
    /\ intercepting /\ ~SkipCheck(request[c])
    /\ Admits(request[c]) => validator = "failed"
    /\ call' = [call EXCEPT ![c] = Refusal(request[c])]
    /\ UNCHANGED request

(***************************************************************************)
(* The methods.                                                            *)
(***************************************************************************)
IsStream(r) == r.method = "MakeMatches"

\* req.Rules.Json, ticket.TicketId and mrpT.Parameters.Rules.Json of a nil message.
\* EnrichTicket does not look into the rules.
Panics(r) ==
    \/ r.method \in {"GetStatCodes", "ValidateTicket", "MakeMatches"} /\ r.rules = "missing"
    \/ r.method \in {"ValidateTicket", "EnrichTicket"} /\ ~r.ticket

\* RulesFromJSON gives its own errors a status code, and that of json.Unmarshal none.
RefusedRules(r) == r.rules \in {"undecodable", "disordered"}
RulesError(r) == IF r.rules = "undecodable" THEN "Unknown" ELSE "InvalidArgument"

GetStatCodes(r) == IF RefusedRules(r) THEN RulesError(r) ELSE "codes"

\* The error of RulesFromJSON is logged and then overwritten.
ValidateTicket(r) == "valid"

\* What it does to the ticket is in module SessionLife.
EnrichTicket(r) == "enriched"

\* What a unary method that does not panic returns.
Answer(r) ==
    CASE r.method = "GetStatCodes"   -> GetStatCodes(r)
      [] r.method = "ValidateTicket" -> ValidateTicket(r)
      [] r.method = "EnrichTicket"   -> EnrichTicket(r)
      [] r.method = "Check"          -> "ok"

Return(c) ==
    /\ call[c] = "admitted" /\ ~IsStream(request[c])
    /\ ~Panics(request[c])
    /\ call' = [call EXCEPT ![c] = Answer(request[c])]
    /\ UNCHANGED request

Panic(c) ==
    /\ call[c] = "admitted" /\ ~IsStream(request[c])
    /\ Panics(request[c])
    /\ UNCHANGED <<request, call>>

(***************************************************************************)
(* The streams. A client that has opened one may never send a message, and *)
(* a stream under way may stay so.                                         *)
(***************************************************************************)
StreamStarts(c) ==
    /\ call[c] = "admitted" /\ IsStream(request[c])
    /\ request[c].rules = "accepted"
    /\ call' = [call EXCEPT ![c] = "streaming"]
    /\ UNCHANGED request

\* The first message brings rules that are refused; or it is not the parameters, or
\* there is none (an error in MakeMatches, and none in BackfillMatches).
StreamRejected(c) ==
    /\ call[c] = "admitted" /\ IsStream(request[c])
    /\ \/ RefusedRules(request[c]) /\ call' = [call EXCEPT ![c] = RulesError(request[c])]
       \/ \E answer \in {"ok", "Unknown"} : call' = [call EXCEPT ![c] = answer]
    /\ UNCHANGED request

\* All matches or proposals are sent, or the stream is broken.
StreamEnds(c) ==
    /\ call[c] \in {"admitted", "streaming"} /\ IsStream(request[c])
    /\ \/ call[c] = "streaming" /\ call' = [call EXCEPT ![c] = "ok"]
       \/ call' = [call EXCEPT ![c] = "Canceled"]
    /\ UNCHANGED request

\* Parameters without rules, or a panic of one of the goroutines of the stream.
StreamPanics(c) ==
    /\ call[c] \in {"admitted", "streaming"} /\ IsStream(request[c])
    /\ call[c] = "streaming" \/ Panics(request[c])
    /\ UNCHANGED <<request, call>>

=============================================================================
