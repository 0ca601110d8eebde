----------------------------- MODULE MatchMaker -----------------------------
(***************************************************************************)
(* MatchMaker.MakeMatches and buildMatch (pkg/server/matchmaker.go): the   *)
(* goroutine that takes tickets from the ticket provider's channel, keeps  *)
(* them in unmatchedTickets, and sends a match on the results channel      *)
(* whenever it holds enough of them.                                       *)
(*                                                                         *)
(* Both channels are unbuffered, so a send and the receive it meets are    *)
(* one step. The caller of MakeMatches is the environment: it offers       *)
(* tickets and closes their channel, drains the results or stops doing so, *)
(* and may cancel scope.Ctx. The actions of the goroutine leave the        *)
(* caller's variables alone, so that MakeMatchesStream can conjoin them    *)
(* with the steps of the actual caller, the gRPC handler.                  *)
(***************************************************************************)
EXTENDS GameRules, Sequences

CONSTANTS Tickets,    \* the match tickets a caller may offer
          Rules,      \* the rule sets MakeMatches may be called with
          MaxTickets  \* bound: tickets the caller offers to one call

ASSUME MatchMakerAssumption ==
    /\ Rules \subseteq {r \in RuleSets : Accepts(r)}
    /\ MaxTickets \in Nat

VARIABLES
    pc,                \* where the goroutine is
    rule,              \* matchRules.(GameRules)
    unmatchedTickets,  \* tickets taken and not yet matched, oldest first
    match,             \* the match of the current round of buildMatch
    received,          \* history: every ticket taken, in order
    handed,            \* history: how many tickets the matches sent so far hold
    ticketsClosed,     \* caller: the ticket channel is closed
    draining,          \* caller: somebody receives from the results channel
    ctxDone            \* caller: scope.Ctx is cancelled

goroutineVars == <<pc, rule, unmatchedTickets, match, received, handed>>
callerVars == <<ticketsClosed, draining, ctxDone>>
vars == <<goroutineVars, callerVars>>

Matches == [Tickets : Seq(Tickets), Backfill : BOOLEAN]

TypeOK ==
    /\ pc \in {"off", "select", "build", "send", "closed", "panic"}
    /\ rule \in RuleSets
    /\ unmatchedTickets \in Seq(Tickets)
    /\ match \in Matches
    /\ received \in Seq(Tickets)
    /\ handed \in Nat
    /\ ticketsClosed \in BOOLEAN
    /\ draining \in BOOLEAN
    /\ ctxDone \in BOOLEAN

Init ==
    /\ pc = "off"
    /\ rule = ZeroRules
    /\ unmatchedTickets = <<>>
    /\ match = [Tickets |-> <<>>, Backfill |-> FALSE]
    /\ received = <<>>
    /\ handed = 0
    /\ ticketsClosed = FALSE
    /\ draining = TRUE
    /\ ctxDone = FALSE

-----------------------------------------------------------------------------
(***************************************************************************)
(* The goroutine.                                                          *)
(***************************************************************************)

\* The call of MakeMatches: the rules have the expected type, the goroutine starts.
MakeMatches(r) ==
    /\ pc = "off"
    /\ rule' = r
    /\ pc' = "select"
    /\ UNCHANGED <<unmatchedTickets, match, received, handed>>

\* case ticket, ok := <-nextTicket, with ok: buildMatch appends the ticket.
GetTicket(ticket) ==
    /\ pc = "select"
    /\ ~ticketsClosed
    /\ unmatchedTickets' = Append(unmatchedTickets, ticket)
    /\ received' = Append(received, ticket)
    /\ pc' = "build"
    /\ UNCHANGED <<rule, match, handed>>

\* Mutant of NoMoreTickets: goes on while tickets are left unmatched.
NoMoreTicketsAtAll ==
    /\ pc = "select"
    /\ ticketsClosed /\ unmatchedTickets = <<>>
    /\ pc' = "closed"
    /\ UNCHANGED <<rule, unmatchedTickets, match, received, handed>>

\* case ticket, ok := <-nextTicket, with !ok: return, and close(results).
NoMoreTickets ==
    /\ pc = "select"
    /\ ticketsClosed
    /\ pc' = "closed"
    /\ UNCHANGED <<rule, unmatchedTickets, match, received, handed>>

\* Mutant of CtxDone: likewise.
CtxDoneWhenMatched ==
    /\ pc = "select"
    /\ ctxDone /\ unmatchedTickets = <<>>
    /\ pc' = "closed"
    /\ UNCHANGED <<rule, unmatchedTickets, match, received, handed>>

\* case <-ctx.Done(): return, and close(results).
CtxDone ==
    /\ pc = "select"
    /\ ctxDone
    /\ pc' = "closed"
    /\ UNCHANGED <<rule, unmatchedTickets, match, received, handed>>

\* Mutant of EnoughTickets: waits for the largest match.
EnoughForTheLargest == Len(unmatchedTickets) >= MaxPlayers(rule)

EnoughTickets == Len(unmatchedTickets) >= MinPlayers(rule)

\* Mutant of NumPlayers: off by one.
NumPlayersLessOne ==
    IF Len(unmatchedTickets) >= MaxPlayers(rule) THEN MaxPlayers(rule) ELSE MinPlayers(rule) - 1

NumPlayers ==
    IF Len(unmatchedTickets) >= MaxPlayers(rule) THEN MaxPlayers(rule) ELSE MinPlayers(rule)

NotEnoughTickets ==
    /\ pc = "build"
    /\ ~EnoughTickets
    /\ pc' = "select"
    /\ UNCHANGED <<rule, unmatchedTickets, match, received, handed>>

\* Mutant of BuildMatch: make(..., maxPlayers), so that copy leaves empty tickets.
BuildLargestMatch ==
    /\ pc = "build"
    /\ EnoughTickets
    /\ NumPlayers >= 0
    /\ match' = [Tickets  |-> [i \in 1 .. MaxPlayers(rule) |->
                                  IF i <= NumPlayers THEN unmatchedTickets[i] ELSE "empty"],
                 Backfill |-> rule.AutoBackfill /\ NumPlayers < MaxPlayers(rule)]
    /\ pc' = "send"
    /\ UNCHANGED <<rule, unmatchedTickets, received, handed>>

BuildMatch ==
    /\ pc = "build"
    /\ EnoughTickets
    /\ NumPlayers >= 0
    /\ match' = [Tickets  |-> SubSeq(unmatchedTickets, 1, NumPlayers),
                 Backfill |-> rule.AutoBackfill /\ NumPlayers < MaxPlayers(rule)]
    /\ pc' = "send"
    /\ UNCHANGED <<rule, unmatchedTickets, received, handed>>

\* make([]matchmaker.Ticket, numPlayers) panics on a negative length.
BuildPanics ==
    /\ pc = "build"
    /\ EnoughTickets
    /\ NumPlayers < 0
    /\ pc' = "panic"
    /\ UNCHANGED <<rule, unmatchedTickets, match, received, handed>>

\* Mutant of SendMatch: unmatchedTickets[numPlayers-1:].
SendMatchKeepOne ==
    /\ pc = "send"
    /\ unmatchedTickets' = SubSeq(unmatchedTickets, Len(match.Tickets), Len(unmatchedTickets))
    /\ handed' = handed + Len(match.Tickets)
    /\ pc' = "build"
    /\ UNCHANGED <<rule, match, received>>

\* results <- match, which meets the caller's receive, and the cut that follows.
SendMatch ==
    /\ pc = "send"
    /\ unmatchedTickets' =
           SubSeq(unmatchedTickets, Len(match.Tickets) + 1, Len(unmatchedTickets))
    /\ handed' = handed + Len(match.Tickets)
    /\ pc' = "build"
    /\ UNCHANGED <<rule, match, received>>

-----------------------------------------------------------------------------
(***************************************************************************)
(* The caller, at its most general.                                        *)
(***************************************************************************)
CloseTickets ==
    /\ pc # "off" /\ ~ticketsClosed
    /\ ticketsClosed' = TRUE
    /\ UNCHANGED <<goroutineVars, draining, ctxDone>>

StopDraining ==
    /\ draining
    /\ draining' = FALSE
    /\ UNCHANGED <<goroutineVars, ticketsClosed, ctxDone>>

Cancel ==
    /\ ~ctxDone
    /\ ctxDone' = TRUE
    /\ UNCHANGED <<goroutineVars, ticketsClosed, draining>>

Caller == CloseTickets \/ StopDraining \/ Cancel

Start == (\E r \in Rules : MakeMatches(r)) /\ UNCHANGED callerVars

OfferTicket ==
    /\ Len(received) < MaxTickets
    /\ \E ticket \in Tickets : GetTicket(ticket)
    /\ UNCHANGED callerVars

Deliver == draining /\ SendMatch /\ UNCHANGED callerVars

Local ==
    /\ NoMoreTickets \/ CtxDone \/ NotEnoughTickets \/ BuildMatch \/ BuildPanics
    /\ UNCHANGED callerVars

Ended == pc \in {"closed", "panic"} /\ UNCHANGED vars

Next == Start \/ OfferTicket \/ Deliver \/ Local \/ Caller \/ Ended

(***************************************************************************)
(* The Go scheduler runs a goroutine that can run, and a send meets a      *)
(* receiver that is waiting; nothing is assumed of the caller.             *)
(***************************************************************************)
Fairness == WF_vars(Local) /\ WF_vars(Deliver)

Spec == Init /\ [][Next]_vars /\ Fairness

-----------------------------------------------------------------------------
(***************************************************************************)
(* Properties.                                                             *)
(***************************************************************************)

\* No ticket is lost, matched twice or matched out of turn while the goroutine
\* runs, whatever the rules and the slicing of buildMatch (append, copy,
\* unmatchedTickets[numPlayers:]): the tickets taken are those handed over in
\* matches followed by the unmatched ones, and the match being sent is made of
\* the oldest unmatched tickets.
TicketAccounting ==
    /\ handed <= Len(received)
    /\ unmatchedTickets = SubSeq(received, handed + 1, Len(received))
    /\ pc = "send" =>
          /\ Len(match.Tickets) <= Len(unmatchedTickets)
          /\ match.Tickets = SubSeq(unmatchedTickets, 1, Len(match.Tickets))

\* buildMatch runs after every single ticket, so it never sees more tickets than
\* the minimum: every match has exactly minPlayers tickets, and the branch that
\* would make one of maxPlayers (matchmaker.go:153-155) matters only when the two
\* are equal. Hence a rule set with room above its minimum asks for backfill on
\* all of its matches or on none.
MatchesOfMinimumSize ==
    Workable(rule) =>
        /\ pc = "select" => Len(unmatchedTickets) < MinPlayers(rule)
        /\ pc = "send" =>
              /\ Len(match.Tickets) = MinPlayers(rule)
              /\ match.Backfill <=> rule.AutoBackfill /\ MinPlayers(rule) < MaxPlayers(rule)

\* A rule set without negative numbers or overflowing products never makes
\* buildMatch ask for a slice of negative length, which would end the process
\* and every other stream with it.
SensibleRulesNeverPanic == pc = "panic" => ~Sensible(rule)

\* Once the provider's channel is closed the results are closed, for as long as
\* the caller receives the matches still to come (interfaces.go: MakeMatches
\* "should close the channel when all matches are exhausted").
ClosesWhenExhausted == ticketsClosed ~> (pc = "closed" \/ ~draining)

\* A cancelled scope.Ctx ends the call, for as long as the caller keeps receiving
\* what was already under way. (It does not reach a goroutine whose caller has
\* stopped receiving: results <- match is not in a select with ctx.Done().)
CancelEndsDrainedCall == ctxDone /\ pc # "off" ~> (pc = "closed" \/ ~draining)

\* The goroutine implements what the MatchLogic interface promises.
Contract == INSTANCE MatchLogic WITH
    phase   <- CASE pc = "off" -> "idle"
                 [] pc = "closed" -> "closed"
                 [] OTHER -> "running",
    least   <- MinPlayers(rule),
    most    <- MaxPlayers(rule),
    taken   <- received,
    pending <- IF pc = "send" THEN match.Tickets ELSE <<>>

ContractSpec == Contract!Spec

=============================================================================
