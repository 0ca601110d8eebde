--------------------------- MODULE BackfillMaker ---------------------------
(***************************************************************************)
(* MatchMaker.BackfillMatches and buildBackfillMatch (pkg/server/          *)
(* matchmaker.go): the goroutine that takes match tickets and backfill     *)
(* tickets from the provider's two channels and sends a proposal for each  *)
(* pair it forms.                                                          *)
(*                                                                         *)
(* A backfill ticket brings memory along: the map of its match attributes, *)
(* which every proposal for it is given and writes its generatedID to, and *)
(* the array behind its teams, whose free slot (if append left one) every  *)
(* proposal for it writes its team to. A proposal the caller has received  *)
(* still points there.                                                     *)
(*                                                                         *)
(* All channels are unbuffered. The caller receives one proposal at a time *)
(* and is done with it before it receives the next.                        *)
(***************************************************************************)
EXTENDS Integers, Sequences, FiniteSets

CONSTANTS
    Tickets,             \* match tickets
    BackfillTickets,     \* backfill tickets
    Excluded,            \* the backfill tickets whose session a ticket excludes
    RoomForATeam,        \* the backfill tickets with a free slot behind their teams
    MaxTickets,          \* bound: tickets the caller offers to one call
    MaxBackfillTickets   \* bound: backfill tickets the caller offers to one call

ASSUME BackfillAssumption ==
    /\ Excluded \in [Tickets -> SUBSET BackfillTickets]
    /\ RoomForATeam \subseteq BackfillTickets
    /\ MaxTickets \in Nat /\ MaxBackfillTickets \in Nat

VARIABLES
    pc,                        \* where the goroutine is
    i,                         \* the index of the range over the backfill tickets
    unmatchedTickets,          \* tickets taken and not yet used, oldest first
    unmatchedBackfillTickets,  \* the queued backfill tickets, by their number
    nextTicket,                \* FALSE once nextTicket is set to nil
    nextBackfillTicket,        \* FALSE once nextBackfillTicket is set to nil
    generatedID,               \* for each backfill ticket, the last proposal that
                               \* wrote its attributes (0: none)
    lastTeam,                  \* for each backfill ticket, the last proposal that
                               \* wrote to the slot behind its teams (0: none)
    received,                  \* history: every ticket taken, in order
    receivedBackfill,          \* history: every backfill ticket taken; its place is
                               \* its number
    backfillFirst,             \* history: no backfill ticket was taken after a ticket
    dropped,                   \* history: number of tickets dropped
    proposals,                 \* history: every proposal built, in order
    held,                      \* caller: it is working on the last proposal sent
    ticketsClosed,             \* caller: both provider channels are closed
    draining,                  \* caller: it receives from the results channel
    ctxDone                    \* caller: scope.Ctx is cancelled

queues == <<unmatchedTickets, unmatchedBackfillTickets>>
memory == <<generatedID, lastTeam>>
inputs == <<nextTicket, nextBackfillTicket, received, receivedBackfill, backfillFirst>>
callerVars == <<held, ticketsClosed, draining, ctxDone>>
vars == <<pc, i, queues, memory, inputs, dropped, proposals, callerVars>>

\* A proposal: the number of its backfill ticket and the ticket it adds.
Proposals == [backfill : Nat \ {0}, ticket : Tickets]

Sent == IF pc = "send" THEN Len(proposals) - 1 ELSE Len(proposals)

TypeOK ==
    /\ pc \in {"off", "select", "build", "send", "closed", "panic"}
    /\ i \in Nat \ {0}
    /\ unmatchedTickets \in Seq(Tickets)
    /\ unmatchedBackfillTickets \in Seq(1 .. Len(receivedBackfill))
    /\ nextTicket \in BOOLEAN /\ nextBackfillTicket \in BOOLEAN
    /\ generatedID \in [1 .. Len(receivedBackfill) -> 0 .. Len(proposals)]
    /\ lastTeam \in [1 .. Len(receivedBackfill) -> 0 .. Len(proposals)]
    /\ received \in Seq(Tickets)
    /\ receivedBackfill \in Seq(BackfillTickets)
    /\ backfillFirst \in BOOLEAN
    /\ dropped \in Nat
    /\ proposals \in Seq(Proposals)
    /\ held \in BOOLEAN /\ ticketsClosed \in BOOLEAN
    /\ draining \in BOOLEAN /\ ctxDone \in BOOLEAN

Init ==
    /\ pc = "off" /\ i = 1
    /\ unmatchedTickets = <<>> /\ unmatchedBackfillTickets = <<>>
    /\ nextTicket = TRUE /\ nextBackfillTicket = TRUE
    /\ generatedID = <<>> /\ lastTeam = <<>>
    /\ received = <<>> /\ receivedBackfill = <<>> /\ backfillFirst = TRUE
    /\ dropped = 0
    /\ proposals = <<>>
    /\ held = FALSE /\ ticketsClosed = FALSE /\ draining = TRUE /\ ctxDone = FALSE

-----------------------------------------------------------------------------
(***************************************************************************)
(* The goroutine: the select.                                              *)
(***************************************************************************)
BackfillMatches ==
    /\ pc = "off"
    /\ pc' = "select"
    /\ UNCHANGED <<i, queues, memory, inputs, dropped, proposals>>

GetTicket(ticket) ==
    /\ pc = "select" /\ nextTicket /\ ~ticketsClosed
    /\ unmatchedTickets' = Append(unmatchedTickets, ticket)
    /\ received' = Append(received, ticket)
    /\ i' = 1
    /\ pc' = "build"
    /\ UNCHANGED <<unmatchedBackfillTickets, memory, nextTicket, nextBackfillTicket,
                   receivedBackfill, backfillFirst, dropped, proposals>>

GetBackfillTicket(backfillTicket) ==
    /\ pc = "select" /\ nextBackfillTicket /\ ~ticketsClosed
    /\ receivedBackfill' = Append(receivedBackfill, backfillTicket)
    /\ unmatchedBackfillTickets' = Append(unmatchedBackfillTickets, Len(receivedBackfill'))
    /\ backfillFirst' = (backfillFirst /\ received = <<>>)
    /\ generatedID' = Append(generatedID, 0)
    /\ lastTeam' = Append(lastTeam, 0)
    /\ i' = 1
    /\ pc' = "build"
    /\ UNCHANGED <<unmatchedTickets, nextTicket, nextBackfillTicket, received, dropped, proposals>>

\* Mutant of NoMoreTickets: goes on while tickets are left.
NoMoreTicketsAtAll ==
    /\ pc = "select" /\ nextTicket /\ ticketsClosed /\ unmatchedTickets = <<>>
    /\ nextTicket' = FALSE
    /\ pc' = IF nextBackfillTicket THEN "select" ELSE "closed"
    /\ UNCHANGED <<i, queues, memory, nextBackfillTicket, received, receivedBackfill,
                   backfillFirst, dropped, proposals>>

\* A closed channel is set to nil; when both are, the loop returns.
NoMoreTickets ==
    /\ pc = "select" /\ nextTicket /\ ticketsClosed
    /\ nextTicket' = FALSE
    /\ pc' = IF nextBackfillTicket THEN "select" ELSE "closed"
    /\ UNCHANGED <<i, queues, memory, nextBackfillTicket, received, receivedBackfill,
                   backfillFirst, dropped, proposals>>

\* Mutant of NoMoreBackfillTickets: without the test of ok, so that the zero value a
\* closed channel yields is queued as a backfill ticket.
NoMoreBackfillTicketsUnchecked ==
    /\ pc = "select" /\ nextBackfillTicket /\ ticketsClosed
    /\ unmatchedBackfillTickets' = Append(unmatchedBackfillTickets, 0)
    /\ i' = 1
    /\ pc' = "build"
    /\ UNCHANGED <<unmatchedTickets, memory, inputs, dropped, proposals>>

NoMoreBackfillTickets ==
    /\ pc = "select" /\ nextBackfillTicket /\ ticketsClosed
    /\ nextBackfillTicket' = FALSE
    /\ pc' = IF nextTicket THEN "select" ELSE "closed"
    /\ UNCHANGED <<i, queues, memory, nextTicket, received, receivedBackfill,
                   backfillFirst, dropped, proposals>>

CtxDone ==
    /\ pc = "select" /\ ctxDone
    /\ pc' = "closed"
    /\ UNCHANGED <<i, queues, memory, inputs, dropped, proposals>>

(***************************************************************************)
(* The goroutine: buildBackfillMatch, whose loop ranges over the backfill  *)
(* tickets and takes one ticket for each.                                  *)
(***************************************************************************)
InRange == i <= Len(unmatchedBackfillTickets)

\* One of the queues is empty at the start, or every backfill ticket had its turn.
EndRound ==
    /\ pc = "build"
    /\ ~InRange \/ (i = 1 /\ unmatchedTickets = <<>>)
    /\ pc' = "select"
    /\ UNCHANGED <<i, queues, memory, inputs, dropped, proposals>>

\* unmatchedTickets[0], when the tickets ran out after an excluded one.
IndexPanics ==
    /\ pc = "build"
    /\ InRange /\ i > 1 /\ unmatchedTickets = <<>>
    /\ pc' = "panic"
    /\ UNCHANGED <<i, queues, memory, inputs, dropped, proposals>>

IsExcluded ==
    receivedBackfill[unmatchedBackfillTickets[i]] \in Excluded[Head(unmatchedTickets)]

\* The ticket has been taken from the slice and is not put back.
SkipExcluded ==
    /\ pc = "build"
    /\ InRange /\ unmatchedTickets # <<>>
    /\ IsExcluded
    /\ unmatchedTickets' = Tail(unmatchedTickets)
    /\ dropped' = dropped + 1
    /\ i' = i + 1
    /\ UNCHANGED <<pc, unmatchedBackfillTickets, memory, inputs, proposals>>

\* Mutant of Propose: the ticket stays in the slice.
ProposeAndKeep ==
    /\ pc = "build"
    /\ InRange /\ unmatchedTickets # <<>>
    /\ ~IsExcluded
    /\ LET b == unmatchedBackfillTickets[i]
       IN  /\ proposals' = Append(proposals, [backfill |-> b, ticket |-> Head(unmatchedTickets)])
           /\ generatedID' = [generatedID EXCEPT ![b] = Len(proposals')]
    /\ pc' = "send"
    /\ UNCHANGED <<i, queues, lastTeam, inputs, dropped>>

\* append to the teams, then proposedAttributes["generatedID"] = ...
Propose ==
    /\ pc = "build"
    /\ InRange /\ unmatchedTickets # <<>>
    /\ ~IsExcluded
    /\ LET b == unmatchedBackfillTickets[i]
           n == Len(proposals) + 1
       IN  /\ proposals' = Append(proposals, [backfill |-> b, ticket |-> Head(unmatchedTickets)])
           /\ lastTeam' = IF receivedBackfill[b] \in RoomForATeam
                          THEN [lastTeam EXCEPT ![b] = n] ELSE lastTeam
           /\ generatedID' = [generatedID EXCEPT ![b] = n]
    /\ unmatchedTickets' = Tail(unmatchedTickets)
    /\ pc' = "send"
    /\ UNCHANGED <<i, unmatchedBackfillTickets, inputs, dropped>>

\* Mutant of SendProposal: without the break.
SendProposalNoBreak ==
    /\ pc = "send"
    /\ i' = i + 1
    /\ pc' = "build"
    /\ UNCHANGED <<queues, memory, inputs, dropped, proposals>>

\* Mutant of SendProposal: [i:] for [i+1:].
SendProposalCutLess ==
    /\ pc = "send"
    /\ IF unmatchedTickets = <<>>
       THEN /\ unmatchedBackfillTickets' =
                   SubSeq(unmatchedBackfillTickets, i, Len(unmatchedBackfillTickets))
            /\ pc' = "select"
            /\ UNCHANGED i
       ELSE /\ i' = i + 1
            /\ pc' = "build"
            /\ UNCHANGED unmatchedBackfillTickets
    /\ UNCHANGED <<unmatchedTickets, memory, inputs, dropped, proposals>>

\* results <- proposal; the queue of backfill tickets is cut when the tickets are
\* used up, and only then.
SendProposal ==
    /\ pc = "send"
    /\ IF unmatchedTickets = <<>>
       THEN /\ unmatchedBackfillTickets' =
                   SubSeq(unmatchedBackfillTickets, i + 1, Len(unmatchedBackfillTickets))
            /\ pc' = "select"
            /\ UNCHANGED i
       ELSE /\ i' = i + 1
            /\ pc' = "build"
            /\ UNCHANGED unmatchedBackfillTickets
    /\ UNCHANGED <<unmatchedTickets, memory, inputs, dropped, proposals>>

-----------------------------------------------------------------------------
(***************************************************************************)
(* The caller.                                                             *)
(***************************************************************************)
Start == BackfillMatches /\ UNCHANGED callerVars

OfferTicket ==
    /\ Len(received) < MaxTickets
    /\ \E ticket \in Tickets : GetTicket(ticket)
    /\ UNCHANGED callerVars

OfferBackfillTicket ==
    /\ Len(receivedBackfill) < MaxBackfillTickets
    /\ \E backfillTicket \in BackfillTickets : GetBackfillTicket(backfillTicket)
    /\ UNCHANGED callerVars

Deliver ==
    /\ draining /\ ~held
    /\ SendProposal
    /\ held' = TRUE
    /\ UNCHANGED <<ticketsClosed, draining, ctxDone>>

Release ==
    /\ held
    /\ held' = FALSE
    /\ UNCHANGED <<pc, i, queues, memory, inputs, dropped, proposals,
                   ticketsClosed, draining, ctxDone>>

Caller ==
    /\ \/ /\ pc # "off" /\ ~ticketsClosed /\ ticketsClosed' = TRUE
          /\ UNCHANGED <<draining, ctxDone>>
       \/ draining /\ draining' = FALSE /\ UNCHANGED <<ticketsClosed, ctxDone>>
       \/ ~ctxDone /\ ctxDone' = TRUE /\ UNCHANGED <<ticketsClosed, draining>>
    /\ UNCHANGED <<pc, i, queues, memory, inputs, dropped, proposals, held>>

Local ==
    /\ \/ NoMoreTickets \/ NoMoreBackfillTickets \/ CtxDone
       \/ EndRound \/ IndexPanics \/ SkipExcluded \/ Propose
    /\ UNCHANGED callerVars

Ended == pc \in {"closed", "panic"} /\ UNCHANGED vars

Next ==
    \/ Start \/ OfferTicket \/ OfferBackfillTicket \/ Deliver \/ Release
    \/ Local \/ Caller \/ Ended

(***************************************************************************)
(* The goroutine runs when it can, and the caller is done with a proposal  *)
(* after a while; nothing else is assumed of the caller.                   *)
(***************************************************************************)
Fairness == WF_vars(Local) /\ WF_vars(Deliver) /\ WF_vars(Release)

Spec == Init /\ [][Next]_vars /\ Fairness

-----------------------------------------------------------------------------
(***************************************************************************)
(* Properties.                                                             *)
(***************************************************************************)

\* Each ticket taken is used once: it is in one proposal, or dropped, or still
\* unmatched, and tickets are used in the order they came. A ticket in a proposal
\* does not exclude the session it is proposed for.
TicketAccounting ==
    /\ unmatchedTickets = SubSeq(received, Len(proposals) + dropped + 1, Len(received))
    /\ \A n \in 1 .. Len(proposals) :
          /\ \E k \in n .. n + dropped : received[k] = proposals[n].ticket
          /\ receivedBackfill[proposals[n].backfill] \notin Excluded[proposals[n].ticket]

\* buildBackfillMatch only runs off its slice of tickets when a ticket that
\* excludes a session arrives while several backfill tickets are queued: a call
\* with one backfill ticket (docs/matchmaking.md:31) never panics.
PanicNeedsExclusion ==
    pc = "panic" => Len(unmatchedBackfillTickets) >= 2 /\ dropped > 0

\* A client that sends its backfill tickets first (docs/matchmaking.md:29-32) gets
\* at most one proposal for each of them: no proposal describes a session without
\* the team that an earlier one added.
OneProposalEach ==
    backfillFirst =>
        \A m, n \in 1 .. Len(proposals) :
            proposals[m].backfill = proposals[n].backfill => m = n

\* The proposal the caller is working on has the attributes and teams it was sent
\* with.
HeldProposalIntact ==
    held =>
        LET b == proposals[Sent].backfill
        IN  /\ generatedID[b] = Sent
            /\ receivedBackfill[b] \in RoomForATeam => lastTeam[b] = Sent

\* With that order the goroutine also leaves alone what it has handed over.
IntactWhenBackfillFirst == backfillFirst => HeldProposalIntact

\* Tickets and backfill tickets may come in any number and order
\* (pkg/proto/matchFunction.proto:158-159: both are "sent 0..N times"), and the goroutine
\* survives them.
NeverPanics == pc # "panic"

\* When the channels are closed the results are closed as well, whatever is left
\* in the queues, for as long as the caller receives; or the goroutine has panicked
\* (NeverPanics), which ends the process and the call with it.
ClosesWhenExhausted == ticketsClosed ~> (pc \in {"closed", "panic"} \/ ~draining)

=============================================================================
