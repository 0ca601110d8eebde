--------------------------- MODULE BackfillStream ---------------------------
(***************************************************************************)
(* The BackfillMatches RPC (pkg/server/matchFunctionService.go): the       *)
(* handler, which reads the parameters, starts everything and turns        *)
(* proposals into responses; the goroutine of fetchBackfillTickets; and    *)
(* the match maker's goroutine (module BackfillMaker). Unlike MakeMatches  *)
(* the handler waits for neither of them.                                  *)
(*                                                                         *)
(* The client and the transport are as in MakeMatchesStream. When the      *)
(* handler returns, the stream is over and Recv fails. A panic, and the    *)
(* concurrent use of a map that the Go runtime notices, ends the process.  *)
(***************************************************************************)
EXTENDS Integers, Sequences

CONSTANTS Tickets, BackfillTickets, Excluded, RoomForATeam,  \* as in BackfillMaker
          MaxMessages   \* bound: messages a client sends on one stream

ASSUME BackfillStreamAssumption ==
    /\ Excluded \in [Tickets -> SUBSET BackfillTickets]
    /\ RoomForATeam \subseteq BackfillTickets
    /\ MaxMessages \in Nat

VARIABLES
    messages, halfClosed, broken,  \* client and transport, as in MakeMatchesStream
    next,            \* number of messages Recv has returned
    handler,         \* "start", "recv", "convert", "send", "returned" or "failed"
    responses,       \* history: every response built; in "send" the last is not sent yet
    fetcher,         \* fetchBackfillTickets: "off", "recv", "push" or "done"
    ticketsClosed,   \* both provider channels are closed
    crashed,         \* the process is gone
    maker, i, unmatchedTickets, unmatchedBackfillTickets, nextTicket,
    nextBackfillTicket, generatedID, lastTeam, received, receivedBackfill,
    backfillFirst, dropped, proposals      \* module BackfillMaker

streamVars == <<messages, halfClosed, broken>>
handlerVars == <<handler, responses>>
fetcherVars == <<fetcher, ticketsClosed>>
makerVars == <<maker, i, unmatchedTickets, unmatchedBackfillTickets, nextTicket,
               nextBackfillTicket, generatedID, lastTeam, received, receivedBackfill,
               backfillFirst, dropped, proposals>>
vars == <<streamVars, next, handlerVars, fetcherVars, crashed, makerVars>>

\* The handler works on a proposal from the receive to the end of the conversion.
BM == INSTANCE BackfillMaker WITH
    MaxTickets         <- MaxMessages,
    MaxBackfillTickets <- MaxMessages,
    pc                 <- maker,
    held               <- handler = "convert",
    draining           <- handler # "failed",
    ctxDone            <- FALSE

\* What RulesFromJSON makes of the parameters (module RulesLoading), or no Rules.
Parameters(rules) == [type |-> "parameters", rules |-> rules]
TicketMessage(t) == [type |-> "ticket", ticket |-> t]
BackfillMessage(b, whole) == [type |-> "backfill", ticket |-> b, whole |-> whole]
EmptyMessage == [type |-> "none"]

\* A backfill ticket is whole when its partial match is there.
Messages ==
    {Parameters(r) : r \in {"accepted", "refused", "missing"}}
        \cup {TicketMessage(t) : t \in Tickets}
        \cup {BackfillMessage(b, w) : b \in BackfillTickets, w \in BOOLEAN}
        \cup {EmptyMessage}

\* A response: the proposal it was made from, and the proposals whose attributes
\* and whose team it shows.
Responses == [proposal : Nat \ {0}, attributes : Nat \ {0}, team : Nat \ {0}]

TypeOK ==
    /\ messages \in Seq(Messages)
    /\ halfClosed \in BOOLEAN /\ broken \in BOOLEAN /\ crashed \in BOOLEAN
    /\ next \in 0 .. Len(messages)
    /\ handler \in {"start", "recv", "convert", "send", "returned", "failed"}
    /\ responses \in Seq(Responses)
    /\ fetcher \in {"off", "recv", "push", "done"}
    /\ BM!TypeOK

Init ==
    /\ messages = <<>> /\ halfClosed = FALSE /\ broken = FALSE
    /\ next = 0
    /\ handler = "start" /\ responses = <<>>
    /\ fetcher = "off"
    /\ crashed = FALSE
    /\ BM!Init

-----------------------------------------------------------------------------
HandlerGone == handler \in {"returned", "failed"}

CanRecv == next < Len(messages)
Received == messages[next + 1]
RecvError == broken \/ HandlerGone \/ (halfClosed /\ ~CanRecv)

(***************************************************************************)
(* The handler.                                                            *)
(***************************************************************************)
StartBackfill ==
    /\ handler = "start"
    /\ CanRecv /\ Received = Parameters("accepted")
    /\ BM!BackfillMatches
    /\ next' = next + 1
    /\ handler' = "recv"
    /\ fetcher' = "recv"
    /\ UNCHANGED <<streamVars, responses, ticketsClosed, crashed>>

\* io.EOF instead of the parameters is not an error.
EmptyStream ==
    /\ handler = "start"
    /\ halfClosed /\ ~CanRecv
    /\ handler' = "returned"
    /\ UNCHANGED <<streamVars, next, responses, fetcherVars, crashed, makerVars>>

RejectStream ==
    /\ handler = "start"
    /\ \/ broken /\ UNCHANGED next
       \/ /\ CanRecv /\ Received \notin {Parameters("accepted"), Parameters("missing")}
          /\ next' = next + 1
    /\ handler' = "failed"
    /\ UNCHANGED <<streamVars, responses, fetcherVars, crashed, makerVars>>

\* mrpT.Parameters.Rules.Json dereferences a nil Rules.
PanicOnMissingRules ==
    /\ handler = "start"
    /\ CanRecv /\ Received = Parameters("missing")
    /\ next' = next + 1
    /\ crashed' = TRUE
    /\ UNCHANGED <<streamVars, handlerVars, fetcherVars, makerVars>>

\* proposal, ok := <-backfillProposal meets the match maker's send.
TakeProposal ==
    /\ ~crashed
    /\ handler = "recv"
    /\ BM!SendProposal
    /\ handler' = "convert"
    /\ UNCHANGED <<streamVars, next, responses, fetcherVars, crashed>>

(***************************************************************************)
(* The conversion reads the attributes and the teams, which the match      *)
(* maker may write to for its next proposal meanwhile: each read then      *)
(* finds the old or the new value, or the runtime stops the process.       *)
(***************************************************************************)
Seen(memory) == {BM!Sent, memory[proposals[BM!Sent].backfill]} \ {0}

ConvertProposal ==
    /\ handler = "convert"
    /\ \E attributes \in Seen(generatedID), team \in Seen(lastTeam) :
          responses' = Append(responses, [proposal |-> BM!Sent, attributes |-> attributes, team |-> team])
    /\ handler' = "send"
    /\ UNCHANGED <<streamVars, next, fetcherVars, crashed, makerVars>>

ConcurrentMapAccess ==
    /\ handler = "convert"
    /\ generatedID[proposals[BM!Sent].backfill] # BM!Sent
    /\ crashed' = TRUE
    /\ UNCHANGED <<streamVars, next, handlerVars, fetcherVars, makerVars>>

SendResponse ==
    /\ handler = "send" /\ ~broken
    /\ handler' = "recv"
    /\ UNCHANGED <<streamVars, next, responses, fetcherVars, crashed, makerVars>>

\* The error is returned at once, and nobody receives proposals any more.
SendFails ==
    /\ handler = "send" /\ broken
    /\ handler' = "failed"
    /\ UNCHANGED <<streamVars, next, responses, fetcherVars, crashed, makerVars>>

\* Mutant of ProposalsClosed: returns when all messages have been read.
ReturnAfterLastMessage ==
    /\ handler = "recv" /\ fetcher = "done"
    /\ handler' = "returned"
    /\ UNCHANGED <<streamVars, next, responses, fetcherVars, crashed, makerVars>>

ProposalsClosed ==
    /\ handler = "recv" /\ maker = "closed"
    /\ handler' = "returned"
    /\ UNCHANGED <<streamVars, next, responses, fetcherVars, crashed, makerVars>>

Handler ==
    /\ ~crashed
    /\ \/ StartBackfill \/ EmptyStream \/ RejectStream \/ PanicOnMissingRules
       \/ ConvertProposal \/ ConcurrentMapAccess \/ SendResponse \/ SendFails
       \/ ProposalsClosed

(***************************************************************************)
(* fetchBackfillTickets. The message it is pushing is the last one read.   *)
(***************************************************************************)
FetchTicket ==
    /\ fetcher = "recv"
    /\ CanRecv
    /\ Received \in {TicketMessage(t) : t \in Tickets}
                        \cup {BackfillMessage(b, TRUE) : b \in BackfillTickets}
    /\ next' = next + 1
    /\ fetcher' = "push"
    /\ UNCHANGED <<streamVars, handlerVars, ticketsClosed, crashed, makerVars>>

\* Neither a ticket nor a backfill ticket: the next message is read.
SkipMessage ==
    /\ fetcher = "recv"
    /\ CanRecv /\ Received.type \in {"parameters", "none"}
    /\ next' = next + 1
    /\ UNCHANGED <<streamVars, handlerVars, fetcherVars, crashed, makerVars>>

\* match.Tickets of a nil PartialMatch.
PanicOnMissingMatch ==
    /\ fetcher = "recv"
    /\ CanRecv /\ Received \in {BackfillMessage(b, FALSE) : b \in BackfillTickets}
    /\ next' = next + 1
    /\ crashed' = TRUE
    /\ UNCHANGED <<streamVars, handlerVars, fetcherVars, makerVars>>

\* Mutant of FetchEnd: an error leaves the channels open.
FetchEndOnEOF ==
    /\ fetcher = "recv"
    /\ RecvError
    /\ fetcher' = "done"
    /\ ticketsClosed' = ~broken
    /\ UNCHANGED <<streamVars, next, handlerVars, crashed, makerVars>>

FetchEnd ==
    /\ fetcher = "recv"
    /\ RecvError
    /\ fetcher' = "done"
    /\ ticketsClosed' = TRUE
    /\ UNCHANGED <<streamVars, next, handlerVars, crashed, makerVars>>

Fetcher == ~crashed /\ (FetchTicket \/ SkipMessage \/ PanicOnMissingMatch \/ FetchEnd)

\* The write to one of the provider's channels meets the match maker's select.
Take(m) == IF m.type = "ticket" THEN BM!GetTicket(m.ticket) ELSE BM!GetBackfillTicket(m.ticket)

\* Mutant of Push: the write is in a goroutine of its own, which a ticket read later
\* may overtake.
PushOvertaking ==
    /\ ~crashed
    /\ \/ /\ fetcher = "push" /\ Take(messages[next])
          /\ fetcher' = "recv" /\ UNCHANGED next
       \/ /\ fetcher = "push" /\ CanRecv
          /\ Received \in {TicketMessage(t) : t \in Tickets}
                             \cup {BackfillMessage(b, TRUE) : b \in BackfillTickets}
          /\ Take(Received)
          /\ fetcher' = "overtaken" /\ next' = next + 1
       \/ /\ fetcher = "overtaken" /\ Take(messages[next - 1])
          /\ fetcher' = "recv" /\ UNCHANGED next
    /\ UNCHANGED <<streamVars, handlerVars, ticketsClosed, crashed>>

Push ==
    /\ ~crashed
    /\ fetcher = "push"
    /\ Take(messages[next])
    /\ fetcher' = "recv"
    /\ UNCHANGED <<streamVars, next, handlerVars, ticketsClosed, crashed>>

(***************************************************************************)
(* The match maker's goroutine between its meetings with the others.       *)
(***************************************************************************)
\* Mutant of MakerSteps: the proposal is sent in a select with a default.
MakerStepsDropping ==
    /\ \/ BM!NoMoreTickets \/ BM!NoMoreBackfillTickets
       \/ BM!EndRound \/ BM!SkipExcluded \/ BM!Propose
       \/ BM!SendProposal /\ handler # "recv"
    /\ UNCHANGED <<streamVars, next, handlerVars, fetcherVars, crashed>>

MakerSteps ==
    /\ \/ BM!NoMoreTickets \/ BM!NoMoreBackfillTickets
       \/ BM!EndRound \/ BM!SkipExcluded \/ BM!Propose
    /\ UNCHANGED <<streamVars, next, handlerVars, fetcherVars, crashed>>

MakerPanics ==
    /\ BM!IndexPanics
    /\ crashed' = TRUE
    /\ UNCHANGED <<streamVars, next, handlerVars, fetcherVars>>

Maker == ~crashed /\ (MakerSteps \/ MakerPanics)

-----------------------------------------------------------------------------
StreamOpen == ~HandlerGone /\ ~broken /\ ~crashed

ClientSends ==
    /\ StreamOpen /\ ~halfClosed
    /\ Len(messages) < MaxMessages
    /\ \E m \in Messages : messages' = Append(messages, m)
    /\ UNCHANGED <<halfClosed, broken, next, handlerVars, fetcherVars, crashed, makerVars>>

ClientHalfCloses ==
    /\ StreamOpen /\ ~halfClosed
    /\ halfClosed' = TRUE
    /\ UNCHANGED <<messages, broken, next, handlerVars, fetcherVars, crashed, makerVars>>

StreamBreaks ==
    /\ StreamOpen
    /\ broken' = TRUE
    /\ UNCHANGED <<messages, halfClosed, next, handlerVars, fetcherVars, crashed, makerVars>>

Environment == ClientSends \/ ClientHalfCloses \/ StreamBreaks

Next == Handler \/ TakeProposal \/ Fetcher \/ Push \/ Maker \/ Environment

(***************************************************************************)
(* As in MakeMatchesStream: goroutines run, Send returns, and nothing is   *)
(* assumed of what the client sends or when it closes.                     *)
(***************************************************************************)
Fairness ==
    /\ WF_vars(Handler) /\ WF_vars(TakeProposal) /\ WF_vars(Fetcher)
    /\ WF_vars(Push) /\ WF_vars(Maker)

Spec == Init /\ [][Next]_vars /\ Fairness

-----------------------------------------------------------------------------
(***************************************************************************)
(* Properties.                                                             *)
(***************************************************************************)
Ended == HandlerGone \/ crashed

IsTicket(m) == m.type = "ticket"
IsBackfill(m) == m.type = "backfill"

\* s is what the first n of the messages ms bring of one kind, in their order: its k-th
\* element comes with message at[k], and no message of the kind is left out.
Collects(s, ms, n, kind) ==
    \E at \in [1 .. Len(s) -> 1 .. n] :
        /\ \A j, k \in 1 .. Len(s) : j < k => at[j] < at[k]
        /\ \A k \in 1 .. Len(s) : ms[at[k]].type = kind /\ ms[at[k]].ticket = s[k]
        /\ \A m \in 1 .. n : ms[m].type = kind => \E k \in 1 .. Len(s) : at[k] = m

\* The match maker takes tickets and backfill tickets from two channels in a select,
\* and yet in the order of the one stream they came on: what it has of both kinds is
\* what some number of messages brought, so no ticket overtakes a backfill ticket, or
\* the other way round.
TakenInStreamOrder ==
    \E n \in 0 .. next :
        /\ Collects(received, messages, n, "ticket")
        /\ Collects(receivedBackfill, messages, n, "backfill")

\* The order of docs/matchmaking.md:29-32: all backfill tickets before the tickets.
BackfillFirst ==
    \A j, k \in 1 .. Len(messages) :
        IsTicket(messages[j]) /\ IsBackfill(messages[k]) => k < j

OwnResponse(r) == r.attributes = r.proposal /\ r.team = r.proposal

\* A client that keeps to the order of the stream gets one response for each proposal,
\* in turn, with the attributes and the team of that proposal, and never two for one
\* backfill ticket: three goroutines that share the memory of the backfill tickets do
\* not disturb each other.
KeepersGetOwnResponses ==
    BackfillFirst =>
        /\ \A k \in 1 .. Len(responses) :
              responses[k].proposal = k /\ OwnResponse(responses[k])
        /\ \A j, k \in 1 .. Len(responses) :
              proposals[j].backfill = proposals[k].backfill => j = k

\* A call that returns from an unbroken stream has answered completely and leaves
\* nothing behind: all goroutines have ended, every ticket of the stream reached the
\* match maker, in order, and every proposal became a response.
CompleteAnswer ==
    handler = "returned" /\ ~broken /\ messages # <<>> =>
        /\ maker = "closed" /\ fetcher = "done"
        /\ Collects(received, messages, Len(messages), "ticket")
        /\ Collects(receivedBackfill, messages, Len(messages), "backfill")
        /\ Len(responses) = Len(proposals)

\* The process only goes down in a stream whose client left out the rules or a partial
\* match, sent a backfill ticket after a ticket, or sent a ticket that excludes a
\* session along with several backfill tickets.
CrashIsExplained ==
    crashed =>
        \/ messages[1] = Parameters("missing")
        \/ \E k \in 1 .. Len(messages) : IsBackfill(messages[k]) /\ ~messages[k].whole
        \/ ~BackfillFirst
        \/ dropped > 0 /\ Len(receivedBackfill) >= 2

\* Half-closing or breaking the stream ends the call, in whatever state the three
\* goroutines are.
StreamEndEndsCall == halfClosed \/ broken ~> Ended

\* A goroutine only outlives its call when Send failed: then the match maker may be
\* left in its next send, and the fetcher with it. There is no other way to leak one.
LeakNeedsFailedSend ==
    Ended ~> \/ crashed
             \/ fetcher \in {"off", "done"} /\ maker \in {"off", "closed"}
             \/ handler = "failed" /\ maker = "send"

\* What a client receives as the "Updated team composition after backfill"
\* (pkg/proto/matchFunction.proto:136) is that of the proposal it comes with, in
\* whatever order the tickets and backfill tickets were sent.
ResponsesAreTheirOwn == \A k \in 1 .. Len(responses) : OwnResponse(responses[k])

\* The service is one of the callers that module BackfillMaker assumes, so what is
\* said and proved there of BackfillMatches holds here.
BackfillMakerSpec == BM!Init /\ [][BM!Next]_BM!vars

=============================================================================
