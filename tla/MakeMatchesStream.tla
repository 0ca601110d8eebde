------------------------- MODULE MakeMatchesStream -------------------------
(***************************************************************************)
(* The MakeMatches RPC (pkg/server/matchFunctionService.go): the handler,  *)
(* which reads the parameters, starts the match maker and waits; the       *)
(* receiver goroutine, which turns the messages of the stream into         *)
(* tickets; the sender goroutine, which turns matches into responses; and  *)
(* the match maker's own goroutine (module MatchMaker).                    *)
(*                                                                         *)
(* The client and the gRPC transport are the environment. A stream is      *)
(* reliable and ordered until it breaks (client gone, deadline, lost       *)
(* connection); after that Recv returns what was already there or an       *)
(* error, and Send fails. A panic in any goroutine ends the process.       *)
(***************************************************************************)
EXTENDS GameRules, Sequences

CONSTANTS Tickets,      \* tickets a client may send
          Documents,    \* rule sets a client may send as Rules.json
          Malformed,    \* a Rules.json that does not decode
          Missing,      \* no Rules message in the parameters
          MaxMessages   \* bound: messages a client sends on one stream

ASSUME StreamAssumption ==
    /\ Documents \subseteq RuleSets
    /\ Malformed \notin RuleSets /\ Missing \notin RuleSets /\ Malformed # Missing
    /\ MaxMessages \in Nat

VARIABLES
    messages,       \* client: every message it has sent, in order
    halfClosed,     \* client: it has closed its side of the stream
    broken,         \* transport: the stream is broken
    next,           \* number of messages Recv has returned
    handler,        \* the RPC handler: "start", "wait", "returned" or "failed"
    receiver,       \* receiver goroutine: "off", "recv", "push" or "done"
    ticket,         \* the ticket the receiver is writing to channelTickets, as <<t>>
    ticketsClosed,  \* channelTickets is closed
    sender,         \* sender goroutine: "off", "range", "send" or "done"
    result,         \* the tickets of the match the sender holds
    delivered,      \* history: the tickets of the matches sent to the client
    crashed,        \* a goroutine has panicked: the process is gone
    matcher, rule, unmatchedTickets, match, received, handed  \* module MatchMaker

streamVars == <<messages, halfClosed, broken>>
matcherVars == <<matcher, rule, unmatchedTickets, match, received, handed>>
receiverVars == <<receiver, ticket, ticketsClosed>>
senderVars == <<sender, result, delivered>>
vars == <<streamVars, next, handler, receiverVars, senderVars, crashed, matcherVars>>

\* The handler makes its scope from context.Background(): Ctx is never cancelled.
MM == INSTANCE MatchMaker WITH
    Rules      <- {r \in Documents : Accepts(r)},
    MaxTickets <- MaxMessages,
    pc         <- matcher,
    draining   <- sender # "done",
    ctxDone    <- FALSE

Parameters(json) == [type |-> "parameters", json |-> json]
TicketMessage(t) == [type |-> "ticket", ticket |-> t]
EmptyMessage == [type |-> "none"]

Messages ==
    {Parameters(json) : json \in Documents \cup {Malformed, Missing}}
        \cup {TicketMessage(t) : t \in Tickets} \cup {EmptyMessage}

TypeOK ==
    /\ messages \in Seq(Messages)
    /\ halfClosed \in BOOLEAN /\ broken \in BOOLEAN /\ crashed \in BOOLEAN
    /\ next \in 0 .. Len(messages)
    /\ handler \in {"start", "wait", "returned", "failed"}
    /\ receiver \in {"off", "recv", "push", "done"}
    /\ ticket \in Seq(Tickets)
    /\ sender \in {"off", "range", "send", "done"}
    /\ result \in Seq(Tickets)
    /\ delivered \in Seq(Tickets)
    /\ MM!TypeOK

Init ==
    /\ messages = <<>> /\ halfClosed = FALSE /\ broken = FALSE
    /\ next = 0
    /\ handler = "start"
    /\ receiver = "off" /\ ticket = <<>>
    /\ sender = "off" /\ result = <<>> /\ delivered = <<>>
    /\ crashed = FALSE
    /\ MM!Init

-----------------------------------------------------------------------------
(***************************************************************************)
(* server.Recv(): the next message, or an error (io.EOF included).         *)
(***************************************************************************)
CanRecv == next < Len(messages)
Received == messages[next + 1]
RecvError == broken \/ (halfClosed /\ ~CanRecv)

(***************************************************************************)
(* The handler.                                                            *)
(***************************************************************************)
AcceptedParameters(m) ==
    m.type = "parameters" /\ m.json \in RuleSets /\ Accepts(m.json)

\* The first message brings acceptable rules: all goroutines are started.
StartMatching ==
    /\ handler = "start"
    /\ CanRecv
    /\ AcceptedParameters(Received)
    /\ MM!MakeMatches(Received.json)
    /\ next' = next + 1
    /\ handler' = "wait"
    /\ receiver' = "recv"
    /\ sender' = "range"
    /\ UNCHANGED <<streamVars, ticket, ticketsClosed, result, delivered, crashed>>

\* No first message, not the parameters, or rules that RulesFromJSON refuses.
RejectStream ==
    /\ handler = "start"
    /\ \/ RecvError /\ UNCHANGED next
       \/ /\ CanRecv
          /\ ~AcceptedParameters(Received)
          /\ Received # Parameters(Missing)
          /\ next' = next + 1
    /\ handler' = "failed"
    /\ UNCHANGED <<streamVars, receiverVars, senderVars, crashed, matcherVars>>

\* mrpT.Parameters.Rules.Json dereferences a nil Rules.
PanicOnMissingRules ==
    /\ handler = "start"
    /\ CanRecv
    /\ Received = Parameters(Missing)
    /\ next' = next + 1
    /\ crashed' = TRUE
    /\ UNCHANGED <<streamVars, handler, receiverVars, senderVars, matcherVars>>

\* Mutant of FinishStream: the sender is not in the wait group.
FinishStreamEarly ==
    /\ handler = "wait"
    /\ receiver = "done"
    /\ handler' = "returned"
    /\ UNCHANGED <<streamVars, next, receiverVars, senderVars, crashed, matcherVars>>

\* wg.Wait() returns.
FinishStream ==
    /\ handler = "wait"
    /\ receiver = "done"
    /\ sender = "done"
    /\ handler' = "returned"
    /\ UNCHANGED <<streamVars, next, receiverVars, senderVars, crashed, matcherVars>>

Handler == ~crashed /\ (StartMatching \/ RejectStream \/ PanicOnMissingRules \/ FinishStream)

(***************************************************************************)
(* The receiver goroutine.                                                 *)
(***************************************************************************)
ReceiveTicket ==
    /\ receiver = "recv"
    /\ CanRecv
    /\ Received.type = "ticket"
    /\ next' = next + 1
    /\ ticket' = <<Received.ticket>>
    /\ receiver' = "push"
    /\ UNCHANGED <<streamVars, handler, ticketsClosed, senderVars, crashed, matcherVars>>

\* Mutant of ReceiveEnd: the channels are left open.
ReceiveEndOpen ==
    /\ receiver = "recv"
    /\ RecvError
    /\ receiver' = "done"
    /\ UNCHANGED <<streamVars, next, handler, ticket, ticketsClosed, senderVars, crashed, matcherVars>>

\* Mutant of ReceiveEnd: an error other than io.EOF is tried again.
ReceiveEndOnEOF ==
    /\ receiver = "recv"
    /\ halfClosed /\ ~CanRecv
    /\ ticketsClosed' = TRUE
    /\ receiver' = "done"
    /\ UNCHANGED <<streamVars, next, handler, ticket, senderVars, crashed, matcherVars>>

\* io.EOF or an error: both provider channels are closed, which panics on a
\* channel that is closed already.
ReceiveEnd ==
    /\ receiver = "recv"
    /\ RecvError
    /\ ticketsClosed' = TRUE
    /\ crashed' = ticketsClosed
    /\ receiver' = "done"
    /\ UNCHANGED <<streamVars, next, handler, ticket, senderVars, matcherVars>>

\* Not a ticket: the failed type assertion leaves t nil, and t.Ticket in the
\* log call dereferences it.
PanicOnOtherMessage ==
    /\ receiver = "recv"
    /\ CanRecv
    /\ Received.type # "ticket"
    /\ next' = next + 1
    /\ crashed' = TRUE
    /\ UNCHANGED <<streamVars, handler, receiverVars, senderVars, matcherVars>>

Receiver == ~crashed /\ (ReceiveTicket \/ ReceiveEnd \/ PanicOnOtherMessage)

\* ticketProvider.channelTickets <- matchTicket meets the match maker's select.
PushTicket ==
    /\ ~crashed
    /\ receiver = "push"
    /\ MM!GetTicket(Head(ticket))
    /\ receiver' = "recv"
    /\ ticket' = <<>>
    /\ UNCHANGED <<streamVars, next, handler, ticketsClosed, senderVars, crashed>>

(***************************************************************************)
(* The sender goroutine.                                                   *)
(***************************************************************************)
\* for result := range resultChan meets the match maker's send.
TakeResult ==
    /\ ~crashed
    /\ sender = "range"
    /\ MM!SendMatch
    /\ result' = match.Tickets
    /\ sender' = "send"
    /\ UNCHANGED <<streamVars, next, handler, receiverVars, delivered, crashed>>

\* Mutant of SendResponse: converts the match maker's variable, not its own copy.
SendLatestMatch ==
    /\ sender = "send"
    /\ ~broken
    /\ delivered' = delivered \o match.Tickets
    /\ sender' = "range"
    /\ UNCHANGED <<streamVars, next, handler, receiverVars, result, crashed, matcherVars>>

SendResponse ==
    /\ sender = "send"
    /\ ~broken
    /\ delivered' = delivered \o result
    /\ sender' = "range"
    /\ UNCHANGED <<streamVars, next, handler, receiverVars, result, crashed, matcherVars>>

\* Mutant of SendFails: stops the match maker by closing the provider's channels,
\* which are the receiver's to close.
SendFailsClosing ==
    /\ sender = "send"
    /\ broken
    /\ sender' = "done"
    /\ ticketsClosed' = TRUE
    /\ UNCHANGED <<streamVars, next, handler, receiver, ticket, result, delivered, crashed, matcherVars>>

SendFails ==
    /\ sender = "send"
    /\ broken
    /\ sender' = "done"
    /\ UNCHANGED <<streamVars, next, handler, receiverVars, result, delivered, crashed, matcherVars>>

ResultsClosed ==
    /\ sender = "range"
    /\ matcher = "closed"
    /\ sender' = "done"
    /\ UNCHANGED <<streamVars, next, handler, receiverVars, result, delivered, crashed, matcherVars>>

Sender == ~crashed /\ (SendResponse \/ SendFails \/ ResultsClosed)

(***************************************************************************)
(* The match maker's goroutine between its meetings with the others.       *)
(***************************************************************************)
\* Mutant of MatcherSteps: results <- match in a select with a default, which drops
\* the match when the sender is not there.
MatcherStepsDropping ==
    /\ \/ MM!NoMoreTickets \/ MM!NotEnoughTickets \/ MM!BuildMatch
       \/ MM!SendMatch /\ sender # "range"
    /\ UNCHANGED <<streamVars, next, handler, receiverVars, senderVars, crashed>>

MatcherSteps ==
    /\ MM!NoMoreTickets \/ MM!NotEnoughTickets \/ MM!BuildMatch
    /\ UNCHANGED <<streamVars, next, handler, receiverVars, senderVars, crashed>>

MatcherPanics ==
    /\ MM!BuildPanics
    /\ crashed' = TRUE
    /\ UNCHANGED <<streamVars, next, handler, receiverVars, senderVars>>

Matcher == ~crashed /\ (MatcherSteps \/ MatcherPanics)

-----------------------------------------------------------------------------
(***************************************************************************)
(* The client and the transport.                                           *)
(***************************************************************************)
StreamOpen == handler \in {"start", "wait"} /\ ~broken /\ ~crashed

ClientSends ==
    /\ StreamOpen /\ ~halfClosed
    /\ Len(messages) < MaxMessages
    /\ \E m \in Messages : messages' = Append(messages, m)
    /\ UNCHANGED <<halfClosed, broken, next, handler, receiverVars, senderVars, crashed, matcherVars>>

ClientHalfCloses ==
    /\ StreamOpen /\ ~halfClosed
    /\ halfClosed' = TRUE
    /\ UNCHANGED <<messages, broken, next, handler, receiverVars, senderVars, crashed, matcherVars>>

StreamBreaks ==
    /\ StreamOpen
    /\ broken' = TRUE
    /\ UNCHANGED <<messages, halfClosed, next, handler, receiverVars, senderVars, crashed, matcherVars>>

Environment == ClientSends \/ ClientHalfCloses \/ StreamBreaks

Next == Handler \/ Receiver \/ PushTicket \/ TakeResult \/ Sender \/ Matcher \/ Environment

(***************************************************************************)
(* The scheduler runs every goroutine that can run. WF of Sender includes  *)
(* server.Send returning: the client reads its responses, or the stream    *)
(* breaks. Nothing is assumed of what the client sends or when it closes.  *)
(***************************************************************************)
Fairness ==
    /\ WF_vars(Handler) /\ WF_vars(Receiver) /\ WF_vars(PushTicket)
    /\ WF_vars(TakeResult) /\ WF_vars(Sender) /\ WF_vars(Matcher)

Spec == Init /\ [][Next]_vars /\ Fairness

-----------------------------------------------------------------------------
(***************************************************************************)
(* Properties.                                                             *)
(***************************************************************************)
Ended == handler \in {"returned", "failed"} \/ crashed

\* Four goroutines and two channels do not reorder, lose or repeat a ticket: the
\* i-th ticket the client gets back in a match is the i-th ticket it sent.
OrderPreserved ==
    \A i \in 1 .. Len(delivered) : messages[i + 1] = TicketMessage(delivered[i])

\* A call that returns from an unbroken stream has answered completely: all its
\* goroutines have ended, every ticket of the stream reached the match maker, every
\* match it made reached the client, and the tickets that come back in no match
\* (they are dropped) are too few for one.
CompleteAnswer ==
    handler = "returned" /\ ~broken =>
        /\ matcher = "closed"
        /\ Len(received) = Len(messages) - 1
        /\ Workable(rule) => Len(received) - Len(delivered) \in 0 .. MinPlayers(rule) - 1

\* The process only goes down in a stream whose client left the rules out, sent
\* something else than a ticket after the parameters, or sent rules no game has;
\* in no order in which the goroutines end is a channel closed twice.
\* Clients that keep to the stream contract (docs/matchmaking.md:25-28) are safe.
ContractKeepersNeverCrash ==
    crashed =>
        \/ messages[1] = Parameters(Missing)
        \/ \E i \in 2 .. next : messages[i].type # "ticket"
        \/ ~Sensible(rule)

\* Half-closing the stream ends the call, in whatever state the goroutines are,
\* if the rules are such that buildMatch runs out of matches. (With a maximum and
\* no minimum the empty matches never end, and the call neither.)
HalfCloseEndsCall == halfClosed ~> Ended \/ broken \/ ~Workable(rule)

\* What a broken stream leaves behind: either the call ends, or the sender has
\* given up while the match maker holds a match for it, and then nothing moves.
\* There is no third way to hang.
BrokenStreamEndsOrStrands ==
    broken ~> Ended \/ (sender = "done" /\ matcher = "send")

\* The end of a stream reaches the match maker (interfaces.go:24-25: MakeMatches
\* should "watch for cancellation on the provided scope.Ctx, at which point it
\* should stop looking for matches and close the result channel").
BrokenStreamEndsMatching == broken /\ matcher # "off" ~> matcher = "closed" \/ crashed

\* The service is one of the callers that module MatchMaker assumes, so what is
\* said there of MakeMatches holds here.
MatchMakerSpec == MM!Init /\ [][MM!Next]_MM!vars

=============================================================================
