---------------------- MODULE MakeMatchesStreamProofs ----------------------
(***************************************************************************)
(* What a client of the MakeMatches RPC can rely on, for any rules, any    *)
(* tickets and any number of messages. First the RPC is shown to be a      *)
(* caller of MakeMatches as module MatchMaker assumes it, which brings the *)
(* invariants of MatchMakerProofs into the stream; then a ticket is        *)
(* followed from the message that brings it to the response it leaves in.  *)
(***************************************************************************)
EXTENDS MakeMatchesStream, GameRulesProofs, SequenceTheorems

\* The proofs about the goroutine of MakeMatches, read with this caller.
MMP == INSTANCE MatchMakerProofs WITH
    Rules      <- {r \in Documents : Accepts(r)},
    MaxTickets <- MaxMessages,
    pc         <- matcher,
    draining   <- sender # "done",
    ctxDone    <- FALSE

\* What the receiver has read of the stream, and where it has put it: a ticket is in
\* its hand, or the match maker has it.
ReadInv ==
    /\ messages \in Seq(Messages) /\ Len(messages) <= MaxMessages
    /\ next \in 0 .. Len(messages)
    /\ received \in Seq(Tickets)
    /\ matcher = "off" => received = <<>>
    /\ matcher # "off" => Len(received) + 1 <= next
    /\ receiver = "push" =>
          /\ next = Len(received) + 2
          /\ \E t \in Tickets : ticket = <<t>> /\ messages[next] = TicketMessage(t)
    /\ receiver = "done" \/ (receiver = "recv" /\ ~crashed) => next = Len(received) + 1
    /\ \A k \in 1 .. Len(received) : messages[k + 1] = TicketMessage(received[k])

\* The goroutines start together, and the receiver closes the channels, once.
GoroutineInv ==
    /\ matcher = "off" <=> handler \in {"start", "failed"}
    /\ matcher = "off" <=> receiver = "off"
    /\ matcher = "off" <=> sender = "off"
    /\ handler \in {"start", "wait", "returned", "failed"}
    /\ receiver \in {"off", "recv", "push", "done"}
    /\ sender \in {"off", "range", "send", "done"}
    /\ handler = "start" /\ ~crashed => next = 0
    /\ ticketsClosed = (receiver = "done")

StreamInv == ReadInv /\ GoroutineInv

\* Where the tickets are that the match maker has handed over: the client has them, or
\* the sender holds the latest match; and the client has the oldest of those received.
DeliveryInv ==
    /\ delivered \in Seq(Tickets) /\ result \in Seq(Tickets)
    /\ Len(delivered) <= handed
    /\ \A k \in 1 .. Len(delivered) : delivered[k] = received[k]
    /\ sender = "send" =>
          /\ Len(delivered) + Len(result) = handed
          /\ \A k \in 1 .. Len(result) : result[k] = received[Len(delivered) + k]
    /\ sender \in {"off", "range"} => Len(delivered) = handed

\* How the goroutines end, as long as the stream is not broken: the receiver at the end
\* of the messages, the sender at the end of the matches, and the handler after both.
EndInv ==
    /\ sender = "done" /\ ~broken => matcher = "closed" /\ Len(delivered) = handed
    /\ receiver = "done" /\ ~broken => halfClosed /\ next = Len(messages)
    /\ handler = "returned" => receiver = "done" /\ sender = "done"

(***************************************************************************)
(* The two instances speak of the same goroutine.                          *)
(***************************************************************************)
LEMMA SameSizes ==
  ASSUME NEW r
  PROVE  MM!MinPlayers(r) = MMP!MinPlayers(r) /\ MM!MaxPlayers(r) = MMP!MaxPlayers(r)
  BY DEF MM!MinPlayers, MMP!MinPlayers, MM!MaxPlayers, MMP!MaxPlayers, MM!Scale,
         MMP!Scale, MM!NoAlliance, MMP!NoAlliance, MM!AllianceMin, MMP!AllianceMin,
         MM!AllianceMax, MMP!AllianceMax, MM!Wrap, MMP!Wrap

\* MatchMaker starts where its proofs do.
LEMMA SameInit == MM!Init <=> MMP!Init
  BY DEF MM!Init, MMP!Init, MM!ZeroRules, MMP!ZeroRules

\* The steps of MatchMaker are those its proofs are about.
LEMMA SameNext == [MM!Next]_MM!vars <=> [MMP!Next]_MMP!vars
  <1>1. /\ MM!NumPlayers = MMP!NumPlayers /\ MM!EnoughTickets = MMP!EnoughTickets
        /\ MM!MaxPlayers(rule) = MMP!MaxPlayers(rule)
    BY SameSizes DEF MM!NumPlayers, MMP!NumPlayers, MM!EnoughTickets, MMP!EnoughTickets
  <1>2. UNCHANGED MM!vars <=> UNCHANGED MMP!vars
    BY DEF MM!callerVars, MMP!callerVars, MM!goroutineVars, MMP!goroutineVars, MM!vars,
           MMP!vars
  <1>3. MM!Start <=> MMP!Start
    BY DEF MM!Start, MMP!Start, MM!MakeMatches, MMP!MakeMatches, MM!callerVars,
           MMP!callerVars, MM!Accepts, MMP!Accepts
  <1>4. MM!OfferTicket <=> MMP!OfferTicket
    BY DEF MM!OfferTicket, MMP!OfferTicket, MM!GetTicket, MMP!GetTicket, MM!callerVars,
           MMP!callerVars
  <1>5. MM!Deliver <=> MMP!Deliver
    BY DEF MM!Deliver, MMP!Deliver, MM!SendMatch, MMP!SendMatch, MM!callerVars,
           MMP!callerVars
  <1>6. MM!BuildMatch <=> MMP!BuildMatch
    BY <1>1 DEF MM!BuildMatch, MMP!BuildMatch
  <1>7. MM!BuildPanics <=> MMP!BuildPanics
    BY <1>1 DEF MM!BuildPanics, MMP!BuildPanics
  <1>8. MM!NotEnoughTickets <=> MMP!NotEnoughTickets
    BY <1>1 DEF MM!NotEnoughTickets, MMP!NotEnoughTickets
  <1>9. MM!Local <=> MMP!Local
    BY <1>6, <1>7, <1>8 DEF MM!Local, MMP!Local, MM!NoMoreTickets, MMP!NoMoreTickets,
                            MM!CtxDone, MMP!CtxDone, MM!callerVars, MMP!callerVars
  <1>10. (MM!Caller <=> MMP!Caller) /\ (MM!Ended <=> MMP!Ended)
    BY DEF MM!Caller, MMP!Caller, MM!CloseTickets, MMP!CloseTickets, MM!StopDraining,
           MMP!StopDraining, MM!Cancel, MMP!Cancel, MM!goroutineVars, MMP!goroutineVars,
           MM!Ended, MMP!Ended, MM!vars, MMP!vars, MM!callerVars, MMP!callerVars
  <1> QED BY <1>2, <1>3, <1>4, <1>5, <1>9, <1>10 DEF MM!Next, MMP!Next

(***************************************************************************)
(* The steps, by who takes them.                                           *)
(***************************************************************************)
LEMMA HandlerStep ==
  ASSUME StreamInv, Handler
  PROVE  StreamInv' /\ [MM!Next]_MM!vars
  <1> USE DEF StreamInv, GoroutineInv, streamVars, receiverVars, senderVars
  <1>0. Len(messages) \in Nat
    BY LenProperties DEF ReadInv
  <1>1. CASE StartMatching
    <2>1. /\ handler = "start" /\ ~crashed /\ CanRecv /\ AcceptedParameters(Received)
          /\ MM!MakeMatches(Received.json)
          /\ next' = next + 1 /\ handler' = "wait" /\ receiver' = "recv" /\ sender' = "range"
          /\ UNCHANGED <<messages, ticket, ticketsClosed, crashed>>
      BY <1>1 DEF Handler, StartMatching
    <2>2. matcher = "off" /\ matcher' = "select" /\ received' = received
      BY <2>1 DEF MM!MakeMatches
    <2>3. received = <<>> /\ Len(received) = 0 /\ next = 0 /\ next' = 1 /\ 1 <= Len(messages)
      BY <1>0, <2>1, <2>2 DEF ReadInv, CanRecv
    <2>4. StreamInv'
      BY <2>1, <2>2, <2>3 DEF ReadInv
    <2>5. Received.json \in {r \in Documents : Accepts(r)}
      <3>1. Received \in Messages
        BY <2>1, <1>0 DEF ReadInv, Received, CanRecv
      <3>2. Received.type = "parameters" /\ Received.json \in RuleSets /\ Accepts(Received.json)
        BY <2>1 DEF AcceptedParameters
      <3>3. Received.json \in Documents \cup {Malformed, Missing}
        BY <3>1, <3>2 DEF Messages, Parameters, TicketMessage, EmptyMessage
      <3> QED BY <3>2, <3>3, StreamAssumption
    <2>6. UNCHANGED MM!callerVars
      BY <2>1, <2>2, <2>4 DEF MM!callerVars
    <2>7. MM!Start
      BY <2>1, <2>5, <2>6 DEF MM!Start
    <2> QED BY <2>4, <2>7 DEF MM!Next
  <1>2. CASE RejectStream \/ PanicOnMissingRules
    <2>1. UNCHANGED <<messages, receiver, ticket, ticketsClosed, sender, matcherVars>>
      BY <1>2 DEF RejectStream, PanicOnMissingRules
    <2>2. /\ handler = "start" /\ ~crashed /\ next' \in 0 .. Len(messages)
          /\ handler' \in {"start", "failed"} /\ (handler' = "start" => crashed')
      BY <1>0, <1>2 DEF RejectStream, PanicOnMissingRules, Handler, CanRecv, ReadInv
    <2>3. matcher = "off" /\ receiver = "off" /\ received = <<>> /\ received' = received
      BY <2>1, <2>2 DEF ReadInv, matcherVars
    <2>4. StreamInv'
      BY <2>1, <2>2, <2>3 DEF ReadInv, matcherVars
    <2>5. UNCHANGED MM!vars
      BY <2>1 DEF MM!vars, MM!goroutineVars, MM!callerVars, matcherVars
    <2> QED BY <2>4, <2>5
  <1>3. CASE FinishStream
    <2>1. StreamInv'
      BY <1>3 DEF FinishStream, ReadInv, matcherVars
    <2>2. UNCHANGED MM!vars
      BY <1>3 DEF FinishStream, MM!vars, MM!goroutineVars, MM!callerVars, matcherVars
    <2> QED BY <2>1, <2>2
  <1> QED BY <1>1, <1>2, <1>3 DEF Handler

\* The receiver's own steps leave the match maker's variables alone or close its
\* channel.
LEMMA ReceiverStep ==
  ASSUME StreamInv, Receiver
  PROVE  StreamInv' /\ [MM!Next]_MM!vars
  <1> USE DEF StreamInv, GoroutineInv, streamVars, senderVars, matcherVars
  <1>0. Len(messages) \in Nat /\ Len(received) \in Nat
    BY LenProperties DEF ReadInv
  <1>1. CASE ReceiveTicket
    <2>1. /\ receiver = "recv" /\ receiver' = "push" /\ ~crashed
          /\ next < Len(messages) /\ next' = next + 1
          /\ Received.type = "ticket" /\ ticket' = <<Received.ticket>>
          /\ UNCHANGED <<messages, handler, ticketsClosed, sender, crashed, matcher, received>>
      BY <1>1 DEF ReceiveTicket, Receiver, CanRecv
    <2>2. Received \in Messages /\ Received = messages[next']
      BY <1>0, <2>1 DEF ReadInv, Received
    <2>3. \E t \in Tickets : Received = TicketMessage(t) /\ ticket' = <<t>>
      <3>1. PICK t \in Tickets : Received = TicketMessage(t)
        <4>1. \A json : Parameters(json).type # "ticket"
          BY DEF Parameters
        <4>2. EmptyMessage.type # "ticket"
          BY DEF EmptyMessage
        <4> QED BY <2>1, <2>2, <4>1, <4>2 DEF Messages
      <3>2. Received.ticket = t
        BY <3>1 DEF TicketMessage
      <3> QED BY <2>1, <3>1, <3>2
    <2>4. next' = Len(received) + 2 /\ next' \in 0 .. Len(messages)
      BY <1>0, <2>1 DEF ReadInv
    <2>5. ReadInv'
      BY <1>0, <2>1, <2>2, <2>3, <2>4 DEF ReadInv, TicketMessage
    <2>6. GoroutineInv'
      BY <2>1
    <2>7. UNCHANGED MM!vars
      BY <1>1 DEF ReceiveTicket, MM!vars, MM!goroutineVars, MM!callerVars
    <2> QED BY <2>5, <2>6, <2>7
  <1>2. CASE ReceiveEnd
    <2>1. /\ receiver = "recv" /\ receiver' = "done" /\ ~crashed /\ ~crashed'
          /\ ticketsClosed' = TRUE
          /\ UNCHANGED <<messages, next, handler, ticket, sender, matcher, received>>
      BY <1>2 DEF ReceiveEnd, Receiver
    <2>2. StreamInv'
      BY <1>0, <2>1 DEF ReadInv
    <2>3. MM!Caller
      BY <1>2 DEF ReceiveEnd, MM!Caller, MM!CloseTickets, MM!goroutineVars
    <2> QED BY <2>2, <2>3 DEF MM!Next
  <1>3. CASE PanicOnOtherMessage
    <2>1. /\ receiver = "recv" /\ crashed' /\ next < Len(messages) /\ next' = next + 1
          /\ UNCHANGED <<messages, handler, receiver, ticket, ticketsClosed, sender, matcher, received>>
      BY <1>3 DEF PanicOnOtherMessage, CanRecv, receiverVars
    <2>2. next' \in 0 .. Len(messages) /\ Len(received) + 1 <= next'
      BY <1>0, <2>1 DEF ReadInv
    <2>3. StreamInv'
      BY <2>1, <2>2 DEF ReadInv
    <2>4. UNCHANGED MM!vars
      BY <1>3 DEF PanicOnOtherMessage, receiverVars, MM!vars, MM!goroutineVars, MM!callerVars
    <2> QED BY <2>3, <2>4
  <1> QED BY <1>1, <1>2, <1>3 DEF Receiver

\* A push is one of the caller's steps, and within the bounds of MatchMaker.
LEMMA PushStep ==
  ASSUME StreamInv, PushTicket
  PROVE  StreamInv' /\ [MM!Next]_MM!vars
  <1>1. /\ receiver = "push" /\ receiver' = "recv" /\ ~crashed
        /\ MM!GetTicket(Head(ticket))
        /\ UNCHANGED <<messages, next, handler, ticketsClosed, sender, crashed>>
    BY DEF PushTicket, streamVars, senderVars
  <1>2. PICK t \in Tickets : ticket = <<t>> /\ messages[next] = TicketMessage(t)
    BY <1>1 DEF StreamInv, ReadInv
  <1>3. MM!GetTicket(t)
    BY <1>1, <1>2
  <1>4. matcher = "select" /\ matcher' = "build" /\ received' = Append(received, t)
    BY <1>3 DEF MM!GetTicket
  <1>5. /\ received \in Seq(Tickets) /\ Len(received) \in Nat /\ Len(messages) \in Nat
        /\ received' \in Seq(Tickets) /\ Len(received') = Len(received) + 1
        /\ received'[Len(received) + 1] = t
        /\ \A k \in 1 .. Len(received) : received'[k] = received[k]
    BY <1>4, AppendProperties, LenProperties DEF StreamInv, ReadInv
  <1>6. next = Len(received) + 2 /\ Len(messages) <= MaxMessages /\ next <= Len(messages)
    BY <1>1, <1>5 DEF StreamInv, ReadInv
  <1>7. MM!OfferTicket
    <2>1. Len(received) < MaxMessages
      BY <1>5, <1>6, StreamAssumption
    <2>2. \E e \in Tickets : MM!GetTicket(e)
      BY ONLY <1>3
    <2>3. UNCHANGED MM!callerVars
      BY <1>1 DEF MM!callerVars
    <2> QED BY ONLY <2>1, <2>2, <2>3 DEF MM!OfferTicket
  <1>8. \A k \in 1 .. Len(received') : messages'[k + 1] = TicketMessage(received'[k])
    <2> SUFFICES ASSUME NEW k \in 1 .. Len(received')
                 PROVE  messages'[k + 1] = TicketMessage(received'[k])
      OBVIOUS
    <2>1. CASE k \in 1 .. Len(received)
      BY <1>1, <1>5, <2>1 DEF StreamInv, ReadInv
    <2>2. CASE k = Len(received) + 1
      BY <1>1, <1>2, <1>5, <1>6, <2>2
    <2> QED BY <1>5, <2>1, <2>2
  <1>9. ReadInv'
    BY <1>1, <1>4, <1>5, <1>6, <1>8 DEF StreamInv, ReadInv
  <1>10. GoroutineInv'
    BY <1>1, <1>4 DEF StreamInv, GoroutineInv
  <1> QED BY <1>7, <1>9, <1>10 DEF StreamInv, MM!Next

\* The sender takes a match together with the match maker; nothing else it does goes
\* beyond what a caller may do.
LEMMA SenderStep ==
  ASSUME StreamInv, TakeResult \/ Sender
  PROVE  StreamInv' /\ [MM!Next]_MM!vars
  <1> USE DEF StreamInv, ReadInv, GoroutineInv, streamVars, receiverVars
  <1>1. CASE TakeResult
    <2>1. MM!Deliver
      BY <1>1 DEF TakeResult, MM!Deliver, MM!callerVars
    <2>2. StreamInv'
      BY <1>1 DEF TakeResult, MM!SendMatch
    <2> QED BY <2>1, <2>2 DEF MM!Next
  <1>2. CASE SendResponse
    <2>1. StreamInv'
      BY <1>2 DEF SendResponse, matcherVars
    <2>2. UNCHANGED MM!vars
      BY <1>2 DEF SendResponse, matcherVars, MM!vars, MM!goroutineVars, MM!callerVars
    <2> QED BY <2>1, <2>2
  <1>3. CASE SendFails \/ ResultsClosed
    <2>1. StreamInv'
      BY <1>3 DEF SendFails, ResultsClosed, matcherVars
    <2>2. MM!Caller
      BY <1>3 DEF SendFails, ResultsClosed, matcherVars, MM!Caller, MM!StopDraining, MM!goroutineVars
    <2> QED BY <2>1, <2>2 DEF MM!Next
  <1> QED BY <1>1, <1>2, <1>3 DEF Sender

\* The match maker's steps are its own.
LEMMA MatcherStep ==
  ASSUME StreamInv, Matcher
  PROVE  StreamInv' /\ [MM!Next]_MM!vars
  <1>1. /\ MM!NoMoreTickets \/ MM!NotEnoughTickets \/ MM!BuildMatch \/ MM!BuildPanics
        /\ UNCHANGED <<messages, next, handler, receiver, ticket, ticketsClosed, sender>>
        /\ ~crashed
    BY DEF Matcher, MatcherSteps, MatcherPanics, streamVars, receiverVars, senderVars
  <1>2. MM!Local
    BY <1>1 DEF MM!Local, MM!callerVars
  <1>3. matcher # "off" /\ matcher' # "off" /\ received' = received
    BY <1>1 DEF MM!NoMoreTickets, MM!NotEnoughTickets, MM!BuildMatch, MM!BuildPanics
  <1>4. StreamInv'
    BY <1>1, <1>3 DEF StreamInv, ReadInv, GoroutineInv
  <1> QED BY <1>2, <1>4 DEF MM!Next

\* What the client and the network do does not reach the match maker.
LEMMA EnvironmentStep ==
  ASSUME StreamInv, Environment
  PROVE  StreamInv' /\ UNCHANGED MM!vars
  <1>1. /\ UNCHANGED <<next, handler, receiver, ticket, ticketsClosed, sender, crashed, matcher, received>>
        /\ UNCHANGED MM!vars
    BY DEF Environment, ClientSends, ClientHalfCloses, StreamBreaks, receiverVars, senderVars,
           matcherVars, MM!vars, MM!goroutineVars, MM!callerVars
  <1>2. CASE ClientSends
    <2>1. PICK m \in Messages : messages' = Append(messages, m)
      BY <1>2 DEF ClientSends
    <2>2. /\ Len(messages) \in Nat /\ Len(received) \in Nat
          /\ messages' \in Seq(Messages) /\ Len(messages') = Len(messages) + 1
          /\ \A k \in 1 .. Len(messages) : messages'[k] = messages[k]
      BY <2>1, AppendProperties, LenProperties DEF StreamInv, ReadInv
    <2>3. Len(messages') <= MaxMessages /\ next \in 0 .. Len(messages')
      BY <1>2, <2>2, StreamAssumption DEF ClientSends, StreamInv, ReadInv
    <2>4. \A k \in 1 .. Len(received) : k + 1 \in 1 .. Len(messages)
      BY <2>2 DEF StreamInv, ReadInv
    <2>5. receiver = "push" => next \in 1 .. Len(messages)
      BY <2>2 DEF StreamInv, ReadInv
    <2>6. ReadInv'
      BY <1>1, <2>2, <2>3, <2>4, <2>5 DEF StreamInv, ReadInv
    <2> QED BY <1>1, <2>6 DEF StreamInv, GoroutineInv
  <1>3. CASE ClientHalfCloses \/ StreamBreaks
    <2>1. messages' = messages
      BY <1>3 DEF ClientHalfCloses, StreamBreaks
    <2> QED BY <1>1, <2>1 DEF StreamInv, ReadInv, GoroutineInv
  <1> QED BY <1>1, <1>2, <1>3 DEF Environment

\* Every step of the RPC is a step of MatchMaker or leaves its variables alone.
LEMMA StreamStep ==
  ASSUME StreamInv, [Next]_vars
  PROVE  StreamInv' /\ [MM!Next]_MM!vars
  <1>1. CASE UNCHANGED vars
    BY <1>1 DEF vars, streamVars, receiverVars, senderVars, matcherVars, StreamInv, ReadInv,
                GoroutineInv, MM!vars, MM!goroutineVars, MM!callerVars
  <1> QED BY <1>1, HandlerStep, ReceiverStep, PushStep, SenderStep, MatcherStep, EnvironmentStep
          DEF Next

\* The RPC starts where the match maker does.
LEMMA StreamStart == Init => StreamInv /\ MM!Init
  <1> SUFFICES ASSUME Init PROVE StreamInv /\ MM!Init
    OBVIOUS
  <1>1. /\ messages = <<>> /\ next = 0 /\ received = <<>> /\ handler = "start" /\ ~crashed
        /\ receiver = "off" /\ sender = "off" /\ matcher = "off" /\ ticketsClosed = FALSE
    BY DEF Init, MM!Init
  <1>2. Len(messages) = 0 /\ Len(received) = 0
    BY <1>1
  <1>3. ReadInv
    BY <1>1, <1>2, StreamAssumption DEF ReadInv
  <1> QED BY <1>1, <1>3 DEF StreamInv, GoroutineInv, Init

\* The invariant of the stream.
LEMMA StreamInvHolds == Spec => []StreamInv
  BY StreamStart, StreamStep, PTL DEF Spec

(***************************************************************************)
(* The RPC uses MakeMatches as module MatchMaker assumes: every behaviour  *)
(* of the stream is one of the match maker and a caller.                   *)
(***************************************************************************)
THEOREM UsesMatchMaker == Spec => MatchMakerSpec
  BY StreamStart, StreamStep, StreamInvHolds, PTL DEF Spec, MatchMakerSpec

(***************************************************************************)
(* Hence what MatchMakerProofs proves of the goroutine holds in the stream.*)
(***************************************************************************)
LEMMA MatcherInvHolds == Spec => []MMP!MatchMakerInv
  <1>1. MMP!MatchMakerAssumption
    BY StreamAssumption DEF MMP!MatchMakerAssumption, MMP!RuleSets, MMP!Accepts, RuleSets, Accepts,
       MMP!AllianceRules, AllianceRules, MMP!GoInt, GoInt
  <1>2. MMP!IntBoundAssumption
    BY IntBoundAssumption DEF MMP!IntBoundAssumption
  <1>3. MMP!Behaviour => []MMP!MatchMakerInv
    BY <1>1, <1>2, MMP!MatchMakerInvHolds
  <1> QED BY <1>3, UsesMatchMaker, SameInit, SameNext, PTL DEF MatchMakerSpec, MMP!Behaviour
(***************************************************************************)
(* A ticket on its way back.                                               *)
(***************************************************************************)
\* What the stream needs to know of the match maker: the match it sends is made of the
\* oldest tickets that it has not handed over.
LEMMA MatchIsNext ==
  ASSUME StreamInv, MMP!MatchMakerInv
  PROVE  /\ handed \in Nat /\ Len(received) \in Nat /\ handed <= Len(received)
         /\ matcher = "send" =>
               /\ match.Tickets \in Seq(Tickets)
               /\ Len(match.Tickets) \in 0 .. Len(received) - handed
               /\ \A k \in 1 .. Len(match.Tickets) : match.Tickets[k] = received[handed + k]
  <1>1. /\ handed \in Nat /\ Len(received) \in Nat /\ handed <= Len(received)
        /\ received \in Seq(Tickets)
    BY LenProperties DEF StreamInv, ReadInv, MMP!MatchMakerInv, MMP!TypeOK, MMP!TicketAccounting
  <1> SUFFICES ASSUME matcher = "send"
               PROVE  /\ match.Tickets \in Seq(Tickets)
                      /\ Len(match.Tickets) \in 0 .. Len(received) - handed
                      /\ \A k \in 1 .. Len(match.Tickets) :
                            match.Tickets[k] = received[handed + k]
    BY <1>1
  <1> DEFINE u == SubSeq(received, handed + 1, Len(received))
             n == Len(match.Tickets)
  <1>2. /\ match.Tickets \in Seq(Tickets) /\ n \in Nat
        /\ unmatchedTickets = u /\ n <= Len(unmatchedTickets)
        /\ match.Tickets = SubSeq(unmatchedTickets, 1, n)
    BY LenProperties DEF MMP!MatchMakerInv, MMP!TypeOK, MMP!Matches, MMP!TicketAccounting
  <1>3. \A k \in handed + 1 .. Len(received) : received[k] \in Tickets
    BY <1>1
  <1>4. /\ u \in Seq(Tickets) /\ Len(u) = Len(received) - handed
        /\ \A k \in 1 .. Len(received) - handed : u[k] = received[handed + k]
    BY <1>1, <1>3, SubSeqProperties
  <1> HIDE DEF u
  <1>5. n \in 0 .. Len(received) - handed
    BY <1>1, <1>2, <1>4
  <1>6. \A k \in 1 .. n : u[k] \in Tickets
    BY <1>1, <1>4, <1>5
  <1>7. \A k \in 1 .. n : SubSeq(u, 1, n)[k] = u[k]
    BY <1>2, <1>4, <1>6, SubSeqProperties
  <1> HIDE DEF n
  <1>8. \A k \in 1 .. n : match.Tickets[k] = received[handed + k]
    BY <1>1, <1>2, <1>4, <1>5, <1>7
  <1> QED BY <1>2, <1>5, <1>8 DEF n

\* Every step keeps track of the tickets handed over.
LEMMA DeliveryStep ==
  ASSUME StreamInv, MMP!MatchMakerInv, DeliveryInv, [Next]_vars
  PROVE  DeliveryInv'
  <1>0. /\ handed \in Nat /\ Len(received) \in Nat /\ handed <= Len(received)
        /\ received \in Seq(Tickets) /\ delivered \in Seq(Tickets) /\ result \in Seq(Tickets)
        /\ Len(delivered) \in Nat /\ Len(result) \in Nat
    BY MatchIsNext, LenProperties DEF DeliveryInv, StreamInv, ReadInv
  <1>1. CASE PushTicket
    <2>1. UNCHANGED <<sender, delivered, result, handed>>
      BY <1>1 DEF PushTicket, senderVars, MM!GetTicket
    <2>2. \A k \in 1 .. Len(received) : received'[k] = received[k]
      <3>1. PICK t \in Tickets : ticket = <<t>>
        BY <1>1 DEF PushTicket, StreamInv, ReadInv
      <3>2. received' = Append(received, t)
        BY <1>1, <3>1 DEF PushTicket, MM!GetTicket
      <3> QED BY <1>0, <3>2, AppendProperties
    <2>3. \A k \in 1 .. Len(delivered) : k \in 1 .. Len(received)
      BY <1>0 DEF DeliveryInv
    <2>4. sender = "send" =>
             \A k \in 1 .. Len(result) : Len(delivered) + k \in 1 .. Len(received)
      BY <1>0 DEF DeliveryInv
    <2> QED BY <2>1, <2>2, <2>3, <2>4 DEF DeliveryInv
  <1>2. CASE TakeResult
    <2>1. /\ sender = "range" /\ sender' = "send" /\ matcher = "send"
          /\ result' = match.Tickets /\ handed' = handed + Len(match.Tickets)
          /\ UNCHANGED <<delivered, received>>
      BY <1>2 DEF TakeResult, MM!SendMatch
    <2>2. Len(delivered) = handed
      BY <2>1 DEF DeliveryInv
    <2>3. /\ result' \in Seq(Tickets) /\ Len(result') \in Nat
          /\ \A k \in 1 .. Len(result') : result'[k] = received[Len(delivered) + k]
      BY <2>1, <2>2, MatchIsNext
    <2> QED BY <1>0, <2>1, <2>2, <2>3 DEF DeliveryInv
  <1>3. CASE Sender /\ SendResponse
    <2>1. /\ sender = "send" /\ sender' = "range" /\ delivered' = delivered \o result
          /\ UNCHANGED <<result, received, handed>>
      BY <1>3 DEF SendResponse, matcherVars
    <2>2. /\ Len(delivered) + Len(result) = handed
          /\ \A k \in 1 .. Len(result) : result[k] = received[Len(delivered) + k]
      BY <2>1 DEF DeliveryInv
    <2>3. /\ delivered' \in Seq(Tickets) /\ Len(delivered') = handed
          /\ \A k \in 1 .. Len(delivered') :
                delivered'[k] = IF k <= Len(delivered) THEN delivered[k]
                                                       ELSE result[k - Len(delivered)]
      BY <1>0, <2>1, <2>2, ConcatProperties
    <2>4. ASSUME NEW k \in 1 .. Len(delivered') PROVE delivered'[k] = received[k]
      <3>1. CASE k <= Len(delivered)
        BY <1>0, <2>3, <2>4, <3>1 DEF DeliveryInv
      <3>2. CASE k > Len(delivered)
        <4>1. /\ k - Len(delivered) \in 1 .. Len(result)
              /\ Len(delivered) + (k - Len(delivered)) = k
          BY <1>0, <2>2, <2>3, <2>4, <3>2
        <4>2. delivered'[k] = result[k - Len(delivered)]
          BY <1>0, <2>3, <2>4, <3>2
        <4>3. result[k - Len(delivered)] = received[Len(delivered) + (k - Len(delivered))]
          BY <2>2, <4>1
        <4> QED BY <4>1, <4>2, <4>3
      <3> QED BY <1>0, <2>3, <2>4, <3>1, <3>2
    <2> QED BY <1>0, <2>1, <2>3, <2>4 DEF DeliveryInv
  <1>4. CASE Sender /\ (SendFails \/ ResultsClosed)
    <2>1. sender' = "done" /\ UNCHANGED <<delivered, result, received, handed>>
      BY <1>4 DEF SendFails, ResultsClosed, matcherVars
    <2> QED BY <2>1 DEF DeliveryInv
  <1>5. CASE Handler /\ StartMatching
    <2>1. sender' = "range" /\ UNCHANGED <<delivered, result, received, handed>>
      BY <1>5 DEF StartMatching, MM!MakeMatches
    <2>2. sender = "off"
      BY <1>5 DEF StartMatching, StreamInv, GoroutineInv
    <2> QED BY <2>1, <2>2 DEF DeliveryInv
  <1>6. CASE UNCHANGED <<sender, delivered, result, received, handed>>
    BY <1>6 DEF DeliveryInv
  <1>7. \/ PushTicket
        \/ TakeResult
        \/ Sender /\ SendResponse
        \/ Sender /\ (SendFails \/ ResultsClosed)
        \/ Handler /\ StartMatching
        \/ UNCHANGED <<sender, delivered, result, received, handed>>
    <2>1. CASE Handler
      BY <2>1 DEF Handler, RejectStream, PanicOnMissingRules, FinishStream, senderVars, matcherVars
    <2>2. CASE Receiver
      BY <2>2 DEF Receiver, ReceiveTicket, ReceiveEnd, PanicOnOtherMessage, senderVars, matcherVars
    <2>3. CASE Matcher
      BY <2>3 DEF Matcher, MatcherSteps, MatcherPanics, senderVars, MM!NoMoreTickets,
                  MM!NotEnoughTickets, MM!BuildMatch, MM!BuildPanics
    <2>4. CASE Environment \/ UNCHANGED vars
      BY <2>4 DEF Environment, ClientSends, ClientHalfCloses, StreamBreaks, vars, senderVars, matcherVars
    <2> QED BY <2>1, <2>2, <2>3, <2>4 DEF Next, Sender
  <1> QED BY <1>1, <1>2, <1>3, <1>4, <1>5, <1>6, <1>7
(***************************************************************************)
(* How a call ends.                                                        *)
(***************************************************************************)
LEMMA EndStep ==
  ASSUME StreamInv, DeliveryInv, EndInv, [Next]_vars
  PROVE  EndInv'
  <1>0. next \in Nat /\ Len(messages) \in Nat /\ next <= Len(messages)
    BY LenProperties DEF StreamInv, ReadInv
  <1>1. CASE Handler
    <2>1. /\ UNCHANGED <<broken, halfClosed, messages, delivered>>
          /\ handler \in {"start", "wait"}
      BY <1>1 DEF Handler, StartMatching, RejectStream, PanicOnMissingRules, FinishStream,
                  streamVars, senderVars
    <2>2. CASE StartMatching
      BY <2>2 DEF StartMatching, EndInv
    <2>3. CASE RejectStream \/ PanicOnMissingRules
      <3>1. /\ handler' \in {"start", "failed"} /\ handler = "start"
            /\ receiver' = receiver /\ sender' = sender
        BY <2>3 DEF RejectStream, PanicOnMissingRules, receiverVars, senderVars
      <3>2. receiver = "off" /\ sender = "off"
        BY <3>1 DEF StreamInv, GoroutineInv
      <3> QED BY <3>1, <3>2 DEF EndInv
    <2>4. CASE FinishStream
      BY <2>1, <2>4 DEF FinishStream, EndInv, streamVars, receiverVars, senderVars, matcherVars
    <2> QED BY <1>1, <2>2, <2>3, <2>4 DEF Handler
  <1>2. CASE Receiver
    <2>1. /\ UNCHANGED <<broken, halfClosed, messages, handler, sender, delivered, matcher, handed>>
          /\ receiver = "recv"
      BY <1>2 DEF Receiver, ReceiveTicket, ReceiveEnd, PanicOnOtherMessage, streamVars, senderVars,
                  matcherVars
    <2>2. receiver' = "done" => next' = next /\ RecvError
      BY <1>2, <2>1 DEF Receiver, ReceiveTicket, ReceiveEnd, PanicOnOtherMessage, receiverVars
    <2>3. receiver' = "done" /\ ~broken => halfClosed /\ next' = Len(messages)
      BY <1>0, <2>2 DEF RecvError, CanRecv
    <2> QED BY <2>1, <2>3 DEF EndInv
  <1>3. CASE PushTicket
    <2>1. /\ UNCHANGED <<broken, handler, sender>>
          /\ receiver = "push" /\ receiver' = "recv" /\ matcher = "select"
      BY <1>3 DEF PushTicket, streamVars, senderVars, MM!GetTicket
    <2> QED BY <2>1 DEF EndInv
  <1>4. CASE TakeResult
    <2>1. /\ UNCHANGED <<broken, halfClosed, messages, next, handler, receiver>>
          /\ sender = "range" /\ sender' = "send"
      BY <1>4 DEF TakeResult, streamVars, receiverVars
    <2> QED BY <2>1 DEF EndInv
  <1>5. CASE Sender
    <2>1. /\ UNCHANGED <<broken, halfClosed, messages, next, handler, receiver, matcher, handed>>
          /\ sender # "done"
      BY <1>5 DEF Sender, SendResponse, SendFails, ResultsClosed, streamVars, receiverVars, matcherVars
    <2>2. sender' = "done" /\ ~broken => matcher = "closed" /\ Len(delivered') = handed
      BY <1>5 DEF Sender, SendResponse, SendFails, ResultsClosed, DeliveryInv
    <2> QED BY <2>1, <2>2 DEF EndInv
  <1>6. CASE Matcher
    <2>1. /\ UNCHANGED <<broken, halfClosed, messages, next, handler, receiver, sender, delivered>>
          /\ matcher # "closed"
      BY <1>6 DEF Matcher, MatcherSteps, MatcherPanics, streamVars, receiverVars, senderVars,
                  MM!NoMoreTickets, MM!NotEnoughTickets, MM!BuildMatch, MM!BuildPanics
    <2> QED BY <2>1 DEF EndInv
  <1>7. CASE Environment
    <2>1. /\ UNCHANGED <<next, handler, receiver, sender, delivered, matcher, handed>>
          /\ halfClosed => halfClosed' /\ messages' = messages
      BY <1>7 DEF Environment, ClientSends, ClientHalfCloses, StreamBreaks, StreamOpen,
                  receiverVars, senderVars, matcherVars
    <2>2. ~broken' => ~broken
      BY <1>7 DEF Environment, ClientSends, ClientHalfCloses, StreamBreaks
    <2> QED BY <2>1, <2>2 DEF EndInv
  <1>8. CASE UNCHANGED vars
    BY <1>8 DEF EndInv, vars, streamVars, receiverVars, senderVars, matcherVars
  <1> QED BY <1>1, <1>2, <1>3, <1>4, <1>5, <1>6, <1>7, <1>8 DEF Next

\* At the start nothing is handed over and no goroutine has ended.
LEMMA DeliveryStart == Init => DeliveryInv /\ EndInv
  <1> SUFFICES ASSUME Init PROVE DeliveryInv /\ EndInv
    OBVIOUS
  <1>1. /\ delivered = <<>> /\ result = <<>> /\ handed = 0 /\ sender = "off" /\ receiver = "off"
        /\ handler = "start" /\ Len(delivered) = 0
    BY DEF Init, MM!Init
  <1>2. delivered \in Seq(Tickets) /\ result \in Seq(Tickets)
    BY <1>1
  <1> QED BY <1>1, <1>2 DEF DeliveryInv, EndInv

\* Both invariants hold in every state.
LEMMA DeliveryInvHolds == Spec => [](DeliveryInv /\ EndInv)
  BY DeliveryStart, DeliveryStep, EndStep, StreamInvHolds, MatcherInvHolds, PTL DEF Spec

(***************************************************************************)
(* The i-th ticket a client gets back is the i-th it sent: nothing that    *)
(* the goroutines do is out of order, lost in between or repeated, for any *)
(* rules and any number of tickets.                                        *)
(***************************************************************************)
THEOREM OrderIsPreserved == Spec => []OrderPreserved
  <1>1. StreamInv /\ MMP!MatchMakerInv /\ DeliveryInv => OrderPreserved
    <2> SUFFICES ASSUME StreamInv, MMP!MatchMakerInv, DeliveryInv,
                        NEW i \in 1 .. Len(delivered)
                 PROVE  messages[i + 1] = TicketMessage(delivered[i])
      BY DEF OrderPreserved
    <2>1. Len(delivered) \in Nat /\ Len(delivered) <= handed
      BY LenProperties DEF DeliveryInv
    <2>2. i \in 1 .. Len(received)
      BY <2>1, MatchIsNext
    <2> QED BY <2>2 DEF StreamInv, ReadInv, DeliveryInv
  <1> QED BY <1>1, StreamInvHolds, MatcherInvHolds, DeliveryInvHolds, PTL

(***************************************************************************)
(* A call that returns from an unbroken stream has read every message, its *)
(* goroutines have ended, and it leaves too few tickets for one match.     *)
(***************************************************************************)
THEOREM AnswersCompletely == Spec => []CompleteAnswer
  <1>1. StreamInv /\ MMP!MatchMakerInv /\ DeliveryInv /\ EndInv => CompleteAnswer
    <2> SUFFICES ASSUME StreamInv, MMP!MatchMakerInv, DeliveryInv, EndInv,
                        handler = "returned", ~broken
                 PROVE  /\ matcher = "closed"
                        /\ Len(received) = Len(messages) - 1
                        /\ Workable(rule) =>
                              Len(received) - Len(delivered) \in 0 .. MinPlayers(rule) - 1
      BY DEF CompleteAnswer
    <2>1. /\ matcher = "closed" /\ Len(delivered) = handed
          /\ receiver = "done" /\ next = Len(messages)
      BY DEF EndInv
    <2>2. next \in Nat /\ next = Len(received) + 1
      BY <2>1, LenProperties DEF StreamInv, ReadInv
    <2>3. handed \in Nat /\ Len(received) \in Nat /\ handed <= Len(received)
      BY MatchIsNext
    <2>4. Len(unmatchedTickets) = Len(received) - handed
      <3>1. received \in Seq(Tickets) /\ unmatchedTickets = SubSeq(received, handed + 1, Len(received))
        BY DEF StreamInv, ReadInv, MMP!MatchMakerInv, MMP!TicketAccounting
      <3>2. \A k \in handed + 1 .. Len(received) : received[k] \in Tickets
        BY <2>3, <3>1
      <3> QED BY <2>3, <3>1, <3>2, SubSeqProperties
    <2>5. Workable(rule) => Len(unmatchedTickets) < MinPlayers(rule) /\ MinPlayers(rule) \in Int
      <3>1. MMP!Workable(rule) = Workable(rule) /\ MMP!MinPlayers(rule) = MinPlayers(rule)
        BY DEF MMP!Workable, Workable, MMP!MinPlayers, MinPlayers, MMP!MaxPlayers, MaxPlayers,
               MMP!Scale, Scale, MMP!NoAlliance, NoAlliance, MMP!AllianceMin, AllianceMin,
               MMP!AllianceMax, AllianceMax, MMP!Wrap, Wrap
      <3>2. MinPlayers(rule) \in Int
        <4>1. rule \in RuleSets
          BY DEF MMP!MatchMakerInv, MMP!TypeOK, MMP!RuleSets, MMP!AllianceRules, MMP!GoInt,
                 RuleSets, AllianceRules, GoInt
        <4> QED BY <4>1, SizesAreInts, IntBoundAssumption DEF GoInt
      <3> QED BY <2>1, <3>1, <3>2 DEF MMP!MatchMakerInv, MMP!SizeInv
    <2> QED BY <2>1, <2>2, <2>3, <2>4, <2>5
  <1> QED BY <1>1, StreamInvHolds, MatcherInvHolds, DeliveryInvHolds, PTL

(***************************************************************************)
(* The process only goes down in a stream whose client did not keep to the *)
(* contract of the stream, or sent rules that no game has.                 *)
(***************************************************************************)
THEOREM KeepersNeverCrash == Spec => []ContractKeepersNeverCrash
  <1>1. Init => ContractKeepersNeverCrash
    BY DEF Init, ContractKeepersNeverCrash
  <1>2. ASSUME StreamInv, MMP!MatchMakerInv', ContractKeepersNeverCrash, [Next]_vars
        PROVE  ContractKeepersNeverCrash'
    <2>0. next \in Nat /\ Len(messages) \in Nat
      BY <1>2, LenProperties DEF StreamInv, ReadInv
    <2>1. CASE crashed
      <3>1. UNCHANGED <<messages, next, rule, crashed>>
        BY <1>2, <2>1 DEF Next, Handler, Receiver, PushTicket, TakeResult, Sender, Matcher,
             Environment, ClientSends, ClientHalfCloses, StreamBreaks, StreamOpen,
             vars, streamVars, matcherVars
      <3> QED BY <1>2, <2>1, <3>1 DEF ContractKeepersNeverCrash, Sensible, NonNegative, Fits
    <2>2. CASE Handler /\ PanicOnMissingRules /\ ~crashed
      <3>1. next = 0 /\ messages' = messages /\ Received = Parameters(Missing)
        BY <1>2, <2>2 DEF PanicOnMissingRules, streamVars, StreamInv, GoroutineInv
      <3> QED BY <3>1 DEF Received, ContractKeepersNeverCrash
    <2>3. CASE Receiver /\ PanicOnOtherMessage /\ ~crashed
      <3>1. /\ receiver = "recv" /\ messages' = messages /\ next' = next + 1
            /\ messages[next + 1].type # "ticket"
        BY <2>3 DEF PanicOnOtherMessage, Received, streamVars
      <3>2. matcher # "off"
        BY <1>2, <3>1 DEF StreamInv, GoroutineInv
      <3>3. Len(received) \in Nat /\ Len(received) + 1 <= next
        BY <1>2, <3>2, LenProperties DEF StreamInv, ReadInv
      <3>4. next + 1 \in 2 .. next'
        BY <2>0, <3>1, <3>3
      <3> QED BY <3>1, <3>4 DEF ContractKeepersNeverCrash
    <2>4. CASE Matcher /\ MatcherPanics /\ ~crashed
      <3>1. matcher' = "panic"
        BY <2>4 DEF MatcherPanics, MM!BuildPanics
      <3>2. ~MMP!Sensible(rule')
        BY <1>2, <3>1 DEF MMP!MatchMakerInv, MMP!SensibleRulesNeverPanic, MMP!Sensible,
             MMP!NonNegative, MMP!Fits
      <3>3. ~Sensible(rule')
        BY <3>2 DEF Sensible, MMP!Sensible, NonNegative, MMP!NonNegative, Fits, MMP!Fits
      <3> QED BY <3>3 DEF ContractKeepersNeverCrash, Sensible, NonNegative, Fits
    <2>5. CASE ~crashed'
      BY <2>5 DEF ContractKeepersNeverCrash
    <2>6. ~(Receiver /\ ReceiveEnd /\ crashed')
      BY <1>2 DEF ReceiveEnd, StreamInv, GoroutineInv
    <2>7. ~crashed /\ crashed' =>
             \/ Handler /\ PanicOnMissingRules
             \/ Receiver /\ PanicOnOtherMessage
             \/ Matcher /\ MatcherPanics
      BY <1>2, <2>6 DEF Next, Handler, Receiver, PushTicket, TakeResult, Sender, Matcher,
           StartMatching, RejectStream, FinishStream, ReceiveTicket,
           SendResponse, SendFails, ResultsClosed, MatcherSteps,
           Environment, ClientSends, ClientHalfCloses, StreamBreaks, vars
    <2> QED BY <2>1, <2>2, <2>3, <2>4, <2>5, <2>7
  <1> QED BY <1>1, <1>2, StreamInvHolds, MatcherInvHolds, PTL DEF Spec

=============================================================================
