------------------------ MODULE BackfillStreamProofs ------------------------
(***************************************************************************)
(* What a client of the BackfillMatches RPC can rely on, for any tickets,  *)
(* any backfill tickets and any number of messages. First the RPC is shown *)
(* to be a caller of BackfillMatches as module BackfillMaker assumes it,   *)
(* which brings the invariants of BackfillMakerProofs into the stream;     *)
(* then the messages are followed to the match maker, the proposals to the *)
(* responses, and a crash to its cause.                                    *)
(***************************************************************************)
EXTENDS BackfillStream, SequenceTheorems, TLAPS

\* The proofs about the goroutine of BackfillMatches, read with this caller.
BMP == INSTANCE BackfillMakerProofs WITH
    MaxTickets         <- MaxMessages,
    MaxBackfillTickets <- MaxMessages,
    pc                 <- maker,
    held               <- handler = "convert",
    draining           <- handler # "failed",
    ctxDone            <- FALSE

TicketPayloads == {TicketMessage(t) : t \in Tickets}
BackfillPayloads == {BackfillMessage(b, TRUE) : b \in BackfillTickets}

\* The stream, as far as its handler's goroutines have read it.
ReadInv ==
    /\ messages \in Seq(Messages) /\ Len(messages) <= MaxMessages
    /\ next \in 0 .. Len(messages)
    /\ received \in Seq(Tickets) /\ receivedBackfill \in Seq(BackfillTickets)
    /\ fetcher = "push" => next > 0 /\ messages[next] \in TicketPayloads \cup BackfillPayloads
    /\ Len(received) + Len(receivedBackfill) + (IF fetcher = "push" THEN 1 ELSE 0) <= next

\* The three goroutines are started together, and one of them closes the channels, once.
GoroutineInv ==
    /\ maker = "off" <=> fetcher = "off"
    /\ handler = "start" => maker = "off"
    /\ maker = "off" => ~ticketsClosed
    /\ ticketsClosed = (fetcher = "done")

StreamInv == ReadInv /\ GoroutineInv

\* The number of messages whose contents the match maker has.
Passed == IF fetcher = "push" THEN next - 1 ELSE next

\* What the match maker has is what the stream brought, in order.
FetchInv ==
    /\ handler = "start" /\ ~crashed => next = 0
    /\ maker # "off" /\ ~crashed =>
          /\ Collects(received, messages, Passed, "ticket")
          /\ Collects(receivedBackfill, messages, Passed, "backfill")
    /\ backfillFirst \/ ~BackfillFirst

\* The k-th response is made of the k-th proposal sent, which it shows unless a
\* backfill ticket came after a ticket.
ResponseInv ==
    /\ responses \in Seq(Responses)
    /\ Len(responses) + (IF handler = "convert" THEN 1 ELSE 0) = BM!Sent
    /\ \A k \in 1 .. Len(responses) :
          /\ responses[k].proposal = k
          /\ backfillFirst => OwnResponse(responses[k])

\* How the goroutines end: the fetcher at the end of the messages unless the call is
\* lost, the match maker after the fetcher, and the handler after both.
EndInv ==
    /\ fetcher = "done" /\ ~broken /\ handler # "failed" => halfClosed /\ next = Len(messages)
    /\ maker = "closed" => fetcher = "done"
    /\ handler = "returned" => ~crashed /\ (maker = "closed" \/ (maker = "off" /\ messages = <<>>))

(***************************************************************************)
(* The steps, by who takes them.                                           *)
(***************************************************************************)
LEMMA HandlerStep ==
  ASSUME StreamInv, Handler
  PROVE  StreamInv' /\ [BM!Next]_BM!vars
  <1> USE DEF StreamInv, ReadInv, GoroutineInv, streamVars, handlerVars, fetcherVars, makerVars
  <1>1. CASE StartBackfill
    <2>1. StreamInv'
      BY <1>1 DEF StartBackfill, CanRecv, Received, BM!BackfillMatches, BM!queues, BM!memory, BM!inputs
    <2>2. BM!Start
      BY <1>1 DEF StartBackfill, BM!Start, BM!callerVars, BM!BackfillMatches
    <2> QED BY <2>1, <2>2 DEF BM!Next
  <1>2. CASE EmptyStream \/ RejectStream \/ PanicOnMissingRules
    <2>1. StreamInv'
      BY <1>2 DEF EmptyStream, RejectStream, PanicOnMissingRules, CanRecv, Received
    <2>2. BM!Caller \/ UNCHANGED BM!vars
      BY <1>2 DEF EmptyStream, RejectStream, PanicOnMissingRules, BM!Caller, BM!vars, BM!queues,
                  BM!memory, BM!inputs, BM!callerVars
    <2> QED BY <2>1, <2>2 DEF BM!Next
  <1>3. CASE ConvertProposal
    <2>1. StreamInv'
      BY <1>3 DEF ConvertProposal
    <2>2. BM!Release
      BY <1>3 DEF ConvertProposal, BM!Release, BM!queues, BM!memory, BM!inputs
    <2> QED BY <2>1, <2>2 DEF BM!Next
  <1>4. CASE ConcurrentMapAccess \/ SendResponse \/ ProposalsClosed
    <2>1. StreamInv'
      BY <1>4 DEF ConcurrentMapAccess, SendResponse, ProposalsClosed
    <2>2. UNCHANGED BM!vars
      BY <1>4 DEF ConcurrentMapAccess, SendResponse, ProposalsClosed, BM!vars, BM!queues, BM!memory,
                  BM!inputs, BM!callerVars
    <2> QED BY <2>1, <2>2
  <1>5. CASE SendFails
    <2>1. StreamInv'
      BY <1>5 DEF SendFails
    <2>2. BM!Caller
      BY <1>5 DEF SendFails, BM!Caller, BM!queues, BM!memory, BM!inputs
    <2> QED BY <2>1, <2>2 DEF BM!Next
  <1> QED BY <1>1, <1>2, <1>3, <1>4, <1>5 DEF Handler

\* The fetcher's own steps leave the match maker's variables alone or close its
\* channels.
LEMMA FetcherStep ==
  ASSUME StreamInv, Fetcher
  PROVE  StreamInv' /\ [BM!Next]_BM!vars
  <1> USE DEF StreamInv, ReadInv, GoroutineInv, streamVars, handlerVars, fetcherVars, makerVars
  <1>1. CASE FetchTicket
    <2>1. messages' = messages /\ next' = next + 1 /\ messages[next'] = Received
      BY <1>1 DEF FetchTicket, Received
    <2>2. Received \in TicketPayloads \cup BackfillPayloads
      BY <1>1 DEF FetchTicket, TicketPayloads, BackfillPayloads
    <2>3. StreamInv'
      <3>1. /\ UNCHANGED <<handler, maker, ticketsClosed, received, receivedBackfill>>
            /\ fetcher = "recv" /\ fetcher' = "push" /\ next < Len(messages)
        BY <1>1 DEF FetchTicket, CanRecv
      <3>2. ReadInv'
        <4>1. Len(received) \in Nat /\ Len(receivedBackfill) \in Nat /\ Len(messages) \in Nat
          OBVIOUS
        <4>2. next' \in 0 .. Len(messages') /\ next' > 0
          BY <2>1, <3>1, <4>1
        <4>3. Len(received') + Len(receivedBackfill') + 1 <= next'
          BY <2>1, <3>1, <4>1
        <4> QED BY ONLY StreamInv, <2>1, <2>2, <3>1, <4>2, <4>3 DEF StreamInv, ReadInv, TicketPayloads, BackfillPayloads
      <3> QED BY <3>1, <3>2
    <2>4. UNCHANGED BM!vars
      BY <1>1 DEF FetchTicket, BM!vars, BM!queues, BM!memory, BM!inputs, BM!callerVars
    <2> QED BY <2>3, <2>4
  <1>2. CASE SkipMessage \/ PanicOnMissingMatch
    <2>1. StreamInv'
      <3>1. /\ UNCHANGED <<messages, handler, fetcher, maker, ticketsClosed, received, receivedBackfill>>
            /\ fetcher = "recv" /\ next < Len(messages) /\ next' = next + 1
        BY <1>2 DEF SkipMessage, PanicOnMissingMatch, CanRecv
      <3>2. next' \in 0 .. Len(messages)
        BY <3>1
      <3>3. Len(received) + Len(receivedBackfill) <= next'
        BY <3>1
      <3> QED BY <3>1, <3>2, <3>3
    <2>2. UNCHANGED BM!vars
      BY <1>2 DEF SkipMessage, PanicOnMissingMatch, BM!vars, BM!queues, BM!memory, BM!inputs,
                  BM!callerVars
    <2> QED BY <2>1, <2>2
  <1>3. CASE FetchEnd
    <2>1. StreamInv'
      BY <1>3 DEF FetchEnd
    <2>2. BM!Caller
      BY <1>3 DEF FetchEnd, BM!Caller, BM!queues, BM!memory, BM!inputs
    <2> QED BY <2>1, <2>2 DEF BM!Next
  <1> QED BY <1>1, <1>2, <1>3 DEF Fetcher

\* A push is one of the caller's steps, and within the bounds of BackfillMaker.
LEMMA PushStep ==
  ASSUME StreamInv, Push
  PROVE  StreamInv' /\ [BM!Next]_BM!vars
  <1> DEFINE m == messages[next]
  <1> USE DEF StreamInv, ReadInv, GoroutineInv, streamVars, handlerVars
  <1>1. UNCHANGED BM!callerVars /\ UNCHANGED <<messages, next, handler, ticketsClosed>>
    BY DEF Push, BM!callerVars
  <1>2. /\ fetcher = "push" /\ fetcher' = "recv"
        /\ m \in TicketPayloads \cup BackfillPayloads
        /\ Len(received) + Len(receivedBackfill) < MaxMessages
    BY BackfillStreamAssumption DEF Push
  <1>3. CASE m.type = "ticket"
    <2>1. m.ticket \in Tickets
      BY <1>2, <1>3 DEF TicketPayloads, BackfillPayloads, TicketMessage, BackfillMessage
    <2>2. BM!GetTicket(m.ticket)
      BY <1>3 DEF Push, Take
    <2>3. BM!OfferTicket
      <3>1. Len(received) < MaxMessages
        BY <1>2, BackfillStreamAssumption
      <3>2. \E ticket \in Tickets : BM!GetTicket(ticket)
        BY ONLY <2>1, <2>2
      <3> QED BY ONLY <1>1, <3>1, <3>2 DEF BM!OfferTicket
    <2>4. StreamInv'
      <3>1. received' = Append(received, m.ticket) /\ UNCHANGED receivedBackfill /\ maker = "select" /\ maker' = "build"
        BY <2>2 DEF BM!GetTicket
      <3>2. received' \in Seq(Tickets) /\ Len(received') = Len(received) + 1
        BY <2>1, <3>1
      <3> QED BY <1>1, <1>2, <3>1, <3>2
    <2> QED BY <2>3, <2>4 DEF BM!Next
  <1>4. CASE m.type # "ticket"
    <2>1. m.ticket \in BackfillTickets
      BY <1>2, <1>4 DEF TicketPayloads, BackfillPayloads, TicketMessage, BackfillMessage
    <2>2. BM!GetBackfillTicket(m.ticket)
      BY <1>4 DEF Push, Take
    <2>3. BM!OfferBackfillTicket
      <3>1. Len(receivedBackfill) < MaxMessages
        BY <1>2, BackfillStreamAssumption
      <3>2. \E backfillTicket \in BackfillTickets : BM!GetBackfillTicket(backfillTicket)
        BY ONLY <2>1, <2>2
      <3> QED BY ONLY <1>1, <3>1, <3>2 DEF BM!OfferBackfillTicket
    <2>4. StreamInv'
      <3>1. /\ receivedBackfill' = Append(receivedBackfill, m.ticket) /\ UNCHANGED received
            /\ maker = "select" /\ maker' = "build"
        BY <2>2 DEF BM!GetBackfillTicket
      <3>2. receivedBackfill' \in Seq(BackfillTickets) /\ Len(receivedBackfill') = Len(receivedBackfill) + 1
        BY <2>1, <3>1
      <3> QED BY <1>1, <1>2, <3>1, <3>2
    <2> QED BY <2>3, <2>4 DEF BM!Next
  <1> QED BY <1>3, <1>4

\* The match maker's steps are its own.
LEMMA MakerStep ==
  ASSUME StreamInv, Maker \/ TakeProposal
  PROVE  StreamInv' /\ [BM!Next]_BM!vars
  <1> USE DEF StreamInv, ReadInv, GoroutineInv, streamVars, handlerVars, fetcherVars
  <1>1. CASE MakerSteps \/ MakerPanics
    <2>1. UNCHANGED BM!callerVars
      BY <1>1 DEF MakerSteps, MakerPanics, BM!callerVars
    <2>2. BM!Local
      BY <1>1, <2>1 DEF MakerSteps, MakerPanics, BM!Local
    <2>3. /\ UNCHANGED <<messages, next, handler, fetcher, ticketsClosed, received, receivedBackfill>>
          /\ maker # "off" /\ maker' # "off"
      BY <1>1 DEF MakerSteps, MakerPanics, BM!NoMoreTickets, BM!NoMoreBackfillTickets, BM!EndRound,
                  BM!SkipExcluded, BM!Propose, BM!IndexPanics, BM!inputs
    <2>4. StreamInv'
      BY <2>3
    <2> QED BY <2>2, <2>4 DEF BM!Next
  <1>2. CASE TakeProposal
    <2>1. BM!Deliver
      BY <1>2 DEF TakeProposal, BM!Deliver
    <2>2. /\ UNCHANGED <<messages, next, fetcher, ticketsClosed, received, receivedBackfill>>
          /\ maker # "off" /\ maker' # "off" /\ handler' = "convert"
      BY <1>2 DEF TakeProposal, BM!SendProposal, BM!inputs
    <2>3. StreamInv'
      BY <2>2
    <2> QED BY <2>1, <2>3 DEF BM!Next
  <1> QED BY <1>1, <1>2 DEF Maker

\* What the client and the network do does not reach the match maker.
LEMMA EnvironmentStep ==
  ASSUME StreamInv, Environment
  PROVE  StreamInv' /\ UNCHANGED BM!vars
  <1> USE DEF StreamInv, ReadInv, GoroutineInv, handlerVars, fetcherVars, makerVars
  <1>1. UNCHANGED BM!vars
    BY DEF Environment, ClientSends, ClientHalfCloses, StreamBreaks, BM!vars, BM!queues, BM!memory,
           BM!inputs, BM!callerVars
  <1>2. CASE ClientSends
    <2>1. PICK m \in Messages : messages' = Append(messages, m)
      BY <1>2 DEF ClientSends
    <2>2. /\ messages' \in Seq(Messages) /\ Len(messages') = Len(messages) + 1
          /\ \A k \in 1 .. Len(messages) : messages'[k] = messages[k]
      BY <2>1
    <2>3. Len(messages') <= MaxMessages
      BY <1>2, <2>2, BackfillStreamAssumption DEF ClientSends
    <2>4. UNCHANGED <<next, handler, fetcher, ticketsClosed, maker, received, receivedBackfill>>
      BY <1>2 DEF ClientSends
    <2> QED BY <1>1, <2>2, <2>3, <2>4
  <1>3. CASE ClientHalfCloses \/ StreamBreaks
    BY <1>1, <1>3 DEF ClientHalfCloses, StreamBreaks
  <1> QED BY <1>2, <1>3 DEF Environment

\* Every step of the RPC is a step of BackfillMaker or leaves its variables alone.
LEMMA StreamStep ==
  ASSUME StreamInv, [Next]_vars
  PROVE  StreamInv' /\ [BM!Next]_BM!vars
  <1>1. CASE UNCHANGED vars
    BY <1>1 DEF vars, streamVars, handlerVars, fetcherVars, makerVars, StreamInv, ReadInv,
                GoroutineInv, BM!vars, BM!queues, BM!memory, BM!inputs, BM!callerVars
  <1> QED BY <1>1, HandlerStep, FetcherStep, PushStep, MakerStep, EnvironmentStep DEF Next

\* The RPC starts where the match maker does.
LEMMA StreamStart == Init => StreamInv /\ BM!Init
  <1> SUFFICES ASSUME Init PROVE StreamInv /\ BM!Init
    OBVIOUS
  <1>1. BM!Init
    BY DEF Init
  <1>2. /\ messages = <<>> /\ next = 0 /\ received = <<>> /\ receivedBackfill = <<>>
        /\ fetcher = "off" /\ maker = "off" /\ ~ticketsClosed
    BY DEF Init, BM!Init
  <1>3. Len(messages) = 0 /\ Len(received) = 0 /\ Len(receivedBackfill) = 0
    BY <1>2
  <1>4. messages \in Seq(Messages) /\ received \in Seq(Tickets) /\ receivedBackfill \in Seq(BackfillTickets)
    BY <1>2
  <1>5. ReadInv
    BY <1>2, <1>3, <1>4, BackfillStreamAssumption DEF ReadInv
  <1>6. GoroutineInv
    BY <1>1, <1>2 DEF GoroutineInv, BM!Init
  <1> QED BY <1>1, <1>5, <1>6 DEF StreamInv

\* The invariant of the stream.
LEMMA StreamInvHolds == Spec => []StreamInv
  BY StreamStart, StreamStep, PTL DEF Spec

(***************************************************************************)
(* Every behaviour of the RPC is one of the match maker and its caller.    *)
(***************************************************************************)
THEOREM UsesBackfillMaker == Spec => BackfillMakerSpec
  BY StreamStart, StreamStep, StreamInvHolds, PTL DEF Spec, BackfillMakerSpec
(***************************************************************************)
(* The two instances speak of the same goroutine, so what                  *)
(* BackfillMakerProofs proves of it holds in the stream.                   *)
(***************************************************************************)
LEMMA SameInit == BM!Init <=> BMP!Init
  BY DEF BM!Init, BMP!Init

\* The steps of BackfillMaker are those its proofs are about.
LEMMA SameNext == [BM!Next]_BM!vars <=> [BMP!Next]_BMP!vars
  <1> USE DEF BM!queues, BMP!queues, BM!memory, BMP!memory, BM!inputs, BMP!inputs,
             BM!callerVars, BMP!callerVars
  <1>1. UNCHANGED BM!vars <=> UNCHANGED BMP!vars
    BY DEF BM!vars, BMP!vars
  <1>2. BM!Start <=> BMP!Start
    BY DEF BM!Start, BMP!Start, BM!BackfillMatches, BMP!BackfillMatches
  <1>3. BM!OfferTicket <=> BMP!OfferTicket
    BY DEF BM!OfferTicket, BMP!OfferTicket, BM!GetTicket, BMP!GetTicket
  <1>4. BM!OfferBackfillTicket <=> BMP!OfferBackfillTicket
    BY DEF BM!OfferBackfillTicket, BMP!OfferBackfillTicket, BM!GetBackfillTicket,
           BMP!GetBackfillTicket
  <1>5. (BM!Deliver <=> BMP!Deliver) /\ (BM!Release <=> BMP!Release)
    BY DEF BM!Deliver, BMP!Deliver, BM!SendProposal, BMP!SendProposal, BM!Release, BMP!Release
  <1>6. BM!Propose <=> BMP!Propose
    BY DEF BM!Propose, BMP!Propose, BM!InRange, BMP!InRange, BM!IsExcluded, BMP!IsExcluded
  <1>7. BM!SkipExcluded <=> BMP!SkipExcluded
    BY DEF BM!SkipExcluded, BMP!SkipExcluded, BM!InRange, BMP!InRange, BM!IsExcluded,
           BMP!IsExcluded
  <1>8. BM!Local <=> BMP!Local
    BY <1>6, <1>7
       DEF BM!Local, BMP!Local, BM!NoMoreTickets, BMP!NoMoreTickets, BM!NoMoreBackfillTickets,
           BMP!NoMoreBackfillTickets, BM!CtxDone, BMP!CtxDone, BM!EndRound, BMP!EndRound,
           BM!IndexPanics, BMP!IndexPanics, BM!InRange, BMP!InRange
  <1>9. (BM!Caller <=> BMP!Caller) /\ (BM!Ended <=> BMP!Ended)
    BY <1>1 DEF BM!Caller, BMP!Caller, BM!Ended, BMP!Ended
  <1> QED BY <1>1, <1>2, <1>3, <1>4, <1>5, <1>8, <1>9 DEF BM!Next, BMP!Next

\* The match maker's invariants hold of it inside the RPC.
LEMMA MakerInvHolds == Spec => []BMP!BackfillMakerInv
  <1>1. BMP!BackfillAssumption
    BY BackfillStreamAssumption DEF BMP!BackfillAssumption
  <1>2. BMP!Behaviour => []BMP!BackfillMakerInv
    BY <1>1, BMP!BackfillMakerInvHolds
  <1> QED BY <1>2, UsesBackfillMaker, SameInit, SameNext, PTL DEF BackfillMakerSpec, BMP!Behaviour
(***************************************************************************)
(* Reading one more message.                                               *)
(***************************************************************************)
\* A message of another kind brings nothing.
LEMMA CollectsSkip ==
  ASSUME NEW s, NEW ms, NEW n \in Nat, NEW kind,
         Collects(s, ms, n, kind), ms[n + 1].type # kind
  PROVE  Collects(s, ms, n + 1, kind)
  <1>1. PICK at \in [1 .. Len(s) -> 1 .. n] :
           /\ \A j, k \in 1 .. Len(s) : j < k => at[j] < at[k]
           /\ \A k \in 1 .. Len(s) : ms[at[k]].type = kind /\ ms[at[k]].ticket = s[k]
           /\ \A m \in 1 .. n : ms[m].type = kind => \E k \in 1 .. Len(s) : at[k] = m
    BY DEF Collects
  <1>2. at \in [1 .. Len(s) -> 1 .. n + 1]
    OBVIOUS
  <1>3. \A m \in 1 .. n + 1 : ms[m].type = kind => \E k \in 1 .. Len(s) : at[k] = m
    BY <1>1
  <1> QED BY <1>1, <1>2, <1>3 DEF Collects

\* A message of the kind brings the next element.
LEMMA CollectsNext ==
  ASSUME NEW S, NEW s \in Seq(S), NEW e \in S, NEW ms, NEW n \in Nat, NEW kind,
         Collects(s, ms, n, kind), ms[n + 1].type = kind, ms[n + 1].ticket = e
  PROVE  Collects(Append(s, e), ms, n + 1, kind)
  <1> DEFINE l == Len(s)
             t == Append(s, e)
  <1>1. PICK at \in [1 .. l -> 1 .. n] :
           /\ \A j, k \in 1 .. l : j < k => at[j] < at[k]
           /\ \A k \in 1 .. l : ms[at[k]].type = kind /\ ms[at[k]].ticket = s[k]
           /\ \A m \in 1 .. n : ms[m].type = kind => \E k \in 1 .. l : at[k] = m
    BY DEF Collects
  <1>2. /\ l \in Nat /\ Len(t) = l + 1
        /\ t[l + 1] = e /\ \A k \in 1 .. l : t[k] = s[k]
    BY AppendProperties, LenProperties
  <1> DEFINE new == [k \in 1 .. l + 1 |-> IF k = l + 1 THEN n + 1 ELSE at[k]]
  <1> HIDE DEF l, t
  <1>3. new \in [1 .. l + 1 -> 1 .. n + 1]
    BY <1>1, <1>2
  <1>4. /\ new[l + 1] = n + 1 /\ \A k \in 1 .. l : new[k] = at[k] /\ at[k] \in 1 .. n
        /\ \A k \in 1 .. l + 1 : k \in 1 .. l \/ k = l + 1
    BY <1>1, <1>2
  <1> HIDE DEF new
  <1>5. ASSUME NEW j \in 1 .. l + 1, NEW k \in 1 .. l + 1, j < k PROVE new[j] < new[k]
    <2>1. j \in 1 .. l
      BY <1>2, <1>5
    <2>2. CASE k \in 1 .. l
      BY <1>1, <1>4, <1>5, <2>1, <2>2
    <2>3. CASE k = l + 1
      BY <1>4, <2>1, <2>3
    <2> QED BY <1>4, <2>2, <2>3
  <1>6. ASSUME NEW k \in 1 .. l + 1 PROVE ms[new[k]].type = kind /\ ms[new[k]].ticket = t[k]
    <2>1. CASE k \in 1 .. l
      BY <1>1, <1>2, <1>4, <2>1
    <2>2. CASE k = l + 1
      BY <1>2, <1>4, <2>2
    <2> QED BY <1>4, <2>1, <2>2
  <1>7. ASSUME NEW m \in 1 .. n + 1, ms[m].type = kind PROVE \E k \in 1 .. l + 1 : new[k] = m
    <2>1. CASE m \in 1 .. n
      <3>1. PICK k \in 1 .. l : at[k] = m
        BY <1>1, <1>7, <2>1
      <3>2. k \in 1 .. l + 1 /\ new[k] = m
        BY <1>2, <1>4, <3>1
      <3> QED BY <3>2
    <2>2. CASE m = n + 1
      <3>1. l + 1 \in 1 .. l + 1
        BY <1>2
      <3> QED BY <1>4, <2>2, <3>1
    <2> QED BY <2>1, <2>2
  <1>8. /\ new \in [1 .. Len(t) -> 1 .. n + 1]
        /\ \A j, k \in 1 .. Len(t) : j < k => new[j] < new[k]
        /\ \A k \in 1 .. Len(t) : ms[new[k]].type = kind /\ ms[new[k]].ticket = t[k]
        /\ \A m \in 1 .. n + 1 : ms[m].type = kind => \E k \in 1 .. Len(t) : new[k] = m
    BY ONLY <1>2, <1>3, <1>5, <1>6, <1>7
  <1> HIDE DEF new
  <1>9. Collects(t, ms, n + 1, kind)
    BY ONLY <1>8 DEF Collects
  <1> QED BY <1>9 DEF t

\* Only the messages that count are looked at.
LEMMA CollectsSame ==
  ASSUME NEW s, NEW ms, NEW ns, NEW n \in Nat, NEW kind,
         Collects(s, ms, n, kind), \A m \in 1 .. n : ns[m] = ms[m]
  PROVE  Collects(s, ns, n, kind)
  <1>1. PICK at \in [1 .. Len(s) -> 1 .. n] :
           /\ \A j, k \in 1 .. Len(s) : j < k => at[j] < at[k]
           /\ \A k \in 1 .. Len(s) : ms[at[k]].type = kind /\ ms[at[k]].ticket = s[k]
           /\ \A m \in 1 .. n : ms[m].type = kind => \E k \in 1 .. Len(s) : at[k] = m
    BY DEF Collects
  <1>2. \A k \in 1 .. Len(s) : ns[at[k]].type = kind /\ ns[at[k]].ticket = s[k]
    BY <1>1
  <1>3. \A m \in 1 .. n : ns[m].type = kind => \E k \in 1 .. Len(s) : at[k] = m
    BY <1>1
  <1>4. at \in [1 .. Len(s) -> 1 .. n] /\ \A j, k \in 1 .. Len(s) : j < k => at[j] < at[k]
    BY <1>1
  <1> QED BY ONLY <1>2, <1>3, <1>4 DEF Collects

\* Nothing is collected from no message of the kind.
LEMMA CollectsNone ==
  ASSUME NEW ms, NEW n \in Nat, NEW kind, \A m \in 1 .. n : ms[m].type # kind
  PROVE  Collects(<<>>, ms, n, kind)
  <1> DEFINE at == [k \in 1 .. 0 |-> 1]
  <1>1. Len(<<>>) = 0 /\ \A k \in 1 .. 0 : FALSE
    BY EmptySeq
  <1>2. at \in [1 .. 0 -> 1 .. n]
    BY <1>1
  <1> HIDE DEF at
  <1> QED BY <1>1, <1>2 DEF Collects

\* The match maker has read the same messages, and no goroutine has started.
LEMMA FetchKept ==
  ASSUME FetchInv, UNCHANGED <<messages, received, receivedBackfill, backfillFirst>>,
         Passed' = Passed,
         maker' # "off" /\ ~crashed' => maker # "off" /\ ~crashed,
         handler' = "start" /\ ~crashed' => next' = 0
  PROVE  FetchInv'
  <1>1. BackfillFirst' = BackfillFirst
    BY DEF BackfillFirst
  <1>2. ASSUME maker' # "off", ~crashed'
        PROVE  /\ Collects(received, messages, Passed, "ticket")
               /\ Collects(receivedBackfill, messages, Passed, "backfill")
    BY <1>2 DEF FetchInv
  <1> QED BY <1>1, <1>2 DEF FetchInv

\* What one push delivers is the next message of its kind.
LEMMA PushFetched ==
  ASSUME StreamInv, BMP!TypeOK, FetchInv, Push
  PROVE  FetchInv'
  <1> DEFINE m == messages[next]
             n == next - 1
  <1>1. /\ UNCHANGED <<messages, next, handler>> /\ ~crashed /\ crashed' = FALSE
        /\ fetcher = "push" /\ fetcher' = "recv" /\ maker # "off" /\ handler # "start"
    BY DEF Push, streamVars, handlerVars, StreamInv, GoroutineInv, BMP!TypeOK
  <1>2. n \in Nat /\ next = n + 1 /\ Passed = n /\ Passed' = n + 1
    BY <1>1 DEF StreamInv, ReadInv, Passed
  <1>3. /\ m \in TicketPayloads \cup BackfillPayloads
        /\ received \in Seq(Tickets) /\ receivedBackfill \in Seq(BackfillTickets)
    BY <1>1 DEF StreamInv, ReadInv
  <1>4. /\ Collects(received, messages, n, "ticket")
        /\ Collects(receivedBackfill, messages, n, "backfill")
        /\ backfillFirst \/ ~BackfillFirst
    BY <1>1, <1>2 DEF FetchInv
  <1>5. BackfillFirst' = BackfillFirst
    BY <1>1 DEF BackfillFirst
  <1>6. messages[n + 1] = m
    BY <1>2
  <1> HIDE DEF m, n
  <1>7. CASE m.type = "ticket"
    <2>1. m.ticket \in Tickets
      BY <1>3, <1>7 DEF TicketPayloads, BackfillPayloads, TicketMessage, BackfillMessage
    <2>2. /\ received' = Append(received, m.ticket)
          /\ receivedBackfill' = receivedBackfill /\ backfillFirst' = backfillFirst
      BY <1>7 DEF Push, Take, m, BM!GetTicket
    <2>3. Collects(Append(received, m.ticket), messages, n + 1, "ticket")
      BY <1>2, <1>3, <1>4, <1>6, <1>7, <2>1, CollectsNext
    <2>4. Collects(receivedBackfill, messages, n + 1, "backfill")
      BY <1>2, <1>4, <1>6, <1>7, CollectsSkip
    <2> QED BY <1>1, <1>2, <1>4, <1>5, <2>2, <2>3, <2>4 DEF FetchInv
  <1>8. CASE m.type # "ticket"
    <2>1. m.ticket \in BackfillTickets /\ m.type = "backfill"
      BY <1>3, <1>8 DEF TicketPayloads, BackfillPayloads, TicketMessage, BackfillMessage
    <2>2. /\ receivedBackfill' = Append(receivedBackfill, m.ticket)
          /\ received' = received /\ backfillFirst' = (backfillFirst /\ received = <<>>)
      BY <1>8 DEF Push, Take, m, BM!GetBackfillTicket
    <2>3. Collects(Append(receivedBackfill, m.ticket), messages, n + 1, "backfill")
      BY <1>2, <1>3, <1>4, <1>6, <2>1, CollectsNext
    <2>4. Collects(received, messages, n + 1, "ticket")
      BY <1>2, <1>4, <1>6, <1>8, CollectsSkip
    <2>5. ASSUME received # <<>> PROVE ~BackfillFirst
      <3>1. 1 \in 1 .. Len(received)
        BY <1>3, <2>5
      <3>2. PICK j \in 1 .. n : messages[j].type = "ticket"
        BY <1>4, <3>1 DEF Collects
      <3>3. n + 1 \in 1 .. Len(messages) /\ j \in 1 .. Len(messages) /\ ~(n + 1 < j)
        BY <1>2 DEF StreamInv, ReadInv
      <3> QED BY <1>6, <2>1, <3>2, <3>3 DEF BackfillFirst, IsTicket, IsBackfill
    <2>6. backfillFirst' \/ ~BackfillFirst'
      BY <1>4, <1>5, <2>2, <2>5 DEF BMP!TypeOK
    <2> QED BY <1>1, <1>2, <2>2, <2>3, <2>4, <2>6 DEF FetchInv
  <1> QED BY <1>7, <1>8

\* More messages do not touch those that have been read.
LEMMA SendFetched ==
  ASSUME StreamInv, FetchInv, ClientSends
  PROVE  FetchInv'
  <1>1. /\ UNCHANGED <<next, handler, fetcher, crashed, maker, received, receivedBackfill, backfillFirst>>
        /\ Passed' = Passed
    BY DEF ClientSends, handlerVars, fetcherVars, makerVars, Passed
  <1>2. PICK new \in Messages : messages' = Append(messages, new)
    BY DEF ClientSends
  <1>3. messages \in Seq(Messages) /\ Len(messages) \in Nat
    BY DEF StreamInv, ReadInv
  <1>4. Len(messages') = Len(messages) + 1 /\ \A k \in 1 .. Len(messages) : messages'[k] = messages[k]
    BY <1>2, <1>3
  <1>5. Passed \in Nat /\ \A k \in 1 .. Passed : messages'[k] = messages[k]
    BY <1>4 DEF StreamInv, ReadInv, Passed
  <1>6. ~BackfillFirst => ~BackfillFirst'
    BY <1>3, <1>4 DEF BackfillFirst
  <1>7. ASSUME maker # "off", ~crashed
        PROVE  /\ Collects(received, messages', Passed, "ticket")
               /\ Collects(receivedBackfill, messages', Passed, "backfill")
    BY <1>5, <1>7, CollectsSame DEF FetchInv
  <1> QED BY <1>1, <1>6, <1>7 DEF FetchInv

\* Every step keeps what the fetcher has passed on.
LEMMA FetchStep ==
  ASSUME StreamInv, BMP!TypeOK, FetchInv, [Next]_vars
  PROVE  FetchInv'
  <1> USE DEF streamVars, handlerVars, fetcherVars, makerVars
  <1>1. CASE StartBackfill /\ ~crashed
    <2>1. /\ UNCHANGED <<messages, received, receivedBackfill, backfillFirst>>
          /\ handler' = "recv" /\ next = 0 /\ next' = 1 /\ fetcher' = "recv"
          /\ messages[1].type = "parameters"
      BY <1>1 DEF StartBackfill, BM!BackfillMatches, BM!inputs, FetchInv, Received, Parameters
    <2>2. Len(received) = 0 /\ Len(receivedBackfill) = 0
      BY <1>1, <2>1 DEF StartBackfill, StreamInv, ReadInv, GoroutineInv
    <2>3. received = <<>> /\ receivedBackfill = <<>> /\ Passed' = 1
      BY <2>1, <2>2 DEF StreamInv, ReadInv, Passed
    <2>4. Collects(<<>>, messages, 1, "ticket") /\ Collects(<<>>, messages, 1, "backfill")
      BY <2>1, CollectsNone
    <2>5. BackfillFirst' = BackfillFirst
      BY <2>1 DEF BackfillFirst
    <2> QED BY <2>1, <2>3, <2>4, <2>5 DEF FetchInv
  <1>2. CASE EmptyStream \/ RejectStream \/ PanicOnMissingRules
    <2>1. /\ UNCHANGED <<messages, received, receivedBackfill, backfillFirst>>
          /\ maker = "off" /\ maker' = "off"
          /\ handler' # "start" \/ crashed'
      BY <1>2 DEF EmptyStream, RejectStream, PanicOnMissingRules, StreamInv, GoroutineInv
    <2>2. BackfillFirst' = BackfillFirst
      BY <2>1 DEF BackfillFirst
    <2> QED BY <2>1, <2>2 DEF FetchInv
  <1>3. CASE ConvertProposal \/ ConcurrentMapAccess \/ SendResponse \/ SendFails \/ ProposalsClosed
    <2>1. /\ UNCHANGED <<messages, received, receivedBackfill, backfillFirst, maker>>
          /\ Passed' = Passed /\ handler' # "start" /\ (~crashed' => ~crashed)
      BY <1>3 DEF ConvertProposal, ConcurrentMapAccess, SendResponse, SendFails, ProposalsClosed, Passed
    <2> QED BY <2>1, FetchKept
  <1>4. CASE FetchTicket \/ FetchEnd
    <2>1. /\ UNCHANGED <<messages, received, receivedBackfill, backfillFirst, maker, handler, crashed>>
          /\ handler # "start" /\ fetcher = "recv"
          /\ \/ fetcher' = "push" /\ next' = next + 1
             \/ fetcher' = "done" /\ next' = next
      BY <1>4 DEF FetchTicket, FetchEnd, StreamInv, GoroutineInv
    <2>2. Passed' = Passed
      BY <2>1 DEF Passed, StreamInv, ReadInv
    <2> QED BY <2>1, <2>2, FetchKept
  <1>5. CASE SkipMessage
    <2>1. /\ UNCHANGED <<messages, received, receivedBackfill, backfillFirst, maker, handler, crashed, fetcher>>
          /\ handler # "start" /\ fetcher = "recv" /\ next' = next + 1 /\ next \in Nat
          /\ messages[next + 1].type \in {"parameters", "none"}
      BY <1>5 DEF SkipMessage, Received, StreamInv, ReadInv, GoroutineInv
    <2>2. Passed = next /\ Passed' = next + 1 /\ BackfillFirst' = BackfillFirst
      BY <2>1 DEF Passed, BackfillFirst
    <2>3. ASSUME maker # "off", ~crashed
          PROVE  /\ Collects(received, messages, next + 1, "ticket")
                 /\ Collects(receivedBackfill, messages, next + 1, "backfill")
      BY <2>1, <2>2, <2>3, CollectsSkip DEF FetchInv
    <2> QED BY <2>1, <2>2, <2>3 DEF FetchInv
  <1>6. CASE PanicOnMissingMatch
    <2>1. /\ UNCHANGED <<messages, received, receivedBackfill, backfillFirst>>
          /\ crashed' = TRUE
      BY <1>6 DEF PanicOnMissingMatch
    <2>2. BackfillFirst' = BackfillFirst
      BY <2>1 DEF BackfillFirst
    <2> QED BY <2>1, <2>2 DEF FetchInv
  <1>7. CASE Maker \/ TakeProposal
    <2>1. /\ UNCHANGED <<messages, next, fetcher, received, receivedBackfill, backfillFirst>>
          /\ maker # "off" /\ (~crashed' => ~crashed) /\ handler' # "start"
      BY <1>7 DEF Maker, MakerSteps, MakerPanics, TakeProposal, BM!NoMoreTickets,
                  BM!NoMoreBackfillTickets, BM!EndRound, BM!SkipExcluded, BM!Propose, BM!IndexPanics,
                  BM!SendProposal, BM!inputs, StreamInv, GoroutineInv
    <2>2. Passed' = Passed
      BY <2>1 DEF Passed
    <2> QED BY <2>1, <2>2, FetchKept
  <1>8. CASE ClientHalfCloses \/ StreamBreaks \/ UNCHANGED vars
    <2>1. /\ UNCHANGED <<messages, next, fetcher, handler, crashed, maker, received, receivedBackfill,
                         backfillFirst>>
      BY <1>8 DEF ClientHalfCloses, StreamBreaks, vars
    <2>2. Passed' = Passed /\ (handler' = "start" /\ ~crashed' => next' = 0)
      BY <2>1 DEF Passed, FetchInv
    <2> QED BY <2>1, <2>2, FetchKept
  <1> QED BY <1>1, <1>2, <1>3, <1>4, <1>5, <1>6, <1>7, <1>8, PushFetched, SendFetched
          DEF Next, Handler, Fetcher, Environment

\* What the match maker has taken so far is what a number of messages brought, before
\* and after a crash.
LEMMA TakenStep ==
  ASSUME StreamInv, StreamInv', FetchInv', TakenInStreamOrder, [Next]_vars
  PROVE  TakenInStreamOrder'
  <1> USE DEF streamVars, handlerVars, fetcherVars, makerVars
  <1>1. CASE Push
    <2>1. maker' # "off" /\ ~crashed'
      BY <1>1 DEF Push, Take, BM!GetTicket, BM!GetBackfillTicket
    <2>2. /\ Collects(received', messages', Passed', "ticket")
          /\ Collects(receivedBackfill', messages', Passed', "backfill")
      BY <2>1 DEF FetchInv
    <2>3. Passed' \in 0 .. next'
      <3>1. fetcher' = "recv" /\ Passed' = next'
        BY <1>1 DEF Push, Passed
      <3>2. next' \in Nat
        BY LenProperties DEF StreamInv, ReadInv
      <3> QED BY <3>1, <3>2
    <2> QED BY <2>2, <2>3 DEF TakenInStreamOrder
  <1>2. CASE ~Push
    <2>0. next \in 0 .. Len(messages) /\ messages \in Seq(Messages) /\ Len(messages) \in Nat
      BY LenProperties DEF StreamInv, ReadInv
    <2>1. UNCHANGED <<received, receivedBackfill>>
      BY <1>2 DEF Next, Handler, StartBackfill, EmptyStream, RejectStream, PanicOnMissingRules,
           ConvertProposal, ConcurrentMapAccess, SendResponse, SendFails, ProposalsClosed,
           TakeProposal, Fetcher, FetchTicket, SkipMessage, PanicOnMissingMatch, FetchEnd, Maker,
           MakerSteps, MakerPanics, BM!BackfillMatches, BM!SendProposal, BM!NoMoreTickets,
           BM!NoMoreBackfillTickets, BM!EndRound, BM!SkipExcluded, BM!Propose, BM!IndexPanics,
           BM!inputs, Environment, ClientSends, ClientHalfCloses, StreamBreaks, vars
    <2>2. next' \in {next, next + 1}
      BY <1>2 DEF Next, Handler, StartBackfill, EmptyStream, RejectStream, PanicOnMissingRules,
           ConvertProposal, ConcurrentMapAccess, SendResponse, SendFails, ProposalsClosed,
           TakeProposal, Fetcher, FetchTicket, SkipMessage, PanicOnMissingMatch, FetchEnd, Maker,
           MakerSteps, MakerPanics, Environment, ClientSends, ClientHalfCloses, StreamBreaks, vars
    <2>3. \/ messages' = messages
          \/ \E m \in Messages : messages' = Append(messages, m)
      BY <1>2 DEF Next, Handler, StartBackfill, EmptyStream, RejectStream, PanicOnMissingRules,
           ConvertProposal, ConcurrentMapAccess, SendResponse, SendFails, ProposalsClosed,
           TakeProposal, Fetcher, FetchTicket, SkipMessage, PanicOnMissingMatch, FetchEnd, Maker,
           MakerSteps, MakerPanics, Environment, ClientSends, ClientHalfCloses, StreamBreaks, vars
    <2>4. \A k \in 1 .. Len(messages) : messages'[k] = messages[k]
      BY <2>0, <2>3, AppendProperties
    <2>5. PICK n \in 0 .. next : /\ Collects(received, messages, n, "ticket")
                                /\ Collects(receivedBackfill, messages, n, "backfill")
      BY DEF TakenInStreamOrder
    <2>6. n \in Nat /\ n \in 0 .. next' /\ \A k \in 1 .. n : messages'[k] = messages[k]
      BY <2>0, <2>2, <2>4, <2>5
    <2>7. /\ Collects(received, messages', n, "ticket")
          /\ Collects(receivedBackfill, messages', n, "backfill")
      BY <2>5, <2>6, CollectsSame
    <2> QED BY <2>1, <2>6, <2>7 DEF TakenInStreamOrder
  <1> QED BY <1>1, <1>2

(***************************************************************************)
(* From the proposals to the responses.                                    *)
(***************************************************************************)
\* What the handler works on is a proposal that was sent, and while the backfill
\* tickets come first nobody else has written to its memory.
LEMMA SeenByHandler ==
  ASSUME BMP!BackfillMakerInv
  PROVE  /\ Len(proposals) \in Nat /\ BM!Sent \in 0 .. Len(proposals)
         /\ handler = "convert" =>
               /\ BM!Sent \in 1 .. Len(proposals)
               /\ Seen(generatedID) \subseteq Nat \ {0} /\ Seen(lastTeam) \subseteq Nat \ {0}
               /\ backfillFirst =>
                     /\ generatedID[proposals[BM!Sent].backfill] = BM!Sent
                     /\ \A n \in Seen(generatedID) \cup Seen(lastTeam) : n = BM!Sent
  <1> USE DEF BMP!BackfillMakerInv
  <1>1. Len(proposals) \in Nat
    BY LenProperties DEF BMP!TypeOK
  <1>2. maker = "send" => Len(proposals) > 0
    BY <1>1, EmptySeq, LenProperties DEF BMP!SendInv, BMP!TypeOK
  <1>3. BM!Sent = BMP!Sent /\ BM!Sent \in 0 .. Len(proposals)
    BY <1>1, <1>2 DEF BM!Sent, BMP!Sent
  <1>4. CASE handler = "convert"
    <2> DEFINE n == BM!Sent
               b == proposals[n].backfill
    <2>1. n \in 1 .. Len(proposals)
      BY <1>1, <1>3, <1>4 DEF BMP!SendInv
    <2>2. b \in 1 .. Len(receivedBackfill)
      BY <2>1 DEF BMP!AccountingInv
    <2>3. generatedID[b] \in Nat /\ lastTeam[b] \in Nat
      BY <1>1, <2>2 DEF BMP!TypeOK
    <2>4. ASSUME backfillFirst
          PROVE  generatedID[b] = n /\ (lastTeam[b] = n \/ lastTeam[b] = 0)
      BY <2>1, <2>2, <2>4 DEF BMP!MemoryInv, BMP!RoomInv
    <2>5. Seen(generatedID) = {n, generatedID[b]} \ {0} /\ Seen(lastTeam) = {n, lastTeam[b]} \ {0}
      BY DEF Seen
    <2> HIDE DEF n, b
    <2>6. Seen(generatedID) \subseteq Nat \ {0} /\ Seen(lastTeam) \subseteq Nat \ {0}
      BY <1>1, <2>1, <2>3, <2>5
    <2>7. ASSUME backfillFirst PROVE \A k \in Seen(generatedID) \cup Seen(lastTeam) : k = n
      BY <2>4, <2>5, <2>7
    <2> QED BY <1>1, <1>3, <2>1, <2>4, <2>6, <2>7 DEF n, b
  <1> QED BY <1>1, <1>3, <1>4

\* The next response is made of the proposal the handler holds.
LEMMA ConvertResponds ==
  ASSUME BMP!BackfillMakerInv, ResponseInv, ConvertProposal
  PROVE  ResponseInv'
  <1> DEFINE n == BM!Sent
             l == Len(responses)
  <1>1. /\ handler = "convert" /\ handler' = "send" /\ UNCHANGED <<maker, proposals, backfillFirst>>
        /\ l \in Nat /\ n = l + 1 /\ responses \in Seq(Responses)
    BY LenProperties DEF ConvertProposal, makerVars, ResponseInv
  <1>2. BM!Sent' = n
    BY <1>1 DEF BM!Sent
  <1>3. PICK attributes \in Seen(generatedID), team \in Seen(lastTeam) :
           responses' = Append(responses, [proposal |-> n, attributes |-> attributes, team |-> team])
    BY DEF ConvertProposal
  <1> DEFINE r == [proposal |-> n, attributes |-> attributes, team |-> team]
  <1>4. r \in Responses /\ r.proposal = n /\ (backfillFirst => OwnResponse(r))
    BY <1>1, <1>3, SeenByHandler DEF Responses, OwnResponse
  <1>5. responses' = Append(responses, r)
    BY <1>3
  <1> HIDE DEF r, n, l
  <1>6. /\ responses' \in Seq(Responses) /\ Len(responses') = l + 1
        /\ responses'[l + 1] = r /\ \A k \in 1 .. l : responses'[k] = responses[k]
    BY <1>1, <1>4, <1>5, AppendProperties DEF l
  <1>7. ASSUME NEW k \in 1 .. l + 1
        PROVE  responses'[k].proposal = k /\ (backfillFirst => OwnResponse(responses'[k]))
    <2>1. CASE k \in 1 .. l
      BY <1>6, <2>1 DEF ResponseInv, l
    <2>2. CASE k = l + 1
      BY <1>1, <1>4, <1>6, <2>2
    <2> QED BY <1>1, <2>1, <2>2
  <1>8. Len(responses') + (IF handler' = "convert" THEN 1 ELSE 0) = n
    BY <1>1, <1>6
  <1> QED BY <1>1, <1>2, <1>6, <1>7, <1>8 DEF ResponseInv, OwnResponse

\* Every step keeps the responses those of their proposals.
LEMMA ResponseStep ==
  ASSUME StreamInv, BMP!BackfillMakerInv, ResponseInv, [Next]_vars
  PROVE  ResponseInv'
  <1> USE DEF streamVars, handlerVars, fetcherVars, makerVars
  <1>0. /\ Len(proposals) \in Nat /\ Len(responses) \in Nat
        /\ proposals \in Seq(BMP!Proposals) /\ backfillFirst \in BOOLEAN
        /\ maker = "send" => Len(proposals) > 0
    BY LenProperties, EmptySeq DEF BMP!BackfillMakerInv, BMP!TypeOK, BMP!SendInv, ResponseInv
  <1>1. CASE ConvertProposal
    BY <1>1, ConvertResponds
  <1>2. CASE TakeProposal
    <2>1. /\ handler = "recv" /\ handler' = "convert" /\ maker = "send" /\ maker' # "send"
          /\ UNCHANGED <<responses, proposals, backfillFirst>>
      BY <1>2 DEF TakeProposal, BM!SendProposal, BM!inputs
    <2>2. BM!Sent' = BM!Sent + 1
      BY <1>0, <2>1 DEF BM!Sent
    <2> QED BY <1>0, <2>1, <2>2 DEF ResponseInv, OwnResponse
  <1>3. CASE MakerSteps
    <2>1. UNCHANGED <<handler, responses, backfillFirst>>
      BY <1>3 DEF MakerSteps, BM!NoMoreTickets, BM!NoMoreBackfillTickets, BM!EndRound,
                  BM!SkipExcluded, BM!Propose, BM!inputs
    <2>2. BM!Sent' = BM!Sent
      <3>1. CASE BM!Propose
        <4>1. /\ maker = "build" /\ maker' = "send"
              /\ \E p : proposals' = Append(proposals, p)
          BY <3>1 DEF BM!Propose
        <4>2. Len(proposals') = Len(proposals) + 1
          BY <1>0, <4>1
        <4> QED BY <1>0, <4>1, <4>2 DEF BM!Sent
      <3>2. CASE ~BM!Propose
        <4>1. maker # "send" /\ maker' # "send" /\ UNCHANGED proposals
          BY <1>3, <3>2 DEF MakerSteps, BM!NoMoreTickets, BM!NoMoreBackfillTickets, BM!EndRound,
                            BM!SkipExcluded
        <4> QED BY <4>1 DEF BM!Sent
      <3> QED BY <3>1, <3>2
    <2> QED BY <2>1, <2>2 DEF ResponseInv, OwnResponse
  <1>4. CASE Push \/ StartBackfill \/ MakerPanics
    <2>1. /\ UNCHANGED <<responses, proposals>> /\ maker # "send" /\ maker' # "send"
          /\ handler # "convert" <=> handler' # "convert"
          /\ backfillFirst' => backfillFirst
      BY <1>0, <1>4 DEF Push, Take, StartBackfill, MakerPanics, BM!GetTicket, BM!GetBackfillTicket,
                        BM!BackfillMatches, BM!IndexPanics, BM!inputs
    <2>2. BM!Sent' = BM!Sent
      BY <2>1 DEF BM!Sent
    <2> QED BY <2>1, <2>2 DEF ResponseInv, OwnResponse
  <1>5. CASE \/ EmptyStream \/ RejectStream \/ PanicOnMissingRules \/ ConcurrentMapAccess
             \/ SendResponse \/ SendFails \/ ProposalsClosed \/ Fetcher \/ Environment
             \/ UNCHANGED vars
    <2>1. /\ UNCHANGED <<responses, proposals, maker, backfillFirst>>
          /\ handler # "convert" <=> handler' # "convert"
      BY <1>5 DEF EmptyStream, RejectStream, PanicOnMissingRules, ConcurrentMapAccess, SendResponse,
                  SendFails, ProposalsClosed, Fetcher, FetchTicket, SkipMessage,
                  PanicOnMissingMatch, FetchEnd, Environment, ClientSends, ClientHalfCloses,
                  StreamBreaks, vars
    <2>2. BM!Sent' = BM!Sent
      BY <2>1 DEF BM!Sent
    <2> QED BY <2>1, <2>2 DEF ResponseInv, OwnResponse
  <1> QED BY <1>1, <1>2, <1>3, <1>4, <1>5 DEF Next, Handler, Maker

(***************************************************************************)
(* How the goroutines end, and what can end all of them at once.           *)
(***************************************************************************)
LEMMA EndStep ==
  ASSUME StreamInv, FetchInv, EndInv, [Next]_vars
  PROVE  EndInv'
  <1> USE DEF streamVars, handlerVars, fetcherVars, makerVars, StreamInv, ReadInv, GoroutineInv, EndInv
  <1>1. CASE EmptyStream /\ ~crashed
    <2>1. /\ handler = "start" /\ handler' = "returned" /\ maker = "off" /\ ~crashed'
          /\ UNCHANGED <<messages, fetcher, maker>> /\ fetcher = "off"
      BY <1>1 DEF EmptyStream
    <2>2. next = 0 /\ ~CanRecv
      BY <1>1, <2>1 DEF EmptyStream, FetchInv
    <2>3. messages = <<>>
      BY <2>2 DEF CanRecv
    <2> QED BY <2>1, <2>3
  <1>2. CASE StartBackfill \/ RejectStream \/ PanicOnMissingRules
    <2>1. /\ handler = "start" /\ handler' # "returned" /\ fetcher' # "done" /\ maker' # "closed"
      BY <1>2 DEF StartBackfill, RejectStream, PanicOnMissingRules, BM!BackfillMatches
    <2> QED BY <2>1
  <1>3. CASE ConvertProposal \/ ConcurrentMapAccess \/ SendResponse \/ SendFails \/ TakeProposal
    <2>1. /\ UNCHANGED <<messages, halfClosed, broken, next, fetcher>>
          /\ maker' = "closed" => maker = "closed"
          /\ handler' # "returned" /\ (handler' # "failed" => handler # "failed")
      BY <1>3 DEF ConvertProposal, ConcurrentMapAccess, SendResponse, SendFails, TakeProposal,
                  BM!SendProposal
    <2> QED BY <2>1
  <1>4. CASE ProposalsClosed /\ ~crashed
    <2>1. /\ UNCHANGED <<messages, halfClosed, broken, next, fetcher, maker, crashed>>
          /\ maker = "closed" /\ handler = "recv" /\ handler' = "returned"
      BY <1>4 DEF ProposalsClosed
    <2> QED BY <1>4, <2>1
  <1>5. CASE FetchTicket \/ SkipMessage \/ PanicOnMissingMatch \/ Push
    <2>1. /\ UNCHANGED <<messages, halfClosed, broken, handler>>
          /\ fetcher \notin {"off", "done"} /\ fetcher' # "done" /\ (maker' = "closed" => maker = "closed")
      BY <1>5 DEF FetchTicket, SkipMessage, PanicOnMissingMatch, Push, Take, BM!GetTicket, BM!GetBackfillTicket
    <2> QED BY <2>1
  <1>6. CASE FetchEnd /\ ~crashed
    <2>1. /\ UNCHANGED <<messages, halfClosed, broken, next, handler, maker, crashed>>
          /\ fetcher = "recv" /\ fetcher' = "done" /\ RecvError
      BY <1>6 DEF FetchEnd
    <2>2. handler # "returned" /\ maker # "closed" /\ maker # "off"
      BY <2>1
    <2>3. ~broken /\ handler # "failed" => halfClosed /\ next = Len(messages)
      BY <2>1, <2>2 DEF RecvError, HandlerGone, CanRecv
    <2> QED BY <2>1, <2>2, <2>3
  <1>7. CASE Maker
    <2>1. /\ UNCHANGED <<messages, halfClosed, broken, next, handler, fetcher>>
          /\ maker \notin {"off", "closed"} /\ (maker' = "closed" => ticketsClosed)
      BY <1>7 DEF Maker, MakerSteps, MakerPanics, BM!NoMoreTickets, BM!NoMoreBackfillTickets,
                  BM!EndRound, BM!SkipExcluded, BM!Propose, BM!IndexPanics
    <2> QED BY <2>1
  <1>8. CASE ClientSends
    <2>1. /\ UNCHANGED <<halfClosed, broken, handler, fetcher, maker>>
          /\ ~halfClosed /\ ~broken /\ handler \notin {"returned", "failed"}
      BY <1>8 DEF ClientSends, StreamOpen, HandlerGone
    <2> QED BY <2>1
  <1>9. CASE ClientHalfCloses \/ StreamBreaks
    <2>1. /\ UNCHANGED <<messages, next, handler, fetcher, maker>> /\ handler # "returned"
          /\ halfClosed' \/ halfClosed' = halfClosed
          /\ broken' \/ broken' = broken
      BY <1>9 DEF ClientHalfCloses, StreamBreaks, StreamOpen, HandlerGone
    <2> QED BY <2>1
  <1>10. CASE UNCHANGED vars
    BY <1>10 DEF vars
  <1> QED BY <1>1, <1>2, <1>3, <1>4, <1>5, <1>6, <1>7, <1>8, <1>9, <1>10
          DEF Next, Handler, Fetcher, Environment

\* Nothing happens after a crash.
LEMMA CrashStep ==
  ASSUME StreamInv, BMP!BackfillMakerInv, FetchInv, CrashIsExplained, [Next]_vars
  PROVE  CrashIsExplained'
  <1> USE DEF streamVars, handlerVars, fetcherVars, makerVars
  <1>1. CASE UNCHANGED vars
    <2>1. UNCHANGED <<messages, crashed, dropped, receivedBackfill>>
      BY <1>1 DEF vars
    <2>2. BackfillFirst' = BackfillFirst
      BY <2>1 DEF BackfillFirst
    <2> QED BY <2>1, <2>2 DEF CrashIsExplained, IsBackfill
  <1>2. CASE PanicOnMissingRules /\ ~crashed
    <2>1. messages' = messages /\ messages[1] = Parameters("missing")
      BY <1>2 DEF PanicOnMissingRules, Received, FetchInv
    <2> QED BY <2>1 DEF CrashIsExplained, Parameters
  <1>3. CASE ConcurrentMapAccess
    <2>1. ~BackfillFirst
      BY <1>3, SeenByHandler DEF ConcurrentMapAccess, FetchInv
    <2>2. messages' = messages
      BY <1>3 DEF ConcurrentMapAccess
    <2>3. ~BackfillFirst'
      BY <2>1, <2>2 DEF BackfillFirst
    <2> QED BY <2>3 DEF CrashIsExplained
  <1>4. CASE PanicOnMissingMatch
    <2>1. messages' = messages /\ next + 1 \in 1 .. Len(messages)
      BY <1>4 DEF PanicOnMissingMatch, CanRecv, StreamInv, ReadInv
    <2>2. IsBackfill(messages[next + 1]) /\ ~messages[next + 1].whole
      <3>1. PICK b \in BackfillTickets : messages[next + 1] = BackfillMessage(b, FALSE)
        BY <1>4 DEF PanicOnMissingMatch, Received
      <3>2. messages[next + 1].type = "backfill" /\ messages[next + 1].whole = FALSE
        BY <3>1 DEF BackfillMessage
      <3> QED BY <3>2 DEF IsBackfill
    <2> QED BY <2>1, <2>2 DEF CrashIsExplained, IsBackfill
  <1>5. CASE MakerPanics
    <2>1. /\ maker = "build" /\ i > 1 /\ i <= Len(unmatchedBackfillTickets) /\ unmatchedTickets = <<>>
          /\ UNCHANGED <<dropped, receivedBackfill>>
      BY <1>5 DEF MakerPanics, BM!IndexPanics, BM!InRange, BM!inputs
    <2>2. dropped > 0
      BY <2>1 DEF BMP!BackfillMakerInv, BMP!PanicInv
    <2>3. Len(receivedBackfill) >= 2
      <3>1. Len(unmatchedBackfillTickets) \in Nat /\ Len(receivedBackfill) \in Nat /\ i \in Nat
        BY LenProperties DEF BMP!BackfillMakerInv, BMP!TypeOK
      <3> QED BY <2>1, <3>1 DEF BMP!BackfillMakerInv, BMP!RoomInv
    <2> QED BY <2>1, <2>2, <2>3 DEF CrashIsExplained
  <1>6. CASE ~crashed /\ ~crashed'
    BY <1>6 DEF CrashIsExplained
  <1>7. ASSUME Next PROVE \/ PanicOnMissingRules /\ ~crashed
                          \/ ConcurrentMapAccess \/ PanicOnMissingMatch \/ MakerPanics \/ (~crashed /\ ~crashed')
    BY <1>7 DEF Next, Handler, StartBackfill, EmptyStream, RejectStream, ConvertProposal, SendResponse,
               SendFails, ProposalsClosed, TakeProposal, Fetcher, FetchTicket, SkipMessage, FetchEnd,
               Push, Maker, MakerSteps, Environment, StreamOpen, ClientSends, ClientHalfCloses,
               StreamBreaks
  <1> QED BY <1>1, <1>2, <1>3, <1>4, <1>5, <1>6, <1>7

(***************************************************************************)
(* What the client can rely on.                                            *)
(***************************************************************************)
LEMMA CallInvHolds == Spec => [](FetchInv /\ ResponseInv /\ EndInv /\ CrashIsExplained)
  <1>1. Init => FetchInv /\ ResponseInv /\ EndInv /\ CrashIsExplained
    <2> SUFFICES ASSUME Init PROVE FetchInv /\ ResponseInv /\ EndInv /\ CrashIsExplained
      OBVIOUS
    <2>1. /\ messages = <<>> /\ next = 0 /\ handler = "start" /\ fetcher = "off" /\ crashed = FALSE
          /\ responses = <<>> /\ maker = "off" /\ proposals = <<>> /\ backfillFirst = TRUE
      BY DEF Init, BM!Init
    <2>2. Len(responses) = 0 /\ Len(proposals) = 0 /\ responses \in Seq(Responses) /\ BM!Sent = 0
      BY <2>1 DEF BM!Sent
    <2> QED BY <2>1, <2>2 DEF FetchInv, ResponseInv, EndInv, CrashIsExplained
  <1>2. StreamInv /\ BMP!BackfillMakerInv /\ FetchInv /\ ResponseInv /\ EndInv /\ CrashIsExplained
          /\ [Next]_vars
            => FetchInv' /\ ResponseInv' /\ EndInv' /\ CrashIsExplained'
    <2> SUFFICES ASSUME StreamInv, BMP!BackfillMakerInv, FetchInv, ResponseInv, EndInv,
                        CrashIsExplained, [Next]_vars
                 PROVE  FetchInv' /\ ResponseInv' /\ EndInv' /\ CrashIsExplained'
      OBVIOUS
    <2>1. FetchInv'
      BY FetchStep DEF BMP!BackfillMakerInv
    <2>2. ResponseInv'
      BY ResponseStep
    <2>3. EndInv'
      BY EndStep
    <2>4. CrashIsExplained'
      BY CrashStep
    <2> QED BY <2>1, <2>2, <2>3, <2>4
  <1> QED BY <1>1, <1>2, StreamInvHolds, MakerInvHolds, PTL DEF Spec

(***************************************************************************)
(* The match maker takes tickets and backfill tickets in the order of the  *)
(* stream, although they reach it over two channels, and also in a stream  *)
(* during which the process goes down.                                     *)
(***************************************************************************)
THEOREM StreamOrderKept == Spec => []TakenInStreamOrder
  <1>1. Init => TakenInStreamOrder
    <2> SUFFICES ASSUME Init PROVE TakenInStreamOrder
      OBVIOUS
    <2>1. next = 0 /\ received = <<>> /\ receivedBackfill = <<>>
      BY DEF Init, BM!Init
    <2>2. Collects(<<>>, messages, 0, "ticket") /\ Collects(<<>>, messages, 0, "backfill")
      BY CollectsNone
    <2>3. 0 \in 0 .. next
      BY <2>1
    <2> QED BY <2>1, <2>2, <2>3 DEF TakenInStreamOrder
  <1>2. StreamInv /\ StreamInv' /\ FetchInv' /\ TakenInStreamOrder /\ [Next]_vars
            => TakenInStreamOrder'
    BY TakenStep
  <1> QED BY <1>1, <1>2, StreamInvHolds, CallInvHolds, PTL DEF Spec

(***************************************************************************)
(* While the backfill tickets come before the tickets, the handler, which  *)
(* reads the memory of the match maker without a lock, answers with one    *)
(* response per proposal, in turn, showing that proposal and no other.     *)
(***************************************************************************)
THEOREM KeepersAnswered == Spec => []KeepersGetOwnResponses
  <1>1. BMP!BackfillMakerInv /\ FetchInv /\ ResponseInv => KeepersGetOwnResponses
    <2> SUFFICES ASSUME BMP!BackfillMakerInv, FetchInv, ResponseInv, BackfillFirst
                 PROVE  /\ \A k \in 1 .. Len(responses) :
                              responses[k].proposal = k /\ OwnResponse(responses[k])
                        /\ \A j, k \in 1 .. Len(responses) :
                              proposals[j].backfill = proposals[k].backfill => j = k
      BY DEF KeepersGetOwnResponses
    <2>1. backfillFirst
      BY DEF FetchInv
    <2>2. \A j, k \in 1 .. Len(proposals) : proposals[j].backfill = proposals[k].backfill => j = k
      BY <2>1 DEF BMP!BackfillMakerInv, BMP!FirstInv, BMP!OneProposalEach
    <2>3. Len(responses) \in Nat /\ Len(proposals) \in Nat /\ Len(responses) <= Len(proposals)
      BY SeenByHandler, LenProperties DEF ResponseInv
    <2> QED BY <2>1, <2>2, <2>3 DEF ResponseInv
  <1> QED BY <1>1, MakerInvHolds, CallInvHolds, PTL

(***************************************************************************)
(* A call that returns from an unbroken stream has given the match maker   *)
(* every ticket and every backfill ticket in the order they were sent, has *)
(* answered every proposal, and leaves no goroutine behind.                *)
(***************************************************************************)
THEOREM AnswersCompletely == Spec => []CompleteAnswer
  <1>1. StreamInv /\ BMP!BackfillMakerInv /\ FetchInv /\ ResponseInv /\ EndInv => CompleteAnswer
    <2> SUFFICES ASSUME StreamInv, BMP!BackfillMakerInv, FetchInv, ResponseInv, EndInv,
                        handler = "returned", ~broken, messages # <<>>
                 PROVE  /\ maker = "closed" /\ fetcher = "done"
                        /\ Collects(received, messages, Len(messages), "ticket")
                        /\ Collects(receivedBackfill, messages, Len(messages), "backfill")
                        /\ Len(responses) = Len(proposals)
      BY DEF CompleteAnswer
    <2>1. maker = "closed" /\ fetcher = "done" /\ ~crashed /\ next = Len(messages)
      BY DEF EndInv
    <2>2. Passed = Len(messages)
      BY <2>1 DEF Passed
    <2>3. Len(responses) = Len(proposals)
      BY <2>1, SeenByHandler, LenProperties DEF ResponseInv, BM!Sent
    <2> QED BY <2>1, <2>2, <2>3 DEF FetchInv
  <1> QED BY <1>1, StreamInvHolds, MakerInvHolds, CallInvHolds, PTL

(***************************************************************************)
(* A call only takes the process down when its client left out the rules   *)
(* or a partial match, disregarded the order of the stream, or excluded a  *)
(* session while several were to be filled.                                *)
(***************************************************************************)
THEOREM CrashesExplained == Spec => []CrashIsExplained
  BY CallInvHolds, PTL

=============================================================================
