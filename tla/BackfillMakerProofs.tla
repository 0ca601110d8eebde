------------------------ MODULE BackfillMakerProofs ------------------------
(***************************************************************************)
(* What BackfillMatches guarantees for any tickets, backfill tickets and   *)
(* exclusions, in any number and order: types, the accounting of tickets,  *)
(* where a panic can come from; and, when the backfill tickets come first, *)
(* one proposal for each of them, left alone once it is handed over.       *)
(***************************************************************************)
EXTENDS BackfillMaker, SequenceTheorems, TLAPS

-----------------------------------------------------------------------------
(***************************************************************************)
(* The slices of the goroutine: reading, cutting and appending to a slice  *)
(* that holds the last tickets of all those received.                      *)
(***************************************************************************)
\* A slice without its first n elements.
LEMMA CutType ==
    ASSUME NEW S, NEW s \in Seq(S), NEW n \in Nat
    PROVE  SubSeq(s, n + 1, Len(s)) \in Seq(S)
  <1>1. Len(s) \in Nat /\ \A k \in n + 1 .. Len(s) : s[k] \in S
    BY LenProperties
  <1> QED BY <1>1, SubSeqProperties

\* A suffix of the tickets received, after one more has been received.
LEMMA AppendToSuffix ==
    ASSUME NEW S, NEW s \in Seq(S), NEW e \in S, NEW h \in 0 .. Len(s)
    PROVE  Append(SubSeq(s, h + 1, Len(s)), e) =
               SubSeq(Append(s, e), h + 1, Len(Append(s, e)))
  <1> DEFINE u == SubSeq(s, h + 1, Len(s))
             v == Append(s, e)
             w == SubSeq(v, h + 1, Len(v))
  <1>1. Len(s) \in Nat /\ \A k \in 1 .. Len(s) : s[k] \in S
    BY LenProperties
  <1>2. /\ v \in Seq(S) /\ Len(v) = Len(s) + 1
        /\ v[Len(s) + 1] = e
        /\ \A k \in 1 .. Len(s) : v[k] = s[k]
    BY AppendProperties
  <1>3. \A k \in h + 1 .. Len(v) : v[k] \in S
    BY <1>1, <1>2
  <1>4. /\ u \in Seq(S) /\ Len(u) = Len(s) - h
        /\ \A k \in 1 .. Len(s) - h : u[k] = s[h + k]
    BY <1>1, SubSeqProperties
  <1> HIDE DEF v, u
  <1>5. /\ w \in Seq(S) /\ Len(w) = Len(s) + 1 - h
        /\ \A k \in 1 .. Len(s) + 1 - h : w[k] = v[h + k]
    BY <1>1, <1>2, <1>3, SubSeqProperties
  <1> HIDE DEF w
  <1>6. /\ Append(u, e) \in Seq(S) /\ Len(Append(u, e)) = Len(u) + 1
        /\ Append(u, e)[Len(u) + 1] = e
        /\ \A k \in 1 .. Len(u) : Append(u, e)[k] = u[k]
    BY <1>4, AppendProperties
  <1>7. \A k \in 1 .. Len(w) : Append(u, e)[k] = w[k]
    BY <1>1, <1>2, <1>4, <1>5, <1>6
  <1>8. Len(Append(u, e)) = Len(w)
    BY <1>1, <1>4, <1>5, <1>6
  <1>9. Append(u, e) = w
    BY <1>5, <1>6, <1>7, <1>8, SeqEqual
  <1> QED BY <1>9 DEF u, v, w

\* A slice of the elements numbered 1 to n, after one more has been numbered.
LEMMA AppendToFunction ==
    ASSUME NEW S, NEW n \in Nat, NEW f \in [1 .. n -> S], NEW e \in S
    PROVE  /\ Append(f, e) \in [1 .. n + 1 -> S]
           /\ Append(f, e)[n + 1] = e
           /\ \A k \in 1 .. n : Append(f, e)[k] = f[k]
  <1>1. f \in Seq(S) /\ Len(f) = n
    OBVIOUS
  <1>2. /\ Append(f, e) \in Seq(S) /\ Len(Append(f, e)) = n + 1
        /\ Append(f, e)[n + 1] = e
        /\ \A k \in 1 .. n : Append(f, e)[k] = f[k]
    BY <1>1, AppendProperties
  <1> QED BY <1>2, LenProperties

\* The head of the elements that are left of a slice, and the others.
LEMMA HeadOfSuffix ==
    ASSUME NEW S, NEW s \in Seq(S), NEW h \in Nat, h <= Len(s),
           SubSeq(s, h + 1, Len(s)) # <<>>
    PROVE  /\ h + 1 <= Len(s)
           /\ Head(SubSeq(s, h + 1, Len(s))) = s[h + 1]
           /\ Tail(SubSeq(s, h + 1, Len(s))) = SubSeq(s, h + 2, Len(s))
  <1>1. Len(s) \in Nat
    BY LenProperties
  <1>2. h + 1 <= Len(s)
    BY <1>1, SubSeqEmpty
  <1>3. h + 1 \in 1 .. Len(s) /\ Len(s) \in h + 1 .. Len(s) /\ (h + 1) + 1 = h + 2
    BY <1>1, <1>2
  <1> QED BY <1>2, <1>3, HeadTailOfSubSeq

-----------------------------------------------------------------------------
\* The goroutine without its fairness, which no invariant depends on: module
\* BackfillStream, which composes it with the RPC, has a fairness of its own.
Behaviour == Init /\ [][Next]_vars

\* TicketAccounting, with the two bounds it takes for granted.
AccountingInv ==
    /\ Len(proposals) + dropped <= Len(received)
    /\ \A n \in 1 .. Len(proposals) : proposals[n].backfill \in 1 .. Len(receivedBackfill)
    /\ TicketAccounting

\* The tickets of a round run out early only after an exclusion.
PanicInv ==
    /\ pc = "build" /\ i > 1 /\ unmatchedTickets = <<>> => dropped > 0
    /\ PanicNeedsExclusion

\* A proposal on its way is for the backfill ticket in turn, and the caller holds
\* something that was sent before.
SendInv ==
    /\ received = <<>> => unmatchedTickets = <<>>
    /\ pc = "send" => InRange /\ proposals # <<>>
    /\ held => Sent >= 1

\* Nothing is queued twice.
QueueDistinct ==
    \A j, k \in 1 .. Len(unmatchedBackfillTickets) :
        unmatchedBackfillTickets[j] = unmatchedBackfillTickets[k] => j = k

\* Nothing queued has been proposed before, but for the one on its way.
QueueUnproposed ==
    \A n \in 1 .. Len(proposals), j \in 1 .. Len(unmatchedBackfillTickets) :
        (pc = "send" => n < Len(proposals) \/ j > i) =>
            proposals[n].backfill # unmatchedBackfillTickets[j]

\* One ticket at a time: while backfill tickets are queued, no ticket waits between
\* two rounds, and a round uses up its ticket on the first of them.
OneTicketAtATime ==
    unmatchedBackfillTickets # <<>> =>
        /\ pc \in {"off", "select", "send"} => unmatchedTickets = <<>>
        /\ pc = "build" /\ unmatchedTickets # <<>> => i = 1 /\ Tail(unmatchedTickets) = <<>>

\* What makes OneProposalEach inductive.
FirstInv ==
    /\ backfillFirst => QueueDistinct /\ QueueUnproposed /\ OneTicketAtATime
    /\ OneProposalEach

\* Every proposal still is the last to have written to its memory.
MemoryInv ==
    backfillFirst =>
        \A n \in 1 .. Len(proposals) :
            /\ generatedID[proposals[n].backfill] = n
            /\ receivedBackfill[proposals[n].backfill] \in RoomForATeam
                  => lastTeam[proposals[n].backfill] = n

\* No more is queued than was taken, and only a free slot is written to.
RoomInv ==
    /\ Len(unmatchedBackfillTickets) <= Len(receivedBackfill)
    /\ \A b \in 1 .. Len(receivedBackfill) :
          receivedBackfill[b] \notin RoomForATeam => lastTeam[b] = 0

\* Everything that is invariant of the goroutine.
BackfillMakerInv ==
    TypeOK /\ AccountingInv /\ PanicInv /\ SendInv /\ FirstInv /\ MemoryInv /\ RoomInv

\* What a proposal does to the types.
LEMMA ProposeType ==
    ASSUME TypeOK, Propose
    PROVE  /\ proposals' \in Seq(Proposals)
           /\ unmatchedTickets' \in Seq(Tickets)
           /\ generatedID' \in [1 .. Len(receivedBackfill) -> 0 .. Len(proposals')]
           /\ lastTeam' \in [1 .. Len(receivedBackfill) -> 0 .. Len(proposals')]
  <1> DEFINE b == unmatchedBackfillTickets[i]
             p == [backfill |-> b, ticket |-> Head(unmatchedTickets)]
             n == Len(proposals) + 1
  <1>1. b \in 1 .. Len(receivedBackfill) /\ Len(receivedBackfill) \in Nat
    BY LenProperties, ElementOfSeq DEF TypeOK, Propose, InRange
  <1>2. Head(unmatchedTickets) \in Tickets /\ unmatchedTickets' \in Seq(Tickets)
    BY HeadTailProperties DEF TypeOK, Propose
  <1>3. p \in Proposals
    BY <1>1, <1>2 DEF Proposals
  <1>4. Len(proposals) \in Nat /\ proposals' = Append(proposals, p)
    BY LenProperties DEF TypeOK, Propose
  <1>5. proposals' \in Seq(Proposals) /\ Len(proposals') = n
    BY <1>3, <1>4, AppendProperties DEF TypeOK
  <1>6. generatedID' = [generatedID EXCEPT ![b] = n]
    BY <1>4, <1>5 DEF Propose
  <1>7. lastTeam' = [lastTeam EXCEPT ![b] = n] \/ lastTeam' = lastTeam
    BY DEF Propose
  <1> HIDE DEF b, p
  <1> QED BY <1>1, <1>2, <1>4, <1>5, <1>6, <1>7 DEF TypeOK

\* The types, without fairness.
LEMMA TypesKept == Behaviour => []TypeOK
  <1>1. Init => TypeOK
    <2> SUFFICES ASSUME Init PROVE TypeOK
      OBVIOUS
    <2>1. /\ unmatchedTickets \in Seq(Tickets) /\ received \in Seq(Tickets)
          /\ unmatchedBackfillTickets \in Seq(1 .. Len(receivedBackfill))
          /\ receivedBackfill \in Seq(BackfillTickets)
          /\ proposals \in Seq(Proposals)
      BY EmptySeq DEF Init
    <2>2. /\ generatedID \in [1 .. Len(receivedBackfill) -> 0 .. Len(proposals)]
          /\ lastTeam \in [1 .. Len(receivedBackfill) -> 0 .. Len(proposals)]
      <3>1. <<>> \in Seq(0 .. 0) /\ Len(<<>>) = 0
        BY EmptySeq
      <3>2. <<>> \in [1 .. 0 -> 0 .. 0]
        BY <3>1, LenProperties
      <3> QED BY <3>1, <3>2 DEF Init
    <2>3. /\ nextTicket \in BOOLEAN /\ nextBackfillTicket \in BOOLEAN
          /\ backfillFirst \in BOOLEAN /\ held \in BOOLEAN
          /\ ticketsClosed \in BOOLEAN /\ draining \in BOOLEAN /\ ctxDone \in BOOLEAN
      BY DEF Init
    <2>4. pc \in {"off"} /\ i \in Nat \ {0} /\ dropped \in Nat
      BY DEF Init
    <2> QED BY <2>1, <2>2, <2>3, <2>4 DEF TypeOK
  <1>2. TypeOK /\ [Next]_vars => TypeOK'
    <2> SUFFICES ASSUME TypeOK, [Next]_vars PROVE TypeOK'
      OBVIOUS
    <2> USE DEF queues, memory, inputs, callerVars
    <2>1. CASE Start
      BY <2>1 DEF Start, BackfillMatches, TypeOK
    <2>2. CASE OfferTicket
      BY <2>2, AppendProperties DEF OfferTicket, GetTicket, TypeOK
    <2>3. CASE OfferBackfillTicket
      <3>1. PICK b \in BackfillTickets : GetBackfillTicket(b)
        BY <2>3 DEF OfferBackfillTicket
      <3> DEFINE n == Len(receivedBackfill)
      <3>2. /\ receivedBackfill' \in Seq(BackfillTickets)
            /\ Len(receivedBackfill') = n + 1 /\ n \in Nat /\ Len(proposals) \in Nat
        BY <3>1, AppendProperties, LenProperties DEF GetBackfillTicket, TypeOK
      <3>3. /\ generatedID' \in [1 .. n + 1 -> 0 .. Len(proposals)]
            /\ lastTeam' \in [1 .. n + 1 -> 0 .. Len(proposals)]
        <4> DEFINE S == 0 .. Len(proposals)
        <4>1. 0 \in S /\ generatedID \in [1 .. n -> S] /\ lastTeam \in [1 .. n -> S]
          BY <3>2 DEF TypeOK
        <4> HIDE DEF n, S
        <4>2. Append(generatedID, 0) \in [1 .. n + 1 -> S]
          BY <3>2, <4>1, AppendToFunction
        <4>3. Append(lastTeam, 0) \in [1 .. n + 1 -> S]
          BY <3>2, <4>1, AppendToFunction
        <4> QED BY <3>1, <4>2, <4>3 DEF GetBackfillTicket, S
      <3>4. unmatchedBackfillTickets \in Seq(1 .. n + 1)
        BY <3>2, SeqMonotonic DEF TypeOK
      <3>5. unmatchedBackfillTickets' \in Seq(1 .. n + 1)
        BY <3>1, <3>2, <3>4, AppendProperties DEF GetBackfillTicket
      <3>6. backfillFirst' \in BOOLEAN
        BY <3>1 DEF GetBackfillTicket, TypeOK
      <3> HIDE DEF n
      <3> QED BY <2>3, <3>1, <3>2, <3>3, <3>5, <3>6
              DEF OfferBackfillTicket, GetBackfillTicket, TypeOK
    <2>4. CASE Deliver
      <3>1. SendProposal /\ Len(unmatchedBackfillTickets) \in Nat
        BY <2>4, LenProperties DEF Deliver, TypeOK
      <3>2. unmatchedBackfillTickets' \in Seq(1 .. Len(receivedBackfill))
        BY <3>1, CutType DEF SendProposal, TypeOK
      <3> QED BY <2>4, <3>1, <3>2 DEF Deliver, SendProposal, TypeOK
    <2>5. CASE Release
      BY <2>5 DEF Release, TypeOK
    <2>6. CASE Local
      <3>1. CASE NoMoreTickets \/ NoMoreBackfillTickets \/ CtxDone
        BY <2>6, <3>1 DEF Local, NoMoreTickets, NoMoreBackfillTickets, CtxDone, TypeOK
      <3>2. CASE EndRound \/ IndexPanics
        BY <2>6, <3>2 DEF Local, EndRound, IndexPanics, TypeOK
      <3>3. CASE SkipExcluded
        BY <2>6, <3>3, HeadTailProperties DEF Local, SkipExcluded, TypeOK
      <3>4. CASE Propose
        BY <2>6, <3>4, ProposeType DEF Local, Propose, TypeOK
      <3> QED BY <2>6, <3>1, <3>2, <3>3, <3>4 DEF Local
    <2>7. CASE Caller
      BY <2>7 DEF Caller, TypeOK
    <2>8. CASE Ended \/ UNCHANGED vars
      BY <2>8 DEF Ended, vars, TypeOK
    <2> QED BY <2>1, <2>2, <2>3, <2>4, <2>5, <2>6, <2>7, <2>8 DEF Next
  <1> QED BY <1>1, <1>2, PTL DEF Behaviour

(***************************************************************************)
(* Every variable keeps its type; the numbers in the queue and the memory  *)
(* of the backfill tickets belong to backfill tickets taken.               *)
(***************************************************************************)
THEOREM TypeCorrect == Spec => []TypeOK
  BY TypesKept, PTL DEF Spec, Behaviour

\* The ticket a round takes is the first that has not been used.
LEMMA NextUnused ==
    ASSUME TypeOK, AccountingInv, unmatchedTickets # <<>>
    PROVE  LET h == Len(proposals) + dropped
           IN  /\ h + 1 <= Len(received)
               /\ Head(unmatchedTickets) = received[h + 1]
               /\ Tail(unmatchedTickets) = SubSeq(received, h + 2, Len(received))
  <1> DEFINE h == Len(proposals) + dropped
  <1>1. h \in Nat /\ h <= Len(received) /\ received \in Seq(Tickets)
    BY LenProperties DEF TypeOK, AccountingInv
  <1>2. unmatchedTickets = SubSeq(received, h + 1, Len(received))
    BY DEF AccountingInv, TicketAccounting
  <1> HIDE DEF h
  <1>3. SubSeq(received, h + 1, Len(received)) # <<>>
    BY <1>2
  <1>4. /\ h + 1 <= Len(received)
        /\ Head(SubSeq(received, h + 1, Len(received))) = received[h + 1]
        /\ Tail(SubSeq(received, h + 1, Len(received))) = SubSeq(received, h + 2, Len(received))
    BY <1>1, <1>3, HeadOfSuffix
  <1> QED BY <1>2, <1>4 DEF h

\* The invariant stays true when none of its variables changes.
LEMMA AccountingUnchanged ==
    ASSUME AccountingInv,
           UNCHANGED <<unmatchedTickets, received, receivedBackfill, dropped, proposals>>
    PROVE  AccountingInv'
  BY DEF AccountingInv, TicketAccounting

(***************************************************************************)
(* Every ticket taken is proposed, dropped or unmatched, in the order in   *)
(* which they came, and no ticket is proposed for a session it excludes.   *)
(***************************************************************************)
LEMMA AccountingKept == Behaviour => []AccountingInv
  <1>1. Init => AccountingInv
    <2> SUFFICES ASSUME Init PROVE AccountingInv
      OBVIOUS
    <2>1. Len(proposals) = 0 /\ Len(received) = 0 /\ dropped = 0
      BY EmptySeq DEF Init
    <2>2. SubSeq(received, 0 + 0 + 1, 0) = <<>>
      BY SubSeqEmpty
    <2> QED BY <2>1, <2>2 DEF Init, AccountingInv, TicketAccounting
  <1>2. TypeOK /\ AccountingInv /\ [Next]_vars => AccountingInv'
    <2> SUFFICES ASSUME TypeOK, AccountingInv, [Next]_vars PROVE AccountingInv'
      OBVIOUS
    <2> USE DEF queues, memory, inputs
    <2> DEFINE h == Len(proposals) + dropped
    <2>0. /\ Len(proposals) \in Nat /\ Len(received) \in Nat /\ dropped \in Nat
          /\ Len(receivedBackfill) \in Nat
          /\ h \in 0 .. Len(received)
      BY LenProperties DEF TypeOK, AccountingInv
    <2>1. CASE OfferTicket
      <3>1. PICK t \in Tickets : GetTicket(t)
        BY <2>1 DEF OfferTicket
      <3>2. /\ Len(received') = Len(received) + 1
            /\ \A k \in 1 .. Len(received) : received'[k] = received[k]
        BY <3>1, AppendProperties DEF GetTicket, TypeOK
      <3>3. unmatchedTickets' = SubSeq(received', h + 1, Len(received'))
        <4>1. unmatchedTickets = SubSeq(received, h + 1, Len(received))
          BY DEF AccountingInv, TicketAccounting
        <4>2. received \in Seq(Tickets)
          BY DEF TypeOK
        <4> HIDE DEF h
        <4> QED BY <2>0, <3>1, <4>1, <4>2, AppendToSuffix DEF GetTicket
      <3>4. ASSUME NEW n \in 1 .. Len(proposals)
            PROVE  \E k \in n .. n + dropped : received'[k] = proposals[n].ticket
        <4>1. PICK k \in n .. n + dropped : received[k] = proposals[n].ticket
          BY DEF AccountingInv, TicketAccounting
        <4>2. k \in 1 .. Len(received)
          BY <2>0, <4>1
        <4> QED BY <3>2, <4>1, <4>2
      <3>5. proposals' = proposals /\ dropped' = dropped /\ receivedBackfill' = receivedBackfill
        BY <3>1 DEF GetTicket
      <3>6. h <= Len(received')
        BY <2>0, <3>2
      <3>7. \A n \in 1 .. Len(proposals) :
                receivedBackfill[proposals[n].backfill] \notin Excluded[proposals[n].ticket]
        BY DEF AccountingInv, TicketAccounting
      <3> QED BY <3>3, <3>4, <3>5, <3>6, <3>7 DEF AccountingInv, TicketAccounting
    <2>2. CASE OfferBackfillTicket
      <3>1. PICK b \in BackfillTickets : GetBackfillTicket(b)
        BY <2>2 DEF OfferBackfillTicket
      <3>2. /\ Len(receivedBackfill') = Len(receivedBackfill) + 1
            /\ \A k \in 1 .. Len(receivedBackfill) : receivedBackfill'[k] = receivedBackfill[k]
        BY <3>1, AppendProperties DEF GetBackfillTicket, TypeOK
      <3>3. /\ proposals' = proposals /\ dropped' = dropped /\ received' = received
            /\ unmatchedTickets' = unmatchedTickets
        BY <3>1 DEF GetBackfillTicket
      <3>4. \A n \in 1 .. Len(proposals) :
                /\ proposals[n].backfill \in 1 .. Len(receivedBackfill')
                /\ receivedBackfill'[proposals[n].backfill] \notin Excluded[proposals[n].ticket]
        BY <2>0, <3>2 DEF AccountingInv, TicketAccounting
      <3> QED BY <3>3, <3>4 DEF AccountingInv, TicketAccounting
    <2>3. CASE SkipExcluded
      <3>1. /\ dropped' = dropped + 1 /\ unmatchedTickets # <<>>
            /\ unmatchedTickets' = Tail(unmatchedTickets)
            /\ UNCHANGED <<proposals, received, receivedBackfill>>
        BY <2>3 DEF SkipExcluded
      <3>2. /\ h + 1 <= Len(received)
            /\ unmatchedTickets' = SubSeq(received, h + 2, Len(received))
        BY <3>1, NextUnused
      <3>3. Len(proposals) + dropped' = h + 1 /\ Len(proposals) + dropped' + 1 = h + 2
        BY <2>0, <3>1
      <3>4. \A n \in 1 .. Len(proposals) : n .. n + dropped \subseteq n .. n + dropped'
        BY <2>0, <3>1
      <3> HIDE DEF h
      <3> QED BY <3>1, <3>2, <3>3, <3>4 DEF AccountingInv, TicketAccounting
    <2>4. CASE Propose
      <3> DEFINE b == unmatchedBackfillTickets[i]
                 p == [backfill |-> b, ticket |-> Head(unmatchedTickets)]
      <3>1. /\ unmatchedTickets # <<>> /\ ~IsExcluded
            /\ unmatchedTickets' = Tail(unmatchedTickets)
            /\ proposals' = Append(proposals, p)
            /\ UNCHANGED <<dropped, received, receivedBackfill>>
        BY <2>4 DEF Propose
      <3>2. /\ h + 1 <= Len(received)
            /\ Head(unmatchedTickets) = received[h + 1]
            /\ unmatchedTickets' = SubSeq(received, h + 2, Len(received))
        BY <3>1, NextUnused
      <3>3. b \in 1 .. Len(receivedBackfill)
        BY <2>4, LenProperties, ElementOfSeq DEF Propose, InRange, TypeOK
      <3>4. p \in Proposals
        BY <3>1, <3>3, HeadTailProperties DEF Proposals, TypeOK
      <3>5. /\ Len(proposals') = Len(proposals) + 1
            /\ proposals'[Len(proposals) + 1] = p
            /\ \A n \in 1 .. Len(proposals) : proposals'[n] = proposals[n]
        BY <3>1, <3>4, AppendProperties DEF TypeOK
      <3>6. receivedBackfill[p.backfill] \notin Excluded[p.ticket]
        BY <3>1 DEF IsExcluded
      <3>7. p.backfill = b /\ p.ticket = received[h + 1]
        BY <3>2
      <3>8. h + 1 \in Len(proposals) + 1 .. Len(proposals) + 1 + dropped
        BY <2>0
      <3>9. Len(proposals') + dropped = h + 1 /\ Len(proposals') + dropped + 1 = h + 2
        BY <2>0, <3>5
      <3> HIDE DEF b, p, h
      <3>10. ASSUME NEW n \in 1 .. Len(proposals')
             PROVE  /\ proposals'[n].backfill \in 1 .. Len(receivedBackfill)
                    /\ \E k \in n .. n + dropped : received[k] = proposals'[n].ticket
                    /\ receivedBackfill[proposals'[n].backfill]
                           \notin Excluded[proposals'[n].ticket]
        <4>1. CASE n \in 1 .. Len(proposals)
          BY <4>1, <3>5 DEF AccountingInv, TicketAccounting
        <4>2. CASE n = Len(proposals) + 1
          BY <4>2, <3>3, <3>5, <3>6, <3>7, <3>8
        <4> QED BY <4>1, <4>2, <3>5, <2>0
      <3> QED BY <3>1, <3>2, <3>9, <3>10 DEF AccountingInv, TicketAccounting
    <2>5. CASE Start \/ Deliver \/ Release \/ Caller \/ Ended \/ UNCHANGED vars
      BY <2>5, AccountingUnchanged
         DEF Start, BackfillMatches, Deliver, SendProposal, Release, Caller, Ended, vars
    <2>6. CASE Local /\ ~SkipExcluded /\ ~Propose
      BY <2>6, AccountingUnchanged
         DEF Local, NoMoreTickets, NoMoreBackfillTickets, CtxDone, EndRound, IndexPanics
    <2> QED BY <2>1, <2>2, <2>3, <2>4, <2>5, <2>6 DEF Next
  <1> QED BY <1>1, <1>2, TypesKept, PTL DEF Behaviour

\* In particular the property the runs check.
THEOREM TicketsAccountedFor == Spec => []TicketAccounting
  <1>1. AccountingInv => TicketAccounting
    BY DEF AccountingInv
  <1> QED BY <1>1, AccountingKept, PTL DEF Spec, Behaviour

\* How the tickets of a round run out.
LEMMA PanicsExplained == Behaviour => []PanicInv
  <1>1. Init => PanicInv
    BY DEF Init, PanicInv, PanicNeedsExclusion
  <1>2. TypeOK /\ PanicInv /\ [Next]_vars => PanicInv'
    <2> SUFFICES ASSUME TypeOK, PanicInv, [Next]_vars PROVE PanicInv'
      OBVIOUS
    <2> USE DEF queues, memory, inputs, PanicInv, PanicNeedsExclusion
    <2>0. dropped \in Nat /\ i \in Nat /\ Len(unmatchedBackfillTickets) \in Nat
      BY LenProperties DEF TypeOK
    <2>1. CASE Start \/ OfferTicket \/ OfferBackfillTicket
      BY <2>1, <2>0 DEF Start, BackfillMatches, OfferTicket, GetTicket, OfferBackfillTicket,
                        GetBackfillTicket
    <2>2. CASE Deliver
      BY <2>2, <2>0 DEF Deliver, SendProposal
    <2>3. CASE Local
      <3>1. CASE NoMoreTickets \/ NoMoreBackfillTickets \/ CtxDone \/ EndRound
        BY <3>1, <2>0 DEF NoMoreTickets, NoMoreBackfillTickets, CtxDone, EndRound
      <3>2. CASE IndexPanics
        BY <3>2, <2>0 DEF IndexPanics, InRange
      <3>3. CASE SkipExcluded
        BY <3>3, <2>0 DEF SkipExcluded
      <3>4. CASE Propose
        BY <3>4, <2>0 DEF Propose
      <3> QED BY <2>3, <3>1, <3>2, <3>3, <3>4 DEF Local
    <2>4. CASE Release \/ Caller \/ Ended \/ UNCHANGED vars
      BY <2>4 DEF Release, Caller, Ended, vars
    <2> QED BY <2>1, <2>2, <2>3, <2>4 DEF Next
  <1> QED BY <1>1, <1>2, TypesKept, PTL DEF Behaviour

(***************************************************************************)
(* buildBackfillMatch runs off its tickets only after an exclusion, with   *)
(* two backfill tickets or more in the queue.                              *)
(***************************************************************************)
THEOREM PanicIsExplained == Spec => []PanicNeedsExclusion
  <1>1. PanicInv => PanicNeedsExclusion
    BY DEF PanicInv
  <1> QED BY <1>1, PanicsExplained, PTL DEF Spec, Behaviour

(***************************************************************************)
(* A proposal is sent for a backfill ticket in the queue, and the caller   *)
(* only holds what has been sent.                                          *)
(***************************************************************************)
LEMMA SendsInTurn == Behaviour => []SendInv
  <1>1. Init => SendInv
    BY DEF Init, SendInv
  <1>2. TypeOK /\ SendInv /\ [Next]_vars => SendInv'
    <2> SUFFICES ASSUME TypeOK, SendInv, [Next]_vars PROVE SendInv'
      OBVIOUS
    <2> USE DEF queues, memory, inputs, SendInv
    <2>0. Len(proposals) \in Nat /\ i \in Nat /\ (proposals # <<>> => Len(proposals) >= 1)
      BY EmptySeq, LenProperties DEF TypeOK
    <2>1. CASE Start
      BY <2>1, <2>0 DEF Start, BackfillMatches, callerVars, Sent
    <2>2. CASE OfferTicket
      <3>1. PICK t \in Tickets : GetTicket(t)
        BY <2>2 DEF OfferTicket
      <3>2. received' # <<>>
        <4>1. Len(received') = Len(received) + 1 /\ Len(received) \in Nat
          BY <3>1, AppendProperties, LenProperties DEF GetTicket, TypeOK
        <4>2. Len(<<>>) = 0
          BY EmptySeq
        <4> QED BY <4>1, <4>2
      <3>3. pc = "select" /\ pc' = "build" /\ proposals' = proposals /\ held' = held
        BY <2>2, <3>1 DEF OfferTicket, GetTicket, callerVars
      <3> QED BY <3>2, <3>3 DEF Sent
    <2>3. CASE OfferBackfillTicket
      BY <2>3 DEF OfferBackfillTicket, GetBackfillTicket, callerVars, Sent
    <2>4. CASE Deliver
      BY <2>4, <2>0 DEF Deliver, SendProposal, Sent
    <2>5. CASE Local
      <3>1. CASE NoMoreTickets \/ NoMoreBackfillTickets \/ CtxDone \/ EndRound \/ IndexPanics
        BY <2>5, <3>1 DEF Local, NoMoreTickets, NoMoreBackfillTickets, CtxDone, EndRound,
                          IndexPanics, callerVars, Sent
      <3>2. CASE SkipExcluded
        BY <2>5, <3>2 DEF Local, SkipExcluded, callerVars, Sent
      <3>3. CASE Propose
        <4>1. proposals' \in Seq(Proposals)
          BY <3>3, ProposeType
        <4>2. proposals' # <<>> /\ Len(proposals') = Len(proposals) + 1
          <5> DEFINE p == [backfill |-> unmatchedBackfillTickets[i], ticket |-> Head(unmatchedTickets)]
          <5>1. proposals' = Append(proposals, p)
            BY <3>3 DEF Propose
          <5>2. Len(proposals') = Len(proposals) + 1
            BY <5>1, <2>0 DEF TypeOK
          <5> QED BY <4>1, <5>2, <2>0, EmptySeq
        <4>3. pc = "build" /\ pc' = "send" /\ InRange'
          BY <3>3 DEF Propose, InRange
        <4>4. Sent' = Sent /\ held' = held
          BY <2>5, <2>0, <4>2, <4>3 DEF Local, callerVars, Sent
        <4>5. received' = received /\ received # <<>>
          BY <3>3 DEF Propose
        <4> QED BY <4>2, <4>3, <4>4, <4>5
      <3> QED BY <2>5, <3>1, <3>2, <3>3 DEF Local
    <2>6. CASE Release
      BY <2>6 DEF Release, Sent, InRange
    <2>7. CASE Caller
      BY <2>7 DEF Caller, Sent, InRange
    <2>8. CASE Ended \/ UNCHANGED vars
      BY <2>8 DEF Ended, vars, callerVars, Sent, InRange
    <2> QED BY <2>1, <2>2, <2>3, <2>4, <2>5, <2>6, <2>7, <2>8 DEF Next
  <1> QED BY <1>1, <1>2, TypesKept, PTL DEF Behaviour

\* The proposals after one more has been built.
LEMMA ProposeAppends ==
    ASSUME TypeOK, Propose
    PROVE  /\ i \in 1 .. Len(unmatchedBackfillTickets)
           /\ unmatchedBackfillTickets[i] \in 1 .. Len(receivedBackfill)
           /\ Len(proposals) \in Nat
           /\ Len(proposals') = Len(proposals) + 1
           /\ proposals'[Len(proposals) + 1].backfill = unmatchedBackfillTickets[i]
           /\ \A n \in 1 .. Len(proposals) : proposals'[n] = proposals[n]
  <1> DEFINE p == [backfill |-> unmatchedBackfillTickets[i], ticket |-> Head(unmatchedTickets)]
  <1>1. /\ i \in 1 .. Len(unmatchedBackfillTickets)
        /\ unmatchedBackfillTickets[i] \in 1 .. Len(receivedBackfill)
    BY LenProperties, ElementOfSeq DEF TypeOK, Propose, InRange
  <1>2. Head(unmatchedTickets) \in Tickets
    BY HeadTailProperties DEF TypeOK, Propose
  <1>3. p \in Proposals /\ p.backfill = unmatchedBackfillTickets[i]
    BY <1>1, <1>2 DEF Proposals
  <1>4. proposals' = Append(proposals, p) /\ proposals \in Seq(Proposals)
    BY DEF Propose, TypeOK
  <1> HIDE DEF p
  <1> QED BY <1>1, <1>3, <1>4, AppendProperties, LenProperties

\* A round that takes a ticket is at its first backfill ticket, and the ticket is the
\* only one.
LEMMA FirstOfRound ==
    ASSUME TypeOK, OneTicketAtATime, pc = "build", InRange, unmatchedTickets # <<>>
    PROVE  i = 1 /\ Tail(unmatchedTickets) = <<>>
  <1>1. i \in Nat /\ i >= 1 /\ Len(unmatchedBackfillTickets) \in Nat
    BY LenProperties DEF TypeOK
  <1>2. unmatchedBackfillTickets # <<>>
    BY <1>1, EmptySeq DEF InRange
  <1> QED BY <1>2 DEF OneTicketAtATime

(***************************************************************************)
(* With the backfill tickets first, each of them is proposed once.         *)
(***************************************************************************)
LEMMA ProposedOnce == Behaviour => []FirstInv
  <1> USE DEF queues, memory, inputs
  <1>1. Init => FirstInv
    <2> SUFFICES ASSUME Init PROVE FirstInv
      OBVIOUS
    <2>1. Len(proposals) = 0 /\ Len(unmatchedBackfillTickets) = 0 /\ unmatchedTickets = <<>>
      BY EmptySeq DEF Init
    <2>2. unmatchedBackfillTickets = <<>>
      BY DEF Init
    <2> QED BY <2>1, <2>2 DEF FirstInv, OneProposalEach, QueueDistinct, QueueUnproposed,
                              OneTicketAtATime
  <1>2. TypeOK /\ AccountingInv /\ SendInv /\ FirstInv /\ [Next]_vars => FirstInv'
    <2> SUFFICES ASSUME TypeOK, AccountingInv, SendInv, FirstInv, [Next]_vars PROVE FirstInv'
      OBVIOUS
    <2> DEFINE q == unmatchedBackfillTickets
    <2>0. /\ Len(proposals) \in Nat /\ Len(q) \in Nat /\ Len(receivedBackfill) \in Nat
          /\ i \in Nat /\ i >= 1
      BY LenProperties DEF TypeOK
    <2>1. CASE OfferTicket
      <3>1. PICK t \in Tickets : GetTicket(t)
        BY <2>1 DEF OfferTicket
      <3>2. ASSUME unmatchedTickets = <<>> PROVE Tail(unmatchedTickets') = <<>>
        BY <3>1, <3>2, HeadTailAppend DEF GetTicket, TypeOK
      <3>3. /\ pc = "select" /\ pc' = "build" /\ i' = 1
            /\ UNCHANGED <<proposals, unmatchedBackfillTickets, backfillFirst>>
        BY <3>1 DEF GetTicket
      <3>4. OneProposalEach'
        BY <3>3 DEF FirstInv, OneProposalEach
      <3>5. ASSUME backfillFirst PROVE (QueueDistinct /\ QueueUnproposed)'
        BY <3>3, <3>5 DEF FirstInv, QueueDistinct, QueueUnproposed
      <3>6. ASSUME backfillFirst PROVE OneTicketAtATime'
        <4>1. unmatchedBackfillTickets # <<>> => Tail(unmatchedTickets') = <<>>
          BY <3>2, <3>3, <3>6 DEF FirstInv, OneTicketAtATime
        <4>2. pc' = "build" /\ i' = 1 /\ unmatchedBackfillTickets' = unmatchedBackfillTickets
          BY <3>3
        <4> QED BY <4>1, <4>2 DEF OneTicketAtATime
      <3> QED BY <3>3, <3>4, <3>5, <3>6 DEF FirstInv
    <2>2. CASE OfferBackfillTicket
      <3>1. PICK b \in BackfillTickets : GetBackfillTicket(b)
        BY <2>2 DEF OfferBackfillTicket
      <3> DEFINE new == Len(receivedBackfill) + 1
      <3>2. /\ pc = "select" /\ pc' = "build" /\ i' = 1
            /\ UNCHANGED <<proposals, unmatchedTickets>>
            /\ backfillFirst' => backfillFirst /\ received = <<>>
        BY <3>1 DEF GetBackfillTicket
      <3>3. Len(receivedBackfill') = new
        BY <3>1, AppendProperties DEF GetBackfillTicket, TypeOK
      <3>4. unmatchedBackfillTickets' = Append(q, new)
        BY <3>1, <3>3 DEF GetBackfillTicket
      <3>5. q \in Seq(Nat) /\ new \in Nat /\ \A k \in 1 .. Len(q) : q[k] \in 1 .. Len(receivedBackfill)
        <4>1. q \in Seq(1 .. Len(receivedBackfill))
          BY DEF TypeOK
        <4>2. 1 .. Len(receivedBackfill) \subseteq Nat
          BY <2>0
        <4>3. \A k \in 1 .. Len(q) : q[k] \in 1 .. Len(receivedBackfill)
          BY <4>1, ElementOfSeq
        <4> HIDE DEF q
        <4> QED BY <2>0, <4>1, <4>2, <4>3, SeqMonotonic
      <3> HIDE DEF q, new
      <3>6. /\ Len(unmatchedBackfillTickets') = Len(q) + 1
            /\ unmatchedBackfillTickets'[Len(q) + 1] = new
            /\ \A k \in 1 .. Len(q) : unmatchedBackfillTickets'[k] = q[k]
        BY <3>4, <3>5, AppendProperties
      <3>7. OneProposalEach'
        BY <3>2 DEF FirstInv, OneProposalEach
      <3>8. ASSUME backfillFirst' PROVE QueueDistinct'
        <4>1. \A j, k \in 1 .. Len(q) : q[j] = q[k] => j = k
          BY <3>2, <3>8 DEF FirstInv, QueueDistinct, q
        <4>2. \A k \in 1 .. Len(q) : q[k] # new
          BY <2>0, <3>5 DEF new
        <4> QED BY <2>0, <3>6, <4>1, <4>2 DEF QueueDistinct, q
      <3>9. ASSUME backfillFirst' PROVE QueueUnproposed'
        <4>1. \A n \in 1 .. Len(proposals), k \in 1 .. Len(q) : proposals[n].backfill # q[k]
          BY <3>2, <3>9 DEF FirstInv, QueueUnproposed, q
        <4>2. \A n \in 1 .. Len(proposals) : proposals[n].backfill # new
          BY <2>0 DEF AccountingInv, new
        <4> QED BY <2>0, <3>2, <3>6, <4>1, <4>2 DEF QueueUnproposed, q
      <3>10. ASSUME backfillFirst' PROVE OneTicketAtATime'
        <4>1. unmatchedTickets' = <<>> /\ Len(<<>>) = 0
          BY <3>2, <3>10, EmptySeq DEF SendInv
        <4> QED BY <3>2, <4>1 DEF OneTicketAtATime
      <3> QED BY <3>7, <3>8, <3>9, <3>10 DEF FirstInv
    <2>3. CASE Deliver
      <3>1. SendProposal /\ pc = "send" /\ i <= Len(q)
        BY <2>3 DEF Deliver, SendProposal, SendInv, InRange
      <3>2. proposals' = proposals /\ backfillFirst' = backfillFirst
        BY <3>1 DEF SendProposal
      <3>3. OneProposalEach'
        BY <3>2 DEF FirstInv, OneProposalEach
      <3>4. CASE backfillFirst
        <4>1. q # <<>> /\ unmatchedTickets = <<>>
          BY <2>0, <3>1, <3>4, EmptySeq DEF FirstInv, OneTicketAtATime
        <4>2. /\ unmatchedBackfillTickets' = SubSeq(q, i + 1, Len(q))
              /\ pc' = "select" /\ unmatchedTickets' = <<>>
          BY <3>1, <4>1 DEF SendProposal
        <4>3. \A k \in i + 1 .. Len(q) : q[k] \in 1 .. Len(receivedBackfill)
          BY <2>0, ElementOfSeq DEF TypeOK
        <4> HIDE DEF q
        <4>4. /\ Len(unmatchedBackfillTickets') = Len(q) - i
              /\ \A k \in 1 .. Len(q) - i : unmatchedBackfillTickets'[k] = q[i + k]
          <5>1. i + 1 \in Int /\ Len(q) \in Int
            BY <2>0
          <5>2. /\ Len(SubSeq(q, i + 1, Len(q))) = IF i + 1 <= Len(q) THEN Len(q) - (i + 1) + 1 ELSE 0
                /\ \A k \in 1 .. Len(q) - (i + 1) + 1 : SubSeq(q, i + 1, Len(q))[k] = q[i + 1 + k - 1]
            BY <5>1, <4>3, SubSeqProperties
          <5>3. Len(SubSeq(q, i + 1, Len(q))) = Len(q) - i
            BY <2>0, <3>1, <5>2
          <5>4. ASSUME NEW k \in 1 .. Len(q) - i PROVE SubSeq(q, i + 1, Len(q))[k] = q[i + k]
            <6>1. k \in 1 .. Len(q) - (i + 1) + 1 /\ i + 1 + k - 1 = i + k
              BY <2>0
            <6> QED BY <6>1, <5>2
          <5> QED BY <4>2, <5>3, <5>4
        <4>5. \A k \in 1 .. Len(q) - i : i + k \in 1 .. Len(q) /\ i + k > i
          BY <2>0
        <4>6. QueueDistinct'
          <5>1. \A j, k \in 1 .. Len(q) : q[j] = q[k] => j = k
            BY <3>4 DEF FirstInv, QueueDistinct, q
          <5>2. ASSUME NEW j \in 1 .. Len(q) - i, NEW k \in 1 .. Len(q) - i, q[i + j] = q[i + k]
                PROVE  j = k
            <6>1. i + j = i + k
              BY <4>5, <5>1, <5>2
            <6> QED BY <2>0, <6>1
          <5> QED BY <4>4, <5>2 DEF QueueDistinct
        <4>7. QueueUnproposed'
          <5>1. \A n \in 1 .. Len(proposals), k \in 1 .. Len(q) :
                    k > i => proposals[n].backfill # q[k]
            BY <3>4 DEF FirstInv, QueueUnproposed, q
          <5>2. \A n \in 1 .. Len(proposals), k \in 1 .. Len(q) - i :
                    proposals[n].backfill # q[i + k]
            BY <4>5, <5>1
          <5> QED BY <3>2, <4>4, <5>2 DEF QueueUnproposed
        <4>8. OneTicketAtATime'
          BY <4>2 DEF OneTicketAtATime
        <4> QED BY <3>3, <4>6, <4>7, <4>8 DEF FirstInv
      <3> QED BY <3>2, <3>3, <3>4 DEF FirstInv
    <2>4. CASE SkipExcluded
      <3>1. /\ pc = "build" /\ pc' = "build" /\ i' = i + 1 /\ InRange /\ unmatchedTickets # <<>>
            /\ unmatchedTickets' = Tail(unmatchedTickets)
            /\ UNCHANGED <<proposals, unmatchedBackfillTickets, backfillFirst>>
        BY <2>4 DEF SkipExcluded
      <3>2. OneProposalEach'
        BY <3>1 DEF FirstInv, OneProposalEach
      <3>3. ASSUME backfillFirst PROVE (QueueDistinct /\ QueueUnproposed)'
        BY <3>1, <3>3 DEF FirstInv, QueueDistinct, QueueUnproposed
      <3>4. ASSUME backfillFirst PROVE OneTicketAtATime'
        <4>1. i = 1 /\ unmatchedTickets' = <<>>
          BY <3>1, <3>4, FirstOfRound DEF FirstInv
        <4> QED BY <3>1, <4>1 DEF OneTicketAtATime
      <3> QED BY <3>1, <3>2, <3>3, <3>4 DEF FirstInv
    <2>5. CASE Propose
      <3>1. /\ pc = "build" /\ pc' = "send" /\ InRange /\ unmatchedTickets # <<>>
            /\ unmatchedTickets' = Tail(unmatchedTickets)
            /\ UNCHANGED <<i, unmatchedBackfillTickets, backfillFirst>>
        BY <2>5 DEF Propose
      <3> DEFINE last == Len(proposals) + 1
      <3>2. /\ i \in 1 .. Len(q)
            /\ Len(proposals') = last
            /\ proposals'[last].backfill = q[i]
            /\ \A n \in 1 .. Len(proposals) : proposals'[n] = proposals[n]
        BY <2>5, ProposeAppends
      <3>3. CASE backfillFirst
        <4>1. i = 1 /\ unmatchedTickets' = <<>>
          BY <3>1, <3>3, FirstOfRound DEF FirstInv
        <4>2. \A n \in 1 .. Len(proposals), j \in 1 .. Len(q) : proposals[n].backfill # q[j]
          BY <3>1, <3>3 DEF FirstInv, QueueUnproposed
        <4>3. \A j, k \in 1 .. Len(q) : q[j] = q[k] => j = k
          BY <3>3 DEF FirstInv, QueueDistinct
        <4>4. QueueDistinct'
          BY <3>1, <4>3 DEF QueueDistinct
        <4>5. QueueUnproposed'
          <5> SUFFICES ASSUME NEW n \in 1 .. last, NEW j \in 1 .. Len(q), n < last \/ j > i
                       PROVE  proposals'[n].backfill # q[j]
            BY <3>1, <3>2 DEF QueueUnproposed
          <5>1. CASE n < last
            BY <2>0, <3>2, <4>2, <5>1
          <5>2. CASE n = last
            BY <2>0, <3>2, <4>3, <5>2
          <5> QED BY <2>0, <5>1, <5>2
        <4>6. OneProposalEach'
          <5>1. \A m, n \in 1 .. Len(proposals) :
                    proposals[m].backfill = proposals[n].backfill => m = n
            BY <3>3 DEF FirstInv, OneProposalEach
          <5>2. \A n \in 1 .. Len(proposals) : proposals'[n].backfill # q[i]
            BY <3>2, <4>2
          <5> QED BY <2>0, <3>2, <5>1, <5>2 DEF OneProposalEach
        <4>7. OneTicketAtATime'
          BY <3>1, <4>1 DEF OneTicketAtATime
        <4> QED BY <4>4, <4>5, <4>6, <4>7 DEF FirstInv
      <3>4. CASE ~backfillFirst
        BY <3>1, <3>4 DEF FirstInv, OneProposalEach
      <3> QED BY <3>3, <3>4
    <2>6. CASE EndRound
      <3>1. /\ pc = "build" /\ pc' = "select" /\ (~InRange \/ unmatchedTickets = <<>>)
            /\ UNCHANGED <<i, proposals, queues, backfillFirst>>
        BY <2>6 DEF EndRound
      <3>2. OneProposalEach'
        BY <3>1 DEF FirstInv, OneProposalEach
      <3>3. ASSUME backfillFirst PROVE (QueueDistinct /\ QueueUnproposed)'
        BY <3>1, <3>3 DEF FirstInv, QueueDistinct, QueueUnproposed
      <3>4. ASSUME backfillFirst PROVE OneTicketAtATime'
        <4>1. q # <<>> => Len(q) >= 1
          BY <2>0, EmptySeq DEF TypeOK
        <4>2. q # <<>> => unmatchedTickets = <<>>
          BY <2>0, <3>1, <3>4, <4>1 DEF FirstInv, OneTicketAtATime, InRange
        <4> QED BY <3>1, <4>2 DEF OneTicketAtATime
      <3> QED BY <3>1, <3>2, <3>3, <3>4 DEF FirstInv
    <2>7. CASE Start \/ NoMoreTickets \/ NoMoreBackfillTickets \/ CtxDone \/ IndexPanics
      <3>1. /\ pc # "send" /\ pc' \in {"select", "closed", "panic"}
            /\ pc' = "select" => pc \in {"off", "select"}
            /\ UNCHANGED <<proposals, queues, backfillFirst>>
        BY <2>7 DEF Start, BackfillMatches, NoMoreTickets, NoMoreBackfillTickets, CtxDone,
                    IndexPanics
      <3> QED BY <3>1 DEF FirstInv, OneProposalEach, QueueDistinct, QueueUnproposed,
                          OneTicketAtATime
    <2>8. CASE Release \/ Caller \/ Ended \/ UNCHANGED vars
      <3>1. UNCHANGED <<pc, i, proposals, queues, backfillFirst>>
        BY <2>8 DEF Release, Caller, Ended, vars
      <3> QED BY <3>1 DEF FirstInv, OneProposalEach, QueueDistinct, QueueUnproposed,
                          OneTicketAtATime
    <2> QED BY <2>1, <2>2, <2>3, <2>4, <2>5, <2>6, <2>7, <2>8 DEF Next, Local
  <1> QED BY <1>1, <1>2, TypesKept, AccountingKept, SendsInTurn, PTL DEF Behaviour

\* In particular the property the runs check.
THEOREM OneProposalForEach == Spec => []OneProposalEach
  <1>1. FirstInv => OneProposalEach
    BY DEF FirstInv
  <1> QED BY <1>1, ProposedOnce, PTL DEF Spec, Behaviour

\* The memory of the backfill ticket proposed, and of the others.
LEMMA ProposeWrites ==
    ASSUME TypeOK, Propose
    PROVE  /\ generatedID'[unmatchedBackfillTickets[i]] = Len(proposals) + 1
           /\ receivedBackfill[unmatchedBackfillTickets[i]] \in RoomForATeam
                 => lastTeam'[unmatchedBackfillTickets[i]] = Len(proposals) + 1
           /\ \A b \in 1 .. Len(receivedBackfill) :
                 b # unmatchedBackfillTickets[i] =>
                     generatedID'[b] = generatedID[b] /\ lastTeam'[b] = lastTeam[b]
  <1> DEFINE b == unmatchedBackfillTickets[i]
             n == Len(proposals) + 1
  <1>1. b \in 1 .. Len(receivedBackfill) /\ Len(proposals') = n
    BY ProposeAppends
  <1>2. /\ generatedID' = [generatedID EXCEPT ![b] = n]
        /\ lastTeam' = IF receivedBackfill[b] \in RoomForATeam
                       THEN [lastTeam EXCEPT ![b] = n] ELSE lastTeam
    BY <1>1 DEF Propose
  <1>3. DOMAIN generatedID = 1 .. Len(receivedBackfill) /\ DOMAIN lastTeam = 1 .. Len(receivedBackfill)
    BY DEF TypeOK
  <1> HIDE DEF b, n
  <1>4. /\ generatedID'[b] = n
        /\ receivedBackfill[b] \in RoomForATeam => lastTeam'[b] = n
        /\ \A c \in 1 .. Len(receivedBackfill) :
              c # b => generatedID'[c] = generatedID[c] /\ lastTeam'[c] = lastTeam[c]
    BY <1>1, <1>2, <1>3
  <1> QED BY <1>4 DEF b, n

(***************************************************************************)
(* With the backfill tickets first, nothing writes to the attributes or    *)
(* the teams of a proposal after it has been built.                        *)
(***************************************************************************)
LEMMA MemoryKept == Behaviour => []MemoryInv
  <1> USE DEF queues, memory, inputs
  <1>1. Init => MemoryInv
    <2> SUFFICES ASSUME Init PROVE MemoryInv
      OBVIOUS
    <2>1. Len(proposals) = 0
      BY EmptySeq DEF Init
    <2> QED BY <2>1 DEF MemoryInv
  <1>2. TypeOK /\ AccountingInv /\ FirstInv /\ MemoryInv /\ [Next]_vars => MemoryInv'
    <2> SUFFICES ASSUME TypeOK, AccountingInv, FirstInv, MemoryInv, [Next]_vars PROVE MemoryInv'
      OBVIOUS
    <2>0. Len(proposals) \in Nat /\ Len(receivedBackfill) \in Nat
      BY LenProperties DEF TypeOK
    <2>1. CASE OfferBackfillTicket
      <3>1. PICK b \in BackfillTickets : GetBackfillTicket(b)
        BY <2>1 DEF OfferBackfillTicket
      <3> DEFINE n == Len(receivedBackfill)
                 S == 0 .. Len(proposals)
      <3>2. \A k \in 1 .. n : receivedBackfill'[k] = receivedBackfill[k]
        BY <3>1, AppendProperties DEF GetBackfillTicket, TypeOK
      <3>3. generatedID' = Append(generatedID, 0) /\ lastTeam' = Append(lastTeam, 0)
        BY <3>1 DEF GetBackfillTicket
      <3>4. 0 \in S /\ n \in Nat /\ generatedID \in [1 .. n -> S] /\ lastTeam \in [1 .. n -> S]
        BY <2>0 DEF TypeOK
      <3>5. \A k \in 1 .. Len(proposals) : proposals[k].backfill \in 1 .. n
        BY DEF AccountingInv
      <3>6. proposals' = proposals /\ (backfillFirst' => backfillFirst)
        BY <3>1 DEF GetBackfillTicket
      <3> HIDE DEF n, S
      <3>7. \A k \in 1 .. n : generatedID'[k] = generatedID[k] /\ lastTeam'[k] = lastTeam[k]
        BY <3>3, <3>4, AppendToFunction
      <3> QED BY <3>2, <3>5, <3>6, <3>7 DEF MemoryInv
    <2>2. CASE Propose
      <3> DEFINE b == unmatchedBackfillTickets[i]
                 last == Len(proposals) + 1
      <3>1. /\ i \in 1 .. Len(unmatchedBackfillTickets)
            /\ b \in 1 .. Len(receivedBackfill)
            /\ Len(proposals') = last
            /\ proposals'[last].backfill = b
            /\ \A n \in 1 .. Len(proposals) : proposals'[n] = proposals[n]
        BY <2>2, ProposeAppends
      <3>2. /\ generatedID'[b] = last
            /\ receivedBackfill[b] \in RoomForATeam => lastTeam'[b] = last
            /\ \A c \in 1 .. Len(receivedBackfill) :
                  c # b => generatedID'[c] = generatedID[c] /\ lastTeam'[c] = lastTeam[c]
        BY <2>2, ProposeWrites
      <3>3. pc = "build" /\ backfillFirst' = backfillFirst /\ receivedBackfill' = receivedBackfill
        BY <2>2 DEF Propose
      <3>4. ASSUME backfillFirst PROVE \A n \in 1 .. Len(proposals) : proposals[n].backfill # b
        BY <3>1, <3>3, <3>4 DEF FirstInv, QueueUnproposed
      <3>5. \A n \in 1 .. Len(proposals) : proposals[n].backfill \in 1 .. Len(receivedBackfill)
        BY DEF AccountingInv
      <3> HIDE DEF b, last
      <3>6. ASSUME backfillFirst, NEW n \in 1 .. last
            PROVE  /\ generatedID'[proposals'[n].backfill] = n
                   /\ receivedBackfill[proposals'[n].backfill] \in RoomForATeam
                         => lastTeam'[proposals'[n].backfill] = n
        <4>1. CASE n = last
          BY <3>1, <3>2, <4>1
        <4>2. CASE n # last
          <5>1. n \in 1 .. Len(proposals)
            BY <2>0, <4>2 DEF last
          <5>2. /\ generatedID[proposals[n].backfill] = n
                /\ receivedBackfill[proposals[n].backfill] \in RoomForATeam
                      => lastTeam[proposals[n].backfill] = n
            BY <3>6, <5>1 DEF MemoryInv
          <5> QED BY <3>1, <3>2, <3>4, <3>5, <3>6, <5>1, <5>2
        <4> QED BY <4>1, <4>2
      <3> QED BY <3>1, <3>3, <3>6 DEF MemoryInv
    <2>3. CASE \/ Start \/ OfferTicket \/ Deliver \/ Release \/ Caller \/ Ended \/ UNCHANGED vars
               \/ NoMoreTickets \/ NoMoreBackfillTickets \/ CtxDone
               \/ EndRound \/ IndexPanics \/ SkipExcluded
      <3>1. UNCHANGED <<memory, receivedBackfill, proposals, backfillFirst>>
        BY <2>3 DEF Start, BackfillMatches, OfferTicket, GetTicket, Deliver, SendProposal, Release,
                    Caller, Ended, vars, NoMoreTickets, NoMoreBackfillTickets, CtxDone, EndRound,
                    IndexPanics, SkipExcluded
      <3> QED BY <3>1 DEF MemoryInv
    <2> QED BY <2>1, <2>2, <2>3 DEF Next, Local
  <1> QED BY <1>1, <1>2, TypesKept, AccountingKept, ProposedOnce, PTL DEF Behaviour

\* In particular the proposal the caller is working on is as it was sent.
THEOREM HeldProposalsIntact == Spec => []IntactWhenBackfillFirst
  <1>1. TypeOK /\ SendInv /\ MemoryInv => IntactWhenBackfillFirst
    <2> SUFFICES ASSUME TypeOK, SendInv, MemoryInv, backfillFirst, held PROVE HeldProposalIntact
      BY DEF IntactWhenBackfillFirst, HeldProposalIntact
    <2>1. Len(proposals) \in Nat
      BY LenProperties DEF TypeOK
    <2>2. Sent >= 1
      BY DEF SendInv
    <2>3. Sent \in 1 .. Len(proposals)
      BY <2>1, <2>2 DEF Sent
    <2> QED BY <2>3 DEF MemoryInv, HeldProposalIntact
  <1> QED BY <1>1, TypesKept, SendsInTurn, MemoryKept, PTL DEF Spec, Behaviour
(***************************************************************************)
(* The queue only grows with a backfill ticket taken, and a proposal only  *)
(* leaves its team behind where append found a free slot.                  *)
(***************************************************************************)
LEMMA RoomKept == Behaviour => []RoomInv
  <1> USE DEF queues, memory, inputs
  <1>1. Init => RoomInv
    <2> SUFFICES ASSUME Init PROVE RoomInv
      OBVIOUS
    <2>1. Len(unmatchedBackfillTickets) = 0 /\ Len(receivedBackfill) = 0
      BY EmptySeq DEF Init
    <2> QED BY <2>1 DEF RoomInv
  <1>2. TypeOK /\ SendInv /\ RoomInv /\ [Next]_vars => RoomInv'
    <2> SUFFICES ASSUME TypeOK, SendInv, RoomInv, [Next]_vars PROVE RoomInv'
      OBVIOUS
    <2> DEFINE q == unmatchedBackfillTickets
               n == Len(receivedBackfill)
    <2>0. Len(q) \in Nat /\ n \in Nat /\ i \in Nat
      BY LenProperties DEF TypeOK
    <2>1. CASE OfferBackfillTicket
      <3>1. PICK b \in BackfillTickets : GetBackfillTicket(b)
        BY <2>1 DEF OfferBackfillTicket
      <3>2. /\ Len(receivedBackfill') = n + 1
            /\ \A k \in 1 .. n : receivedBackfill'[k] = receivedBackfill[k]
        BY <3>1, AppendProperties DEF GetBackfillTicket, TypeOK
      <3>3. Len(unmatchedBackfillTickets') = Len(q) + 1
        <4>1. unmatchedBackfillTickets' = Append(q, n + 1)
          BY <3>1, <3>2 DEF GetBackfillTicket
        <4>2. q \in Seq(Nat)
          <5>1. 1 .. n \subseteq Nat
            BY <2>0
          <5> QED BY <5>1, SeqMonotonic DEF TypeOK
        <4> HIDE DEF q, n
        <4> QED BY <2>0, <4>1, <4>2, AppendProperties
      <3>4. lastTeam'[n + 1] = 0 /\ \A k \in 1 .. n : lastTeam'[k] = lastTeam[k]
        <4> DEFINE S == 0 .. Len(proposals)
        <4>1. lastTeam' = Append(lastTeam, 0) /\ lastTeam \in [1 .. n -> S] /\ 0 \in S
          BY <3>1, LenProperties DEF GetBackfillTicket, TypeOK
        <4> HIDE DEF S, n
        <4> QED BY <2>0, <4>1, AppendToFunction
      <3> QED BY <2>0, <3>2, <3>3, <3>4 DEF RoomInv
    <2>2. CASE Deliver
      <3>1. UNCHANGED <<receivedBackfill, lastTeam>> /\ SendProposal /\ pc = "send" /\ i <= Len(q)
        BY <2>2 DEF Deliver, SendProposal, SendInv, InRange
      <3>2. Len(unmatchedBackfillTickets') <= Len(q)
        <4>1. CASE unmatchedTickets # <<>>
          BY <2>0, <3>1, <4>1 DEF SendProposal
        <4>2. CASE unmatchedTickets = <<>>
          <5>1. unmatchedBackfillTickets' = SubSeq(q, i + 1, Len(q))
            BY <3>1, <4>2 DEF SendProposal
          <5>2. \A k \in i + 1 .. Len(q) : q[k] \in 1 .. n
            BY <2>0, ElementOfSeq DEF TypeOK
          <5>3. i + 1 \in Int /\ Len(q) \in Int
            BY <2>0
          <5> HIDE DEF q, n
          <5>4. Len(SubSeq(q, i + 1, Len(q))) =
                    IF i + 1 <= Len(q) THEN Len(q) - (i + 1) + 1 ELSE 0
            BY <5>2, <5>3, SubSeqProperties
          <5> QED BY <2>0, <5>1, <5>4
        <4> QED BY <4>1, <4>2
      <3> QED BY <2>0, <3>1, <3>2 DEF RoomInv
    <2>3. CASE Propose
      <3>1. /\ UNCHANGED <<receivedBackfill, unmatchedBackfillTickets>>
            /\ lastTeam' = IF receivedBackfill[q[i]] \in RoomForATeam
                           THEN [lastTeam EXCEPT ![q[i]] = Len(proposals) + 1] ELSE lastTeam
        BY <2>3 DEF Propose
      <3>2. ASSUME NEW b \in 1 .. n, receivedBackfill[b] \notin RoomForATeam
            PROVE  lastTeam'[b] = lastTeam[b]
        BY <3>1, <3>2 DEF TypeOK
      <3> QED BY <3>1, <3>2 DEF RoomInv
    <2>4. CASE \/ Start \/ OfferTicket \/ Release \/ Caller \/ Ended \/ UNCHANGED vars
               \/ NoMoreTickets \/ NoMoreBackfillTickets \/ CtxDone
               \/ EndRound \/ IndexPanics \/ SkipExcluded
      <3>1. UNCHANGED <<unmatchedBackfillTickets, receivedBackfill, lastTeam>>
        BY <2>4 DEF Start, BackfillMatches, OfferTicket, GetTicket, Release, Caller, Ended, vars,
                    NoMoreTickets, NoMoreBackfillTickets, CtxDone, EndRound, IndexPanics, SkipExcluded
      <3> QED BY <3>1 DEF RoomInv
    <2> QED BY <2>1, <2>2, <2>3, <2>4 DEF Next, Local
  <1> QED BY <1>1, <1>2, TypesKept, SendsInTurn, PTL DEF Behaviour

\* All of them together, for the module that composes the goroutine with its caller.
LEMMA BackfillMakerInvHolds == Behaviour => []BackfillMakerInv
  BY TypesKept, AccountingKept, PanicsExplained, SendsInTurn, ProposedOnce, MemoryKept, RoomKept, PTL
     DEF BackfillMakerInv

=============================================================================
