-------------------------- MODULE MatchMakerProofs --------------------------
(***************************************************************************)
(* What MakeMatches guarantees for every set of rules and tickets and any  *)
(* number of them. The invariants build on each other: the types, then the *)
(* rules, the accounting of the tickets, and the sizes.                    *)
(***************************************************************************)
EXTENDS MatchMaker, GameRulesProofs, SequenceTheorems

-----------------------------------------------------------------------------
(***************************************************************************)
(* The slice of the goroutine: reading, cutting and appending to a slice   *)
(* that holds the last tickets of all those received.                      *)
(***************************************************************************)
\* The first n elements of a slice.
LEMMA MatchTickets ==
    ASSUME NEW S, NEW s \in Seq(S), NEW n \in 0 .. Len(s)
    PROVE  /\ SubSeq(s, 1, n) \in Seq(S)
           /\ Len(SubSeq(s, 1, n)) = n
  <1>1. Len(s) \in Nat /\ \A i \in 1 .. n : s[i] \in S
    BY LenProperties
  <1> QED BY <1>1, SubSeqProperties

\* A slice without its first n elements.
LEMMA CutType ==
    ASSUME NEW S, NEW s \in Seq(S), NEW n \in Nat
    PROVE  SubSeq(s, n + 1, Len(s)) \in Seq(S)
  <1>1. Len(s) \in Nat /\ \A i \in n + 1 .. Len(s) : s[i] \in S
    BY LenProperties
  <1> QED BY <1>1, SubSeqProperties

\* A suffix of the tickets received, after one more has been received.
LEMMA AppendToSuffix ==
    ASSUME NEW S, NEW s \in Seq(S), NEW e \in S, NEW h \in 0 .. Len(s)
    PROVE  Append(SubSeq(s, h + 1, Len(s)), e) =
               SubSeq(Append(s, e), h + 1, Len(Append(s, e)))
  <1> DEFINE u == SubSeq(s, h + 1, Len(s))
             v == Append(s, e)
             w == SubSeq(v, h + 1, Len(v))
  <1>1. Len(s) \in Nat /\ \A i \in 1 .. Len(s) : s[i] \in S
    BY LenProperties
  <1>2. /\ v \in Seq(S) /\ Len(v) = Len(s) + 1
        /\ v[Len(s) + 1] = e
        /\ \A i \in 1 .. Len(s) : v[i] = s[i]
    BY AppendProperties
  <1>3. \A i \in h + 1 .. Len(v) : v[i] \in S
    BY <1>1, <1>2
  <1>4. /\ u \in Seq(S) /\ Len(u) = Len(s) - h
        /\ \A i \in 1 .. Len(s) - h : u[i] = s[h + i]
    BY <1>1, SubSeqProperties
  <1> HIDE DEF v, u
  <1>5. /\ w \in Seq(S) /\ Len(w) = Len(s) + 1 - h
        /\ \A i \in 1 .. Len(s) + 1 - h : w[i] = v[h + i]
    BY <1>1, <1>2, <1>3, SubSeqProperties
  <1> HIDE DEF w
  <1>6. /\ Append(u, e) \in Seq(S) /\ Len(Append(u, e)) = Len(u) + 1
        /\ Append(u, e)[Len(u) + 1] = e
        /\ \A i \in 1 .. Len(u) : Append(u, e)[i] = u[i]
    BY <1>4, AppendProperties
  <1>7. \A i \in 1 .. Len(w) : Append(u, e)[i] = w[i]
    BY <1>1, <1>2, <1>4, <1>5, <1>6
  <1>8. Len(Append(u, e)) = Len(w)
    BY <1>1, <1>4, <1>5, <1>6
  <1>9. Append(u, e) = w
    BY <1>5, <1>6, <1>7, <1>8, SeqEqual
  <1> QED BY <1>9 DEF u, v, w

\* A suffix of the tickets received, after its first n have been cut.
LEMMA CutSuffix ==
    ASSUME NEW S, NEW s \in Seq(S), NEW h \in 0 .. Len(s), NEW n \in 0 .. Len(s) - h
    PROVE  LET u == SubSeq(s, h + 1, Len(s))
           IN  /\ Len(u) = Len(s) - h
               /\ SubSeq(u, n + 1, Len(u)) = SubSeq(s, h + n + 1, Len(s))
  <1> DEFINE u == SubSeq(s, h + 1, Len(s))
             v == SubSeq(u, n + 1, Len(u))
             w == SubSeq(s, h + n + 1, Len(s))
  <1>1. Len(s) \in Nat /\ \A i \in 1 .. Len(s) : s[i] \in S
    BY LenProperties
  <1>2. /\ u \in Seq(S) /\ Len(u) = Len(s) - h
        /\ \A i \in 1 .. Len(s) - h : u[i] = s[h + i]
    BY <1>1, SubSeqProperties
  <1>3. /\ w \in Seq(S) /\ Len(w) = Len(s) - h - n
        /\ \A i \in 1 .. Len(s) - h - n : w[i] = s[h + n + i]
    BY <1>1, SubSeqProperties
  <1> HIDE DEF u, w
  <1>4. \A i \in n + 1 .. Len(u) : u[i] \in S
    BY <1>1, <1>2
  <1>5. /\ v \in Seq(S) /\ Len(v) = Len(s) - h - n
        /\ \A i \in 1 .. Len(s) - h - n : v[i] = u[n + i]
    BY <1>1, <1>2, <1>4, SubSeqProperties
  <1> HIDE DEF v
  <1>6. ASSUME NEW i \in 1 .. Len(v) PROVE v[i] = w[i]
    <2>1. i \in 1 .. Len(s) - h - n /\ n + i \in 1 .. Len(s) - h
      BY <1>1, <1>5
    <2>2. v[i] = u[n + i] /\ u[n + i] = s[h + (n + i)]
      BY <2>1, <1>2, <1>5
    <2>3. w[i] = s[h + n + i]
      BY <2>1, <1>3
    <2>4. h + (n + i) = h + n + i
      BY <1>1, <2>1
    <2> QED BY <2>2, <2>3, <2>4
  <1>7. v = w
    BY <1>3, <1>5, <1>6, SeqEqual
  <1> QED BY <1>2, <1>7 DEF u, v, w

\* The oldest n of the tickets that are left of those received.
LEMMA PrefixOfSuffix ==
    ASSUME NEW S, NEW s \in Seq(S), NEW h \in 0 .. Len(s), NEW n \in 1 .. Len(s) - h
    PROVE  SubSeq(SubSeq(s, h + 1, Len(s)), 1, n) = SubSeq(s, h + 1, h + n)
  <1>1. /\ Len(s) \in Nat
        /\ h + 1 \in 1 .. Len(s) /\ Len(s) \in 1 .. Len(s)
        /\ 1 \in 1 .. Len(s) - (h + 1) + 1 /\ n \in 1 .. Len(s) - (h + 1) + 1
    BY LenProperties
  <1>2. (h + 1) + 1 - 1 = h + 1 /\ (h + 1) + n - 1 = h + n
    OBVIOUS
  <1> QED BY <1>1, <1>2, SubSeqOfSubSeq

-----------------------------------------------------------------------------
\* The goroutine without its fairness, which no invariant depends on: module
\* MakeMatchesStream, which composes it with the RPC, has a fairness of its own.
Behaviour == Init /\ [][Next]_vars

\* The rules that buildMatch works with have passed RulesFromJSON.
RuleInv == pc # "off" => rule \in Rules

\* How many tickets are unmatched at each point of the goroutine. While a match is
\* built there are never more than the minimum: this is what MatchesOfMinimumSize
\* lacks to be inductive.
SizeInv ==
    /\ pc = "off" => unmatchedTickets = <<>>
    /\ Workable(rule) =>
          /\ pc = "build" => Len(unmatchedTickets) <= MinPlayers(rule)
          /\ pc = "send" => Len(unmatchedTickets) = MinPlayers(rule)
          /\ pc = "closed" => Len(unmatchedTickets) < MinPlayers(rule)
    /\ MatchesOfMinimumSize

\* Everything that is invariant of the goroutine.
MatchMakerInv ==
    TypeOK /\ TicketAccounting /\ RuleInv /\ SizeInv /\ SensibleRulesNeverPanic

\* The number of tickets buildMatch asks for is an integer, and at most the number
\* it has.
LEMMA NumPlayersFits ==
    ASSUME TypeOK, EnoughTickets
    PROVE  NumPlayers \in Int /\ NumPlayers <= Len(unmatchedTickets)
  <1>1. MinPlayers(rule) \in Int /\ MaxPlayers(rule) \in Int
    BY SizesAreInts, IntBoundAssumption DEF TypeOK, GoInt
  <1>2. Len(unmatchedTickets) \in Nat
    BY LenProperties DEF TypeOK
  <1> QED BY <1>1, <1>2 DEF NumPlayers, EnoughTickets

\* The types, without fairness.
LEMMA TypesKept == Behaviour => []TypeOK
  <1>1. Init => TypeOK
    <2> SUFFICES ASSUME Init PROVE TypeOK
      OBVIOUS
    <2>1. match \in Matches /\ unmatchedTickets \in Seq(Tickets) /\ received \in Seq(Tickets)
      BY DEF Init, Matches
    <2>2. rule \in RuleSets
      BY ZeroRulesType DEF Init
    <2>3. ticketsClosed \in BOOLEAN /\ draining \in BOOLEAN /\ ctxDone \in BOOLEAN
      BY DEF Init
    <2> QED BY <2>1, <2>2, <2>3 DEF Init, TypeOK
  <1>2. TypeOK /\ [Next]_vars => TypeOK'
    <2> SUFFICES ASSUME TypeOK, [Next]_vars PROVE TypeOK'
      OBVIOUS
    <2> USE DEF TypeOK
    <2>1. CASE Start
      BY <2>1, MatchMakerAssumption DEF Start, MakeMatches, callerVars
    <2>2. CASE OfferTicket
      BY <2>2, AppendProperties DEF OfferTicket, GetTicket, callerVars
    <2>3. CASE Deliver
      <3>1. Len(match.Tickets) \in Nat
        BY LenProperties DEF Matches
      <3>2. unmatchedTickets' \in Seq(Tickets)
        BY <2>3, <3>1, CutType DEF Deliver, SendMatch
      <3> QED BY <2>3, <3>1, <3>2 DEF Deliver, SendMatch, callerVars
    <2>4. CASE Local
      <3>1. CASE NoMoreTickets \/ CtxDone \/ NotEnoughTickets \/ BuildPanics
        BY <2>4, <3>1 DEF Local, NoMoreTickets, CtxDone, NotEnoughTickets, BuildPanics, callerVars
      <3>2. CASE BuildMatch
        <4>1. NumPlayers \in 0 .. Len(unmatchedTickets)
          BY <3>2, NumPlayersFits, LenProperties DEF BuildMatch
        <4>2. SubSeq(unmatchedTickets, 1, NumPlayers) \in Seq(Tickets)
          BY <4>1, MatchTickets
        <4>3. rule.AutoBackfill \in BOOLEAN
          BY RuleFields
        <4>4. match' \in Matches
          BY <3>2, <4>2, <4>3 DEF BuildMatch, Matches
        <4> QED BY <2>4, <3>2, <4>4 DEF Local, BuildMatch, callerVars
      <3> QED BY <2>4, <3>1, <3>2 DEF Local
    <2>5. CASE Caller
      BY <2>5 DEF Caller, CloseTickets, StopDraining, Cancel, goroutineVars
    <2>6. CASE Ended \/ UNCHANGED vars
      BY <2>6 DEF Ended, vars, goroutineVars, callerVars
    <2> QED BY <2>1, <2>2, <2>3, <2>4, <2>5, <2>6 DEF Next
  <1> QED BY <1>1, <1>2, PTL DEF Behaviour

(***************************************************************************)
(* Every variable keeps its type; in particular every slice expression of  *)
(* buildMatch stays within the slice.                                      *)
(***************************************************************************)
THEOREM TypeCorrect == Spec => []TypeOK
  BY TypesKept, PTL DEF Spec, Behaviour

\* The accounting of the tickets, without fairness.
LEMMA AccountingKept == Behaviour => []TicketAccounting
  <1>1. Init => TicketAccounting
    <2> SUFFICES ASSUME Init PROVE TicketAccounting
      OBVIOUS
    <2>1. SubSeq(received, handed + 1, Len(received)) = <<>>
      BY SubSeqEmpty DEF Init
    <2> QED BY <2>1 DEF Init, TicketAccounting
  <1>2. TypeOK /\ TicketAccounting /\ [Next]_vars => TicketAccounting'
    <2> SUFFICES ASSUME TypeOK, TicketAccounting, [Next]_vars PROVE TicketAccounting'
      OBVIOUS
    <2>0. /\ Len(received) \in Nat /\ Len(unmatchedTickets) \in Nat
          /\ handed \in 0 .. Len(received)
      BY LenProperties DEF TypeOK, TicketAccounting
    <2>1. CASE Start
      BY <2>1 DEF Start, MakeMatches, TicketAccounting
    <2>2. CASE OfferTicket
      <3>1. PICK t \in Tickets : GetTicket(t)
        BY <2>2 DEF OfferTicket
      <3>2. Len(received') = Len(received) + 1
        BY <3>1, AppendProperties DEF GetTicket, TypeOK
      <3>3. unmatchedTickets' = SubSeq(received', handed' + 1, Len(received'))
        BY <2>0, <3>1, AppendToSuffix DEF GetTicket, TypeOK, TicketAccounting
      <3>4. handed' <= Len(received') /\ pc' # "send"
        BY <2>0, <3>1, <3>2 DEF GetTicket
      <3> QED BY <3>3, <3>4 DEF TicketAccounting
    <2>3. CASE Deliver
      <3> DEFINE n == Len(match.Tickets)
      <3>1. n \in 0 .. Len(unmatchedTickets)
        BY <2>0, <2>3, LenProperties DEF Deliver, SendMatch, TicketAccounting, TypeOK, Matches
      <3>2. /\ Len(unmatchedTickets) = Len(received) - handed
            /\ SubSeq(unmatchedTickets, n + 1, Len(unmatchedTickets)) =
                   SubSeq(received, handed + n + 1, Len(received))
        <4>1. unmatchedTickets = SubSeq(received, handed + 1, Len(received))
          BY DEF TicketAccounting
        <4>2. Len(unmatchedTickets) = Len(received) - handed
          BY <2>0, <4>1, CutSuffix DEF TypeOK
        <4> HIDE DEF n
        <4> QED BY <2>0, <3>1, <4>1, <4>2, CutSuffix DEF TypeOK
      <3>3. /\ handed' = handed + n /\ received' = received /\ pc' = "build"
            /\ unmatchedTickets' = SubSeq(unmatchedTickets, n + 1, Len(unmatchedTickets))
        BY <2>3 DEF Deliver, SendMatch
      <3> HIDE DEF n
      <3> QED BY <2>0, <3>1, <3>2, <3>3 DEF TicketAccounting
    <2>4. CASE Local
      <3>1. CASE NoMoreTickets \/ CtxDone \/ NotEnoughTickets \/ BuildPanics
        BY <3>1 DEF NoMoreTickets, CtxDone, NotEnoughTickets, BuildPanics, TicketAccounting
      <3>2. CASE BuildMatch
        <4>1. NumPlayers \in 0 .. Len(unmatchedTickets)
          BY <2>0, <3>2, NumPlayersFits DEF BuildMatch
        <4>2. Len(match'.Tickets) = NumPlayers
          BY <3>2, <4>1, MatchTickets DEF BuildMatch, TypeOK
        <4>3. match'.Tickets = SubSeq(unmatchedTickets, 1, Len(match'.Tickets))
          BY <3>2, <4>2 DEF BuildMatch
        <4>4. UNCHANGED <<unmatchedTickets, received, handed>>
          BY <3>2 DEF BuildMatch
        <4>5. Len(match'.Tickets) <= Len(unmatchedTickets')
          BY <2>0, <4>1, <4>2, <4>4
        <4> QED BY <4>3, <4>4, <4>5 DEF TicketAccounting
      <3> QED BY <2>4, <3>1, <3>2 DEF Local
    <2>5. CASE Caller
      BY <2>5 DEF Caller, CloseTickets, StopDraining, Cancel, goroutineVars, TicketAccounting
    <2>6. CASE Ended \/ UNCHANGED vars
      BY <2>6 DEF Ended, vars, goroutineVars, callerVars, TicketAccounting
    <2> QED BY <2>1, <2>2, <2>3, <2>4, <2>5, <2>6 DEF Next
  <1> QED BY <1>1, <1>2, TypesKept, PTL DEF Behaviour

(***************************************************************************)
(* No ticket is lost, matched twice or matched out of turn, for any rules: *)
(* the tickets taken are those handed over followed by the unmatched ones. *)
(***************************************************************************)
THEOREM TicketsAccountedFor == Spec => []TicketAccounting
  BY AccountingKept, PTL DEF Spec, Behaviour

(***************************************************************************)
(* The goroutine only ever works with rules it was called with.            *)
(***************************************************************************)
LEMMA RulesKept == Behaviour => []RuleInv
  <1>1. Init => RuleInv
    BY DEF Init, RuleInv
  <1>2. RuleInv /\ [Next]_vars => RuleInv'
    BY DEF RuleInv, Next, Start, MakeMatches, OfferTicket, GetTicket, Deliver, SendMatch,
           Local, NoMoreTickets, CtxDone, NotEnoughTickets, BuildMatch, BuildPanics,
           Caller, CloseTickets, StopDraining, Cancel, Ended, vars, goroutineVars
  <1> QED BY <1>1, <1>2, PTL DEF Behaviour

\* Panics and the rules, without fairness.
LEMMA PanicsExplained == Behaviour => []SensibleRulesNeverPanic
  <1>1. Init => SensibleRulesNeverPanic
    BY DEF Init, SensibleRulesNeverPanic
  <1>2. TypeOK /\ RuleInv /\ SensibleRulesNeverPanic /\ [Next]_vars => SensibleRulesNeverPanic'
    <2> SUFFICES ASSUME TypeOK, RuleInv, SensibleRulesNeverPanic, [Next]_vars, pc' = "panic"
                 PROVE  ~Sensible(rule')
      BY DEF SensibleRulesNeverPanic, Sensible, NonNegative, Fits
    <2>1. CASE BuildPanics
      <3>1. rule' = rule /\ pc = "build" /\ NumPlayers < 0
        BY <2>1 DEF BuildPanics
      <3>2. rule \in RuleSets /\ Accepts(rule)
        BY <3>1, MatchMakerAssumption DEF RuleInv
      <3>3. MinPlayers(rule) \in Int /\ MaxPlayers(rule) \in Int
        BY <3>2, SizesAreInts, IntBoundAssumption DEF GoInt
      <3>4. MinPlayers(rule) < 0 \/ MaxPlayers(rule) < 0
        BY <3>1 DEF NumPlayers
      <3>5. ~Sensible(rule)
        BY <3>2, <3>3, <3>4, SensibleSizes
      <3> QED BY <3>1, <3>5
    <2>2. CASE pc = "panic" /\ rule' = rule
      BY <2>2 DEF SensibleRulesNeverPanic
    <2>3. BuildPanics \/ (pc = "panic" /\ rule' = rule)
      BY DEF Next, Start, MakeMatches, OfferTicket, GetTicket, Deliver, SendMatch,
             Local, NoMoreTickets, CtxDone, NotEnoughTickets, BuildMatch,
             Caller, CloseTickets, StopDraining, Cancel, Ended, vars, goroutineVars
    <2> QED BY <2>1, <2>2, <2>3
  <1> QED BY <1>1, <1>2, TypesKept, RulesKept, PTL DEF Behaviour

(***************************************************************************)
(* buildMatch cannot panic on sensible rules, whatever their numbers: it   *)
(* never asks for a negative number of tickets.                            *)
(***************************************************************************)
THEOREM NoPanicOnSensibleRules == Spec => []SensibleRulesNeverPanic
  BY PanicsExplained, PTL DEF Spec, Behaviour

\* The number of unmatched tickets at each point of the goroutine.
LEMMA SizesKept == Behaviour => []SizeInv
  <1>1. Init => SizeInv
    BY DEF Init, SizeInv, MatchesOfMinimumSize
  <1>2. TypeOK /\ TicketAccounting /\ SizeInv /\ [Next]_vars => SizeInv'
    <2> SUFFICES ASSUME TypeOK, TicketAccounting, SizeInv, [Next]_vars PROVE SizeInv'
      OBVIOUS
    <2>0. /\ Len(unmatchedTickets) \in Nat
          /\ MinPlayers(rule) \in Int /\ MaxPlayers(rule) \in Int
      BY LenProperties, SizesAreInts, IntBoundAssumption DEF TypeOK, GoInt
    <2>1. CASE Start
      <3>1. PICK r \in Rules : MakeMatches(r)
        BY <2>1 DEF Start
      <3>2. pc' = "select" /\ rule' = r /\ unmatchedTickets' = <<>>
        BY <3>1 DEF MakeMatches, SizeInv
      <3>3. MinPlayers(r) \in Int
        BY SizesAreInts, MatchMakerAssumption, IntBoundAssumption DEF GoInt
      <3>4. Workable(r) => 0 < MinPlayers(r)
        BY <3>3 DEF Workable
      <3> QED BY <3>2, <3>4 DEF SizeInv, MatchesOfMinimumSize
    <2>2. CASE OfferTicket
      <3>1. PICK t \in Tickets : GetTicket(t)
        BY <2>2 DEF OfferTicket
      <3>2. Len(unmatchedTickets') = Len(unmatchedTickets) + 1
        BY <3>1, AppendProperties DEF GetTicket, TypeOK
      <3>3. rule' = rule /\ pc = "select" /\ pc' = "build"
        BY <3>1 DEF GetTicket
      <3> QED BY <2>0, <3>2, <3>3 DEF SizeInv, MatchesOfMinimumSize
    <2>3. CASE Deliver
      <3>1. rule' = rule /\ pc = "send" /\ pc' = "build"
        BY <2>3 DEF Deliver, SendMatch
      <3>2. Workable(rule) => Len(unmatchedTickets') <= MinPlayers(rule)
        <4> SUFFICES ASSUME Workable(rule) PROVE Len(unmatchedTickets') <= MinPlayers(rule)
          OBVIOUS
        <4>1. Len(match.Tickets) = Len(unmatchedTickets)
          BY <3>1 DEF SizeInv, MatchesOfMinimumSize
        <4>2. unmatchedTickets' = <<>>
          BY <2>0, <2>3, <4>1, SubSeqEmpty DEF Deliver, SendMatch
        <4> QED BY <2>0, <4>2 DEF Workable
      <3> QED BY <3>1, <3>2 DEF SizeInv, MatchesOfMinimumSize
    <2>4. CASE Local
      <3>1. CASE NoMoreTickets \/ CtxDone \/ BuildPanics
        BY <3>1 DEF NoMoreTickets, CtxDone, BuildPanics, SizeInv, MatchesOfMinimumSize
      <3>2. CASE NotEnoughTickets
        BY <2>0, <3>2 DEF NotEnoughTickets, EnoughTickets, SizeInv, MatchesOfMinimumSize
      <3>3. CASE BuildMatch
        <4>1. /\ rule' = rule /\ unmatchedTickets' = unmatchedTickets
              /\ pc = "build" /\ pc' = "send"
              /\ match'.Tickets = SubSeq(unmatchedTickets, 1, NumPlayers)
          BY <3>3 DEF BuildMatch
        <4>2. match'.Backfill = (rule.AutoBackfill /\ NumPlayers < MaxPlayers(rule))
          BY <3>3 DEF BuildMatch
        <4>3. NumPlayers \in 0 .. Len(unmatchedTickets)
          BY <2>0, <3>3, NumPlayersFits DEF BuildMatch
        <4>4. Len(match'.Tickets) = NumPlayers
          BY <4>1, <4>3, MatchTickets DEF TypeOK
        <4>5. Workable(rule) =>
                 Len(unmatchedTickets) = MinPlayers(rule) /\ NumPlayers = MinPlayers(rule)
          BY <2>0, <3>3, <4>1 DEF SizeInv, BuildMatch, EnoughTickets, NumPlayers, Workable
        <4> QED BY <4>1, <4>2, <4>4, <4>5 DEF SizeInv, MatchesOfMinimumSize
      <3> QED BY <2>4, <3>1, <3>2, <3>3 DEF Local
    <2>5. CASE Caller
      BY <2>5 DEF Caller, CloseTickets, StopDraining, Cancel, goroutineVars,
                  SizeInv, MatchesOfMinimumSize
    <2>6. CASE Ended \/ UNCHANGED vars
      BY <2>6 DEF Ended, vars, goroutineVars, SizeInv, MatchesOfMinimumSize
    <2> QED BY <2>1, <2>2, <2>3, <2>4, <2>5, <2>6 DEF Next
  <1> QED BY <1>1, <1>2, TypesKept, AccountingKept, PTL DEF Behaviour

\* All of them together, for the modules that compose the goroutine with its caller.
LEMMA MatchMakerInvHolds == Behaviour => []MatchMakerInv
  BY TypesKept, AccountingKept, RulesKept, SizesKept, PanicsExplained, PTL DEF MatchMakerInv

(***************************************************************************)
(* Every match has exactly minPlayers tickets.                             *)
(***************************************************************************)
THEOREM SizesAreMinimal == Spec => []MatchesOfMinimumSize
  <1>1. SizeInv => MatchesOfMinimumSize
    BY DEF SizeInv
  <1> QED BY <1>1, SizesKept, PTL DEF Spec, Behaviour

(***************************************************************************)
(* With workable rules the goroutine implements the contract of            *)
(* MatchLogic: each of its steps is a step of the contract or changes      *)
(* nothing the contract speaks of.                                         *)
(***************************************************************************)
THEOREM ImplementsContract ==
    ASSUME \A r \in Rules : Workable(r)
    PROVE  Spec => ContractSpec
  <1>1. Init => Contract!Init
    <2> SUFFICES ASSUME Init PROVE Contract!Init
      OBVIOUS
    <2>1. MinPlayers(rule) \in Int /\ MaxPlayers(rule) \in Int
      BY ZeroRulesType, SizesAreInts, IntBoundAssumption DEF Init, GoInt
    <2> QED BY <2>1 DEF Init, Contract!Init
  <1>2. TypeOK /\ TicketAccounting /\ RuleInv /\ SizeInv /\ [Next]_vars
            => [Contract!Next]_(Contract!vars)
    <2> SUFFICES ASSUME TypeOK, TicketAccounting, RuleInv, SizeInv, [Next]_vars
                 PROVE  [Contract!Next]_(Contract!vars)
      OBVIOUS
    <2>0. /\ MinPlayers(rule) \in Int /\ MaxPlayers(rule) \in Int
          /\ Len(received) \in Nat /\ handed \in 0 .. Len(received)
          /\ Len(unmatchedTickets) = Len(received) - handed
      <3>1. Len(received) \in Nat /\ handed \in 0 .. Len(received)
        BY LenProperties DEF TypeOK, TicketAccounting
      <3>2. Len(unmatchedTickets) = Len(received) - handed
        BY <3>1, CutSuffix DEF TypeOK, TicketAccounting
      <3> QED BY <3>1, <3>2, SizesAreInts, IntBoundAssumption DEF TypeOK, GoInt
    <2>a. pc # "off" => Workable(rule)
      BY DEF RuleInv
    <2>1. CASE Start
      <3>1. PICK r \in Rules : MakeMatches(r)
        BY <2>1 DEF Start
      <3>2. MinPlayers(r) \in Int /\ MaxPlayers(r) \in Int
        BY SizesAreInts, MatchMakerAssumption, IntBoundAssumption DEF GoInt
      <3> QED BY <3>1, <3>2 DEF MakeMatches, Contract!Next, Contract!Open
    <2>2. CASE OfferTicket
      <3>1. PICK t \in Tickets : GetTicket(t)
        BY <2>2 DEF OfferTicket
      <3>2. Len(received) - handed < MinPlayers(rule)
        BY <2>0, <2>a, <3>1 DEF GetTicket, SizeInv, MatchesOfMinimumSize
      <3> QED BY <3>1, <3>2 DEF GetTicket, Contract!Next, Contract!Take, Contract!Waiting
    <2>3. CASE Deliver
      <3>1. pc = "send" /\ match.Tickets # <<>>
        BY <2>0, <2>3, <2>a DEF Deliver, SendMatch, SizeInv, MatchesOfMinimumSize, Workable
      <3> QED BY <2>3, <3>1 DEF Deliver, SendMatch, Contract!Next, Contract!Deliver
    <2>4. CASE Local
      <3>1. CASE NoMoreTickets \/ CtxDone
        <4>1. pc = "select" /\ pc' = "closed" /\ UNCHANGED <<rule, received, handed>>
          BY <3>1 DEF NoMoreTickets, CtxDone
        <4>2. Len(received) - handed < MinPlayers(rule)
          BY <2>0, <2>a, <4>1 DEF SizeInv, MatchesOfMinimumSize
        <4> QED BY <4>1, <4>2 DEF Contract!Next, Contract!Close, Contract!Waiting
      <3>2. CASE NotEnoughTickets
        BY <3>2 DEF NotEnoughTickets, Contract!vars
      <3>3. CASE BuildMatch
        <4>1. /\ pc = "build" /\ pc' = "send" /\ UNCHANGED <<rule, received, handed>>
              /\ match'.Tickets = SubSeq(unmatchedTickets, 1, NumPlayers)
          BY <3>3 DEF BuildMatch
        <4>2. /\ NumPlayers \in 1 .. Len(received) - handed
              /\ MinPlayers(rule) <= NumPlayers /\ NumPlayers <= MaxPlayers(rule)
          BY <2>0, <2>a, <3>3, <4>1, NumPlayersFits DEF BuildMatch, NumPlayers, Workable
        <4>3. match'.Tickets = SubSeq(received, handed + 1, handed + NumPlayers)
          BY <2>0, <4>1, <4>2, PrefixOfSuffix DEF TypeOK, TicketAccounting
        <4> QED BY <4>1, <4>2, <4>3 DEF Contract!Next, Contract!Offer, Contract!Waiting
      <3>4. CASE BuildPanics
        BY <3>4 DEF BuildPanics, Contract!vars
      <3> QED BY <2>4, <3>1, <3>2, <3>3, <3>4 DEF Local
    <2>5. CASE Caller
      BY <2>5 DEF Caller, CloseTickets, StopDraining, Cancel, goroutineVars, Contract!vars
    <2>6. CASE Ended \/ UNCHANGED vars
      BY <2>6 DEF Ended, vars, goroutineVars, Contract!vars
    <2> QED BY <2>1, <2>2, <2>3, <2>4, <2>5, <2>6 DEF Next
  <1> QED BY <1>1, <1>2, TypesKept, AccountingKept, RulesKept, SizesKept, PTL
          DEF Spec, Behaviour, ContractSpec, Contract!Spec

=============================================================================
