----------------------------- MODULE SessionLife -----------------------------
(***************************************************************************)
(* What becomes of players, teams and attributes from the tickets of the   *)
(* matchmaking core to a running session and back: EnrichTicket,           *)
(* MakeMatches with its default rules, and so of two tickets, then rounds  *)
(* of BackfillMatches, each a trip over the wire in both directions        *)
(* (module Conversions).                                                   *)
(*                                                                         *)
(* On the plugin's side of a trip the conversions are the ones its code    *)
(* calls, in its order. The core is outside the repository. It keeps the   *)
(* tickets and the session, calls EnrichTicket as often as it likes (an    *)
(* answer may be lost), describes the session in a backfill ticket, and    *)
(* takes a proposal over or turns it down. Its side of a trip is stood in  *)
(* for by the conversions of the other direction, which the package offers *)
(* and no code of the repository calls:                                    *)
(* MatchfunctionBackfillTicketToProtoBackfillTicket,                       *)
(* ProtoMatchToMatchfunctionMatch,                                         *)
(* ProtoBackfillProposalToMatchfunctionBackfillProposal, and for a ticket  *)
(* that is sent MatchfunctionTicketToProtoTicket.                          *)
(***************************************************************************)
EXTENDS Conversions, SequencesExt

CONSTANTS TicketIDs,   \* tickets of the core
          Players,     \* the players of each ticket, with their party ids
          Attributes,  \* the attributes a ticket and its players may have in the core
          MaxUUIDs     \* bound: ids generated for one session

\* The names and values of the attributes, those the plugin adds among them.
Names == {"enrichedNumber", "assignment", "generatedID"}
             \cup UNION {DOMAIN a : a \in Attributes \ {Nil}}
Values == [type : {"json", "typed", "nan", "opaque"}, of : Nat]

ASSUME SessionAssumption ==
    /\ Players \in [TicketIDs -> Seq([id : STRING, party : STRING])]
    /\ \A a \in Attributes \ {Nil} : a \in [DOMAIN a -> Values]
    /\ \A names \in SUBSET Names : Nil \notin [names -> Values]
    /\ MaxUUIDs \in Nat

VARIABLES
    tickets,   \* the core's tickets
    enriched,  \* history: the ids for which EnrichTicket has answered
    used,      \* the ids of those in the session, in the order they joined
    session,   \* the core's session as a match, NoMatch when there is none
    response,  \* the last match or proposal on the wire, NoMatch before the first
    uuids      \* number of ids generated by the plugin

NoMatch == [tickets |-> <<>>, teams |-> <<>>, attributes |-> EmptyMap]

vars == <<tickets, enriched, used, session, response, uuids>>

CoreTicket(id, attributes) ==
    [id         |-> id,
     players    |-> [n \in DOMAIN Players[id] |-> [id         |-> Players[id][n].id,
                                                    party      |-> Players[id][n].party,
                                                    attributes |-> attributes]],
     attributes |-> attributes]

Init ==
    /\ tickets \in {f \in [TicketIDs -> {CoreTicket(id, a) : id \in TicketIDs, a \in Attributes}] :
                        \A id \in TicketIDs : f[id].id = id}
    /\ enriched = {}
    /\ used = <<>>
    /\ session = NoMatch
    /\ response = NoMatch
    /\ uuids = 0

-----------------------------------------------------------------------------
(***************************************************************************)
(* The match logic, on its own types (pkg/server/matchmaker.go).           *)
(***************************************************************************)
enrichMap == [enrichedNumber |-> [type |-> "json", of |-> 20]]

\* Mutant of Enrich: adds to the number if there is one.
EnrichMore(ticket) ==
    CASE ticket.attributes = EmptyMap -> [ticket EXCEPT !.attributes = enrichMap]
      [] "enrichedNumber" \in DOMAIN ticket.attributes ->
             [ticket EXCEPT !.attributes.enrichedNumber.of = @ + 20]
      [] OTHER -> ticket

Enrich(ticket) ==
    IF ticket.attributes = EmptyMap THEN [ticket EXCEPT !.attributes = enrichMap] ELSE ticket

PlayersOf(ts) == FlattenSeq([n \in DOMAIN ts |-> ts[n].players])

\* buildMatch: one team of all players, and no parties.
BuildMatch(ts, teamID) ==
    [tickets    |-> ts,
     teams      |-> <<[id |-> teamID, users |-> PlayerIDs(PlayersOf(ts)), parties |-> {}]>>,
     attributes |-> [assignment |-> [type |-> "typed", of |-> teamID]]]

\* map[name] = value
Assign(map, name, value) ==
    [k \in {name} \cup DOMAIN map |-> IF k = name THEN value ELSE map[k]]

\* Mutant of BuildProposal: new attributes instead of those of the session.
BuildProposalWithNewAttributes(match, ticket, teamID, generatedID) ==
    [tickets    |-> <<ticket>>,
     teams      |-> Append(match.teams, [id |-> teamID, users |-> PlayerIDs(ticket.players),
                                         parties |-> PlayerDataToParties(ticket.players)]),
     attributes |-> [generatedID |-> [type |-> "json", of |-> generatedID]]]

\* buildBackfillMatch: a team of its own for the ticket.
BuildProposal(match, ticket, teamID, generatedID) ==
    [tickets    |-> <<ticket>>,
     teams      |-> Append(match.teams, [id |-> teamID, users |-> PlayerIDs(ticket.players),
                                         parties |-> PlayerDataToParties(ticket.players)]),
     attributes |-> Assign(match.attributes, "generatedID", [type |-> "json", of |-> generatedID])]

-----------------------------------------------------------------------------
(***************************************************************************)
(* The calls.                                                              *)
(***************************************************************************)
Unused == TicketIDs \ {used[n] : n \in DOMAIN used}

\* A ticket of the core as a method of the plugin gets it, or one of the plugin as the
\* core gets it.
Arrives(ticket) == ProtoTicketToMatchfunctionTicket(MatchfunctionTicketToProtoTicket(ticket))

\* To the plugin and back.
EnrichTicket(id) ==
    /\ id \in Unused
    /\ tickets' = [tickets EXCEPT ![id] = Arrives(Enrich(Arrives(@)))]
    /\ enriched' = enriched \cup {id}
    /\ UNCHANGED <<used, session, response, uuids>>

MakeMatches(ids) ==
    /\ session = NoMatch
    /\ uuids < MaxUUIDs
    /\ LET arrived == [n \in DOMAIN ids |-> Arrives(tickets[ids[n]])]
       IN  response' = MatchfunctionMatchToProtoMatch(BuildMatch(arrived, uuids + 1))
    /\ session' = ProtoMatchToMatchfunctionMatch(response')
    /\ used' = ids
    /\ uuids' = uuids + 1
    /\ UNCHANGED <<tickets, enriched>>

\* The core takes the teams and the ticket of a proposal over and keeps the
\* attributes it has.
BackfillMatches(id, accepted) ==
    /\ session # NoMatch
    /\ id \in Unused
    /\ uuids + 2 <= MaxUUIDs
    /\ LET match == ProtoPartialMatchToMatchfunctionMatch(
                        MatchfunctionBackfillTicketToProtoBackfillTicket(session))
       IN  response' = MatchfunctionBackfillProposalToProtoBackfillProposal(
                           BuildProposal(match, Arrives(tickets[id]), uuids + 1, uuids + 2))
    /\ IF accepted
       THEN LET proposal == ProtoBackfillProposalToMatchfunctionBackfillProposal(response')
            IN  /\ session' = [session EXCEPT !.tickets = @ \o proposal.tickets,
                                              !.teams = proposal.teams]
                /\ used' = Append(used, id)
       ELSE UNCHANGED <<session, used>>
    /\ uuids' = uuids + 2
    /\ UNCHANGED <<tickets, enriched>>

Next ==
    \/ \E id \in TicketIDs : EnrichTicket(id)
    \/ \E ids \in TicketIDs \X TicketIDs : ids[1] # ids[2] /\ MakeMatches(ids)
    \/ \E id \in TicketIDs, accepted \in BOOLEAN : BackfillMatches(id, accepted)

Spec == Init /\ [][Next]_vars

-----------------------------------------------------------------------------
(***************************************************************************)
(* Properties.                                                             *)
(***************************************************************************)
IsStruct(struct) == struct # Nil /\ Holds(struct, {"json", "nan"})

\* The last part: no conversion of a match, of a proposal or of a ticket in one loses
\* the attributes, whatever the core's tickets hold.
TypeOK ==
    /\ \A id \in TicketIDs :
          /\ tickets[id].id = id
          /\ PlayerIDs(tickets[id].players) = PlayerIDs(Players[id])
    /\ enriched \subseteq TicketIDs
    /\ used \in Seq(TicketIDs) /\ Len(used) = Cardinality(Range(used))
    /\ uuids \in 0 .. MaxUUIDs
    /\ Len(session.tickets) = Len(used) /\ (session = NoMatch <=> used = <<>>)
    /\ IsStruct(response.attributes)
    /\ \A n \in DOMAIN response.tickets : IsStruct(response.tickets[n].attributes)

\* What is left of attributes after any number of trips. They survive as a whole or
\* not at all: a value nobody can write, or a NaN next to a value only JSON can
\* write, takes the others along.
Kept(attributes) ==
    IF attributes # Nil /\ (Holds(attributes, {"json", "typed"}) \/ Holds(attributes, {"json", "nan"}))
    THEN WithType(attributes, "json") ELSE EmptyMap

\* The tickets of a session have the attributes the core sent them with, and so have
\* their players, whichever RPC they came in by and however many rounds of backfill
\* the session has been through.
AttributesReachTheSession ==
    \A n \in DOMAIN used :
        LET sent == tickets[used[n]]
            there == session.tickets[n]
        IN  /\ there.attributes = Kept(sent.attributes)
            /\ \A m \in DOMAIN sent.players :
                  there.players[m].attributes = Kept(sent.players[m].attributes)

\* Every player of the session's tickets is on exactly one team, in the order in which
\* the tickets joined, and the players of one ticket are together
\* (docs/matchmaking.md:46 "must not split a ticket across different teams").
EveryPlayerOnOneTeam ==
    LET users == [n \in DOMAIN session.teams |-> session.teams[n].users]
    IN  /\ FlattenSeq(users) = FlattenSeq([n \in DOMAIN used |-> PlayerIDs(Players[used[n]])])
        /\ \A n \in DOMAIN used : \E k \in DOMAIN users :
              Range(PlayerIDs(Players[used[n]])) \subseteq Range(users[k])

\* The parties of a team, if it has any, split its users: none is in two of them and
\* none is left out.
PartiesSplitTheirTeam ==
    \A n \in DOMAIN response.teams :
        LET team == response.teams[n]
        IN  team.parties # {} =>
                \A k \in DOMAIN team.users :
                    Cardinality({p \in team.parties : team.users[k] \in Range(p.users)}) = 1

\* A proposal takes nothing from the session: all its teams with users are there, as
\* they were and in their order, in front of one new team, and so are all its
\* attributes but the generatedID, which is new with every proposal.
ProposalsExtendTheSession ==
    [][session # NoMatch /\ response' # response =>
          /\ Front(response'.teams) = WithUsers(session.teams)
          /\ \A k \in DOMAIN session.attributes :
                k \in DOMAIN response'.attributes /\ response'.attributes[k] = session.attributes[k]
          /\ "generatedID" \in DOMAIN response.attributes =>
                response'.attributes["generatedID"] # response.attributes["generatedID"]]_vars

\* EnrichTicket may be repeated: once it has answered for a ticket, a second call (a
\* retry, or a core that does not remember) leaves the ticket alone. The first call
\* only ever fills empty attributes.
EnrichIsIdempotent ==
    [][\A id \in TicketIDs :
          LET kept == Kept(tickets[id].attributes)
          IN  /\ id \in enriched => tickets'[id] = tickets[id]
              /\ id \in enriched' \ enriched =>
                    tickets'[id].attributes = IF kept = EmptyMap THEN enrichMap ELSE kept]_vars

=============================================================================
