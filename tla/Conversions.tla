----------------------------- MODULE Conversions -----------------------------
(***************************************************************************)
(* pkg/pb/conversions.go: the functions between the messages of the wire   *)
(* (package matchfunction) and the types the match logic works with        *)
(* (packages matchmaker and playerdata). Names, ids, times, latencies and  *)
(* excluded sessions are copied as they are and left out. What is kept is  *)
(* what changes on the way: attributes, parties and teams.                 *)
(***************************************************************************)
EXTENDS Integers, Sequences, FiniteSets

CONSTANT Nil  \* a nil map, struct or message

(***************************************************************************)
(* Attributes. A Go map holds values of any type:                          *)
(*   "json"    what JSON decodes to: number, string, list or object        *)
(*   "typed"   of a type JSON can write but structpb does not know, such   *)
(*             as []string                                                 *)
(*   "nan"     a number JSON cannot write                                  *)
(*   "opaque"  neither can write it (a function, a channel)                *)
(* A protobuf Struct only holds "json" and "nan".                          *)
(***************************************************************************)
EmptyMap == <<>>

WithType(map, type) == [k \in DOMAIN map |-> [map[k] EXCEPT !.type = type]]

Holds(map, types) == \A k \in DOMAIN map : map[k].type \in types

\* JSON and back. On an error the data is returned as it is.
convertAttribute(data) ==
    IF data = Nil \/ ~Holds(data, {"json", "typed"}) THEN data ELSE WithType(data, "json")

\* structpb.NewStruct: one value it does not know costs the whole struct.
NewStruct(map) ==
    IF map = Nil THEN EmptyMap ELSE IF Holds(map, {"json", "nan"}) THEN map ELSE Nil

\* Struct.AsMap: never nil; NaN becomes the string "NaN".
AsMap(struct) == IF struct = Nil THEN EmptyMap ELSE WithType(struct, "json")

-----------------------------------------------------------------------------
(***************************************************************************)
(* Tickets. A player's party id is not part of the message.                *)
(***************************************************************************)
ProtoPlayer(player) == [id |-> player.id, attributes |-> NewStruct(player.attributes)]

ProtoTicket(ticket) ==
    [id         |-> ticket.id,
     players    |-> [n \in DOMAIN ticket.players |-> ProtoPlayer(ticket.players[n])],
     attributes |-> NewStruct(ticket.attributes)]

Converted(of) == [of EXCEPT !.attributes = convertAttribute(@)]

MatchfunctionTicketToProtoTicket(ticket) ==
    ProtoTicket([Converted(ticket) EXCEPT
                     !.players = [n \in DOMAIN @ |-> Converted(ticket.players[n])]])

MatchfunctionTicketsToProtoTickets(tickets) ==
    [n \in DOMAIN tickets |-> MatchfunctionTicketToProtoTicket(tickets[n])]

MatchfunctionPlayer(player) ==
    [id |-> player.id, party |-> "", attributes |-> AsMap(player.attributes)]

ProtoTicketToMatchfunctionTicket(ticket) ==
    [id         |-> ticket.id,
     players    |-> [n \in DOMAIN ticket.players |-> MatchfunctionPlayer(ticket.players[n])],
     attributes |-> AsMap(ticket.attributes)]

MatchfunctionTickets(tickets) ==
    [n \in DOMAIN tickets |-> ProtoTicketToMatchfunctionTicket(tickets[n])]

PlayerIDs(players) == [n \in DOMAIN players |-> players[n].id]

\* The loops that append what they keep: the elements of s at the positions kept, in
\* order. (SelectSeq would say the same, but its definition is not open to proofs.)
Only(s, kept) ==
    LET only[n \in 0 .. Len(s)] ==
            IF n = 0 THEN <<>>
            ELSE IF n \in kept THEN Append(only[n - 1], s[n]) ELSE only[n - 1]
    IN  only[Len(s)]

\* Mutant of PlayerDataToParties: only the first player of each party.
FirstPlayersToParties(players) ==
    {[id |-> players[n].party, users |-> <<players[n].id>>] :
        n \in {m \in DOMAIN players : \A l \in 1 .. m - 1 : players[l].party # players[m].party}}

\* The players by party id. The order of the parties is that of a Go map: none.
PlayerDataToParties(players) ==
    {[id    |-> players[n].party,
      users |-> PlayerIDs(Only(players, {m \in DOMAIN players : players[m].party = players[n].party}))] :
        n \in DOMAIN players}

-----------------------------------------------------------------------------
(***************************************************************************)
(* Matches, backfill tickets and proposals. A team [id, users, parties] is *)
(* copied field by field in all of them.                                   *)
(***************************************************************************)
\* Mutant of MatchfunctionMatchToProtoMatch: its attributes are not converted.
UnconvertedProtoMatch(match) ==
    [tickets    |-> MatchfunctionTicketsToProtoTickets(match.tickets),
     teams      |-> match.teams,
     attributes |-> NewStruct(match.attributes)]

MatchfunctionMatchToProtoMatch(match) ==
    [tickets    |-> MatchfunctionTicketsToProtoTickets(match.tickets),
     teams      |-> match.teams,
     attributes |-> NewStruct(convertAttribute(match.attributes))]

ProtoMatchToMatchfunctionMatch(match) ==
    [tickets    |-> MatchfunctionTickets(match.tickets),
     teams      |-> match.teams,
     attributes |-> AsMap(match.attributes)]

\* The teams of a partial match: one without users is left out.
WithUsers(teams) == Only(teams, {n \in DOMAIN teams : teams[n].users # <<>>})

\* The partial match of the backfill ticket.
MatchfunctionBackfillTicketToProtoBackfillTicket(match) ==
    [tickets    |-> MatchfunctionTicketsToProtoTickets(match.tickets),
     teams      |-> WithUsers(match.teams),
     attributes |-> NewStruct(convertAttribute(match.attributes))]

ProtoPartialMatchToMatchfunctionMatch(match) ==
    [tickets    |-> MatchfunctionTickets(match.tickets),
     teams      |-> match.teams,
     attributes |-> AsMap(match.attributes)]

\* Mutant of MatchfunctionBackfillProposalToProtoBackfillProposal: the list of users is
\* not started anew for each team.
ProposalOfAllUsers(proposal) ==
    LET upTo[n \in 0 .. Len(proposal.teams)] ==
            IF n = 0 THEN <<>> ELSE upTo[n - 1] \o proposal.teams[n].users
    IN  [tickets    |-> [n \in DOMAIN proposal.tickets |-> ProtoTicket(proposal.tickets[n])],
         teams      |-> [n \in DOMAIN proposal.teams |-> [proposal.teams[n] EXCEPT !.users = upTo[n]]],
         attributes |-> NewStruct(proposal.attributes)]

\* Mutant of MatchfunctionBackfillProposalToProtoBackfillProposal: only the ids of the
\* players are copied.
ProposalOfPlayerIDs(proposal) ==
    [tickets    |-> [n \in DOMAIN proposal.tickets |->
                        LET ticket == proposal.tickets[n]
                        IN  ProtoTicket([ticket EXCEPT
                                !.players = [m \in DOMAIN @ |-> [@[m] EXCEPT !.attributes = Nil]]])],
     teams      |-> proposal.teams,
     attributes |-> NewStruct(proposal.attributes)]

\* Here no attributes are converted before they go into a struct.
MatchfunctionBackfillProposalToProtoBackfillProposal(proposal) ==
    [tickets    |-> [n \in DOMAIN proposal.tickets |-> ProtoTicket(proposal.tickets[n])],
     teams      |-> proposal.teams,
     attributes |-> NewStruct(proposal.attributes)]

\* The attributes of the proposal stay behind.
ProtoBackfillProposalToMatchfunctionBackfillProposal(proposal) ==
    [tickets    |-> MatchfunctionTickets(proposal.tickets),
     teams      |-> proposal.teams,
     attributes |-> Nil]

=============================================================================
