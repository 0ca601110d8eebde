---------------------------- MODULE MCSessionLife ----------------------------
(***************************************************************************)
(* Tickets for the run of SessionLife: two players of two parties, one     *)
(* player alone, and a ticket without players.                             *)
(***************************************************************************)
EXTENDS SessionLife

CONSTANTS pair, single, nobody

MCPlayers ==
    [id \in TicketIDs |->
        CASE id = pair   -> <<[id |-> "p1", party |-> "s1"], [id |-> "p2", party |-> "s2"]>>
          [] id = single -> <<[id |-> "p3", party |-> "s3"]>>
          [] OTHER       -> <<>>]

Value(type) == [type |-> type, of |-> 7]

\* None, and every mixture of two of the four kinds of value.
MCAttributes ==
    {Nil, EmptyMap}
        \cup {[x |-> Value(v), y |-> Value(w)] : <<v, w>> \in
                 {"json", "typed"} \X {"json", "typed", "nan", "opaque"}}
        \cup {[x |-> Value("nan")]}

=============================================================================
