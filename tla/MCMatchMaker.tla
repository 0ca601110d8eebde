---------------------------- MODULE MCMatchMaker ----------------------------
(***************************************************************************)
(* Rule sets and tickets for the runs of MatchMaker.                       *)
(***************************************************************************)
EXTENDS MatchMaker

RulesOf(smin, smax, backfill, min, max, pmin, pmax) ==
    [ShipCountMin |-> smin, ShipCountMax |-> smax, AutoBackfill |-> backfill,
     AllianceRule |-> [MinNumber |-> min, MaxNumber |-> max,
                       PlayerMinNumber |-> pmin, PlayerMaxNumber |-> pmax]]

\* minPlayers, maxPlayers: 2, 2 (the default); 2, 4 (the rules of README.md);
\* 1, 3 and 2, 3 with backfill; 3, 3 with backfill.
MCWorkableRules ==
    {ZeroRules,
     RulesOf(1, 2, FALSE, 0, 0, 0, 0),
     RulesOf(0, 0, TRUE, 1, 3, 1, 1),
     RulesOf(2, 3, TRUE, 1, 1, 1, 1),
     RulesOf(0, 0, TRUE, 3, 3, 1, 1)}

\* A maximum without a minimum: minPlayers is 0.
MCNoMinimum == {RulesOf(0, 0, FALSE, 0, 1, 0, 2)}

\* minPlayers, maxPlayers with ints of -8 .. 7: sensible at the edge (0, 2), (1, 6);
\* negative (-1, 2), (-4, 2); overflowing to something usable (2, 2), (6, 0) or not
\* (2, -4), (-8, -8).
MCOddRules ==
    {RulesOf(0, 0, FALSE, 0, 1, 0, 2),
     RulesOf(1, 3, TRUE, 1, 1, 1, 2),
     RulesOf(0, 0, TRUE, 1, 3, 2, 6),
     RulesOf(0, 0, FALSE, -1, 1, 1, 2),
     RulesOf(-2, 0, TRUE, 0, 0, 0, 0),
     RulesOf(2, 2, TRUE, 1, 2, 3, 4),
     RulesOf(4, 4, FALSE, 1, 1, 2, 2),
     RulesOf(2, 3, FALSE, 1, 2, 1, 2)}

=============================================================================
