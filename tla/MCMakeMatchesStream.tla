------------------------ MODULE MCMakeMatchesStream ------------------------
(***************************************************************************)
(* Rule sets for the runs of MakeMatchesStream.                            *)
(***************************************************************************)
EXTENDS MakeMatchesStream

Alliance(min, max) ==
    [ZeroRules EXCEPT !.AllianceRule =
        [MinNumber |-> min, MaxNumber |-> max, PlayerMinNumber |-> 1, PlayerMaxNumber |-> 1]]

\* A maximum and no minimum: minPlayers 0 and maxPlayers 2, matches without end.
NoMinimum ==
    [ZeroRules EXCEPT !.AllianceRule =
        [MinNumber |-> 0, MaxNumber |-> 1, PlayerMinNumber |-> 0, PlayerMaxNumber |-> 2]]

\* minPlayers 2 (the default); minPlayers 1 and maxPlayers 2; refused by
\* RulesFromJSON; a negative size, at which buildMatch panics; no minimum.
MCDocuments == {ZeroRules, Alliance(1, 2), Alliance(2, 1), Alliance(-1, -1), NoMinimum}

MCWorkable == {ZeroRules, Alliance(1, 2)}

=============================================================================
