--------------------------- MODULE MCRulesLoading ---------------------------
(***************************************************************************)
(* RulesLoading over every rule set whose numbers are in -1 .. 3, with an  *)
(* int so narrow that some of their products overflow it.                  *)
(***************************************************************************)
EXTENDS RulesLoading

MCNumbers == -1 .. 3

MCDocuments ==
    {[ShipCountMin |-> smin, ShipCountMax |-> smax, AutoBackfill |-> FALSE,
      AllianceRule |-> [MinNumber |-> min, MaxNumber |-> max,
                        PlayerMinNumber |-> pmin, PlayerMaxNumber |-> pmax]] :
        smin \in MCNumbers, smax \in MCNumbers, min \in MCNumbers,
        max \in MCNumbers, pmin \in MCNumbers, pmax \in MCNumbers}

=============================================================================
