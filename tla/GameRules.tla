----------------------------- MODULE GameRules -----------------------------
(***************************************************************************)
(* The rule set of a match pool: the GameRules record the plugin decodes   *)
(* from Rules.json (pkg/server/gameRules.go), the checks RulesFromJSON     *)
(* makes on it, and the two numbers buildMatch derives from it.            *)
(*                                                                         *)
(* A Go int is modelled with its width: IntBound stands for 2^63, and a    *)
(* product wraps round as it does in the program.                          *)
(***************************************************************************)
EXTENDS Integers

CONSTANT IntBound  \* a Go int is in -IntBound .. IntBound - 1

ASSUME IntBoundAssumption == IntBound \in Nat /\ IntBound > 2

GoInt == -IntBound .. IntBound - 1

\* What is left of a mathematical result in a Go int.
Wrap(n) == ((n + IntBound) % (2 * IntBound)) - IntBound

AllianceRules ==
    [MinNumber : GoInt, MaxNumber : GoInt,
     PlayerMinNumber : GoInt, PlayerMaxNumber : GoInt]

RuleSets ==
    [ShipCountMin : GoInt, ShipCountMax : GoInt, AutoBackfill : BOOLEAN,
     AllianceRule : AllianceRules]

\* The zero value of the Go struct: every field the JSON text omits.
ZeroRules ==
    [ShipCountMin |-> 0, ShipCountMax |-> 0, AutoBackfill |-> FALSE,
     AllianceRule |-> [MinNumber |-> 0, MaxNumber |-> 0,
                       PlayerMinNumber |-> 0, PlayerMaxNumber |-> 0]]

\* Mutant of Accepts: the second check is missing.
AcceptsAnyPlayerNumbers(r) ==
    /\ r.AllianceRule.MinNumber <= r.AllianceRule.MaxNumber
    /\ r.ShipCountMin <= r.ShipCountMax

(***************************************************************************)
(* RulesFromJSON accepts a decoded rule set when each minimum is at most   *)
(* its maximum; it makes no other check.                                   *)
(***************************************************************************)
Accepts(r) ==
    /\ r.AllianceRule.MinNumber <= r.AllianceRule.MaxNumber
    /\ r.AllianceRule.PlayerMinNumber <= r.AllianceRule.PlayerMaxNumber
    /\ r.ShipCountMin <= r.ShipCountMax

-----------------------------------------------------------------------------
(***************************************************************************)
(* minPlayers and maxPlayers of buildMatch. Both count TICKETS: they are   *)
(* compared with len(unmatchedTickets).                                    *)
(***************************************************************************)
AllianceMin(r) == Wrap(r.AllianceRule.MinNumber * r.AllianceRule.PlayerMinNumber)
AllianceMax(r) == Wrap(r.AllianceRule.MaxNumber * r.AllianceRule.PlayerMaxNumber)

\* Mutant of NoAlliance: || for &&.
NoMinimumOrMaximum(r) == AllianceMin(r) = 0 \/ AllianceMax(r) = 0

\* Neither product is set: the default is a match of two.
NoAlliance(r) == AllianceMin(r) = 0 /\ AllianceMax(r) = 0

Scale(n, ships) == IF ships = 0 THEN n ELSE Wrap(n * ships)

MinPlayers(r) == Scale(IF NoAlliance(r) THEN 2 ELSE AllianceMin(r), r.ShipCountMin)
MaxPlayers(r) == Scale(IF NoAlliance(r) THEN 2 ELSE AllianceMax(r), r.ShipCountMax)

\* The rule sets with which the loop of buildMatch always runs out of matches.
Workable(r) == 1 <= MinPlayers(r) /\ MinPlayers(r) <= MaxPlayers(r)

\* The numbers of an alliance and the ship counts of a sensible rule set: none
\* is negative, and the largest product of buildMatch fits in an int.
NonNegative(r) ==
    /\ r.ShipCountMin >= 0 /\ r.ShipCountMax >= 0
    /\ \A f \in DOMAIN r.AllianceRule : r.AllianceRule[f] >= 0

Fits(r) ==
    LET alliance == r.AllianceRule.MaxNumber * r.AllianceRule.PlayerMaxNumber
        players  == IF alliance = 0 THEN 2 ELSE alliance
        ships    == IF r.ShipCountMax = 0 THEN 1 ELSE r.ShipCountMax
    IN  players * ships < IntBound

Sensible(r) == NonNegative(r) /\ Fits(r)

=============================================================================
