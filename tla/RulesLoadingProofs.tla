------------------------ MODULE RulesLoadingProofs ------------------------
(***************************************************************************)
(* What a caller of RulesFromJSON may rely on, for every set of documents  *)
(* and every width of an int.                                              *)
(***************************************************************************)
EXTENDS RulesLoading, GameRulesProofs

\* The call keeps its types.
THEOREM TypeCorrect == Spec => []TypeOK
  <1>1. Init => TypeOK
    BY DocumentsAssumption, ZeroRulesType DEF Init, TypeOK
  <1>2. TypeOK /\ [Next]_vars => TypeOK'
    BY DEF TypeOK, Next, UnmarshalFails, RejectRules, AcceptRules, Returned, vars
  <1> QED BY <1>1, <1>2, PTL DEF Spec

\* Only rules that pass the checks are returned without an error.
LEMMA OnlyAccepted == Spec => [](err = "nil" => Accepts(ruleSet))
  <1> DEFINE Checked == err = "nil" => Accepts(ruleSet)
  <1>1. Init => Checked
    BY DEF Init
  <1>2. Checked /\ [Next]_vars => Checked'
    <2> SUFFICES ASSUME Checked, [Next]_vars PROVE Checked'
      OBVIOUS
    <2>1. CASE UnmarshalFails \/ RejectRules
      BY <2>1 DEF UnmarshalFails, RejectRules
    <2>2. CASE AcceptRules
      BY <2>2 DEF AcceptRules, Accepts
    <2>3. CASE Returned \/ UNCHANGED vars
      BY <2>3 DEF Returned, vars, Accepts
    <2> QED BY <2>1, <2>2, <2>3 DEF Next
  <1> QED BY <1>1, <1>2, PTL DEF Spec

(***************************************************************************)
(* The checks of RulesFromJSON order the two sizes of buildMatch, whatever *)
(* the numbers, as long as no product overflows.                           *)
(***************************************************************************)
THEOREM AcceptedRulesAreOrdered == Spec => []BoundsOrdered
  <1>1. TypeOK /\ (err = "nil" => Accepts(ruleSet)) => BoundsOrdered
    BY SensibleSizes DEF TypeOK, BoundsOrdered
  <1> QED BY <1>1, TypeCorrect, OnlyAccepted, PTL

(***************************************************************************)
(* A maximum without a minimum is the only accepted combination of numbers *)
(* that keeps buildMatch from ever running out of matches.                 *)
(***************************************************************************)
THEOREM OnlyMissingMinimumIsUnworkable == Spec => []UnworkableOnlyWithoutMinimum
  <1>1. TypeOK /\ (err = "nil" => Accepts(ruleSet)) => UnworkableOnlyWithoutMinimum
    BY SensibleSizes DEF TypeOK, UnworkableOnlyWithoutMinimum
  <1> QED BY <1>1, TypeCorrect, OnlyAccepted, PTL

=============================================================================
