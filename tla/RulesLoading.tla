---------------------------- MODULE RulesLoading ----------------------------
(***************************************************************************)
(* One call of MatchMaker.RulesFromJSON (pkg/server/matchmaker.go), the    *)
(* first thing every RPC but EnrichTicket does with its request: the text  *)
(* either does not decode into GameRules, or decodes to a rule set that is *)
(* then checked. The invariants say what the accepted rule sets are worth  *)
(* to buildMatch.                                                          *)
(***************************************************************************)
EXTENDS GameRules

CONSTANTS Documents,  \* the rule sets the JSON text of a request may denote
          Malformed   \* a text that json.Unmarshal refuses

ASSUME DocumentsAssumption == Documents \subseteq RuleSets /\ Malformed \notin RuleSets

VARIABLES json,    \* the text of the request
          ruleSet, \* what the call returned: a rule set, or the zero value
          err      \* "pending" until the call returns, then "nil" or an error

vars == <<json, ruleSet, err>>

TypeOK ==
    /\ json \in RuleSets \cup {Malformed}
    /\ ruleSet \in RuleSets
    /\ err \in {"pending", "nil", "unmarshal", "InvalidArgument"}

Init ==
    /\ json \in Documents \cup {Malformed}
    /\ ruleSet = ZeroRules
    /\ err = "pending"

UnmarshalFails ==
    /\ err = "pending"
    /\ json = Malformed
    /\ err' = "unmarshal"
    /\ UNCHANGED <<json, ruleSet>>

RejectRules ==
    /\ err = "pending"
    /\ json # Malformed
    /\ ~Accepts(json)
    /\ err' = "InvalidArgument"
    /\ UNCHANGED <<json, ruleSet>>

AcceptRules ==
    /\ err = "pending"
    /\ json # Malformed
    /\ Accepts(json)
    /\ ruleSet' = json
    /\ err' = "nil"
    /\ UNCHANGED json

Returned == err # "pending" /\ UNCHANGED vars

Next == UnmarshalFails \/ RejectRules \/ AcceptRules \/ Returned

Spec == Init /\ [][Next]_vars

-----------------------------------------------------------------------------
(***************************************************************************)
(* Properties.                                                             *)
(***************************************************************************)

\* The three separate checks of RulesFromJSON are enough for what buildMatch
\* needs: whatever defaults and multiplications it applies (a missing alliance
\* counts two, a zero ship count is ignored), the minimum it derives never
\* exceeds the maximum, so numPlayers is a size the unmatched tickets have.
BoundsOrdered ==
    err = "nil" /\ Sensible(ruleSet) =>
        /\ 0 <= MinPlayers(ruleSet)
        /\ MinPlayers(ruleSet) <= MaxPlayers(ruleSet)
        /\ 1 <= MaxPlayers(ruleSet)

\* The only sensible rule sets that buildMatch cannot work with are those with a
\* maximum but no minimum: the default of two applies only when both products
\* are zero, so a lone zero minimum stays zero and every test for "enough
\* tickets" succeeds (matchmaker.go:130-133, 147-150).
UnworkableOnlyWithoutMinimum ==
    err = "nil" /\ Sensible(ruleSet) =>
        (Workable(ruleSet) <=> (AllianceMin(ruleSet) = 0 => AllianceMax(ruleSet) = 0))

=============================================================================
