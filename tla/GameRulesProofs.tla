-------------------------- MODULE GameRulesProofs --------------------------
(***************************************************************************)
(* What the two sizes of buildMatch are, for every rule set and every      *)
(* width of an int.                                                        *)
(***************************************************************************)
EXTENDS GameRules, TLAPS

\* A Go int is an integer, and wrapping always gives one.
LEMMA WrapType == \A n \in Int : Wrap(n) \in GoInt
  <1> TAKE n \in Int
  <1>1. (n + IntBound) % (2 * IntBound) \in 0 .. 2 * IntBound - 1
    BY IntBoundAssumption
  <1> QED BY <1>1, IntBoundAssumption DEF Wrap, GoInt

\* A result that fits is left alone.
LEMMA WrapFits == \A n \in 0 .. IntBound - 1 : Wrap(n) = n
  <1> TAKE n \in 0 .. IntBound - 1
  <1>1. (n + IntBound) % (2 * IntBound) = n + IntBound
    BY IntBoundAssumption
  <1> QED BY <1>1, IntBoundAssumption DEF Wrap

\* Multiplication is monotone.
LEMMA ProductMonotone ==
    ASSUME NEW a \in Nat, NEW b \in Nat, NEW c \in Nat, NEW d \in Nat, a <= b, c <= d
    PROVE  a * c \in Nat /\ b * d \in Nat /\ a * c <= b * d
  <1>1. \A m, n \in Nat : m * n \in Nat
    OBVIOUS
  <1>2. (b - a) * c \in Nat /\ b * (d - c) \in Nat
    <2>1. b - a \in Nat /\ d - c \in Nat
      OBVIOUS
    <2> QED BY <1>1, <2>1
  <1>3. (b - a) * c = b * c - a * c /\ b * (d - c) = b * d - b * c
    OBVIOUS
  <1>4. a * c \in Nat /\ b * c \in Nat /\ b * d \in Nat
    BY <1>1
  <1> QED BY <1>2, <1>3, <1>4

\* The fields of a rule set.
LEMMA RuleFields ==
    ASSUME NEW r \in RuleSets
    PROVE  /\ r.ShipCountMin \in GoInt /\ r.ShipCountMax \in GoInt
           /\ r.AutoBackfill \in BOOLEAN
           /\ r.AllianceRule.MinNumber \in GoInt /\ r.AllianceRule.MaxNumber \in GoInt
           /\ r.AllianceRule.PlayerMinNumber \in GoInt
           /\ r.AllianceRule.PlayerMaxNumber \in GoInt
           /\ DOMAIN r.AllianceRule =
                  {"MinNumber", "MaxNumber", "PlayerMinNumber", "PlayerMaxNumber"}
  BY DEF RuleSets, AllianceRules

\* The zero value of GameRules is a rule set.
LEMMA ZeroRulesType == ZeroRules \in RuleSets
  BY IntBoundAssumption DEF ZeroRules, RuleSets, AllianceRules, GoInt

\* Both sizes are ints.
LEMMA SizesAreInts ==
    ASSUME NEW r \in RuleSets
    PROVE  MinPlayers(r) \in GoInt /\ MaxPlayers(r) \in GoInt
  <1>1. GoInt \subseteq Int /\ 2 \in GoInt
    BY IntBoundAssumption DEF GoInt
  <1>2. \A m, n \in Int : m * n \in Int
    OBVIOUS
  <1>3. AllianceMin(r) \in GoInt /\ AllianceMax(r) \in GoInt
    BY <1>1, <1>2, RuleFields, WrapType DEF AllianceMin, AllianceMax
  <1>4. \A n, ships \in GoInt : Scale(n, ships) \in GoInt
    BY <1>1, <1>2, WrapType DEF Scale
  <1> QED BY <1>1, <1>3, <1>4, RuleFields DEF MinPlayers, MaxPlayers

(***************************************************************************)
(* The sizes of a sensible rule set that RulesFromJSON accepts: nothing    *)
(* wraps, the minimum is at most the maximum, and the maximum is positive. *)
(* The minimum is positive too unless it was left out and the maximum was  *)
(* not.                                                                    *)
(***************************************************************************)
THEOREM SensibleSizes ==
    ASSUME NEW r \in RuleSets, Accepts(r), Sensible(r)
    PROVE  /\ 0 <= MinPlayers(r)
           /\ MinPlayers(r) <= MaxPlayers(r)
           /\ 1 <= MaxPlayers(r)
           /\ Workable(r) <=> (AllianceMin(r) = 0 => AllianceMax(r) = 0)
  <1> DEFINE a == r.AllianceRule.MinNumber
             b == r.AllianceRule.MaxNumber
             c == r.AllianceRule.PlayerMinNumber
             d == r.AllianceRule.PlayerMaxNumber
             s == r.ShipCountMin
             t == r.ShipCountMax
             low  == IF NoAlliance(r) THEN 2 ELSE a * c
             high == IF NoAlliance(r) THEN 2 ELSE b * d
             lowShips  == IF s = 0 THEN 1 ELSE s
             highShips == IF t = 0 THEN 1 ELSE t
  <1>1. /\ a \in Nat /\ b \in Nat /\ c \in Nat /\ d \in Nat /\ s \in Nat /\ t \in Nat
        /\ a <= b /\ c <= d /\ s <= t
    <2>1. GoInt \subseteq Int
      BY IntBoundAssumption DEF GoInt
    <2>2. /\ a \in Int /\ b \in Int /\ c \in Int /\ d \in Int /\ s \in Int /\ t \in Int
      BY <2>1, RuleFields
    <2>3. /\ \A f \in {"MinNumber", "MaxNumber", "PlayerMinNumber", "PlayerMaxNumber"} :
                r.AllianceRule[f] >= 0
          /\ s >= 0 /\ t >= 0
      BY RuleFields DEF Sensible, NonNegative
    <2>4. a >= 0 /\ b >= 0 /\ c >= 0 /\ d >= 0
      BY <2>3
    <2>5. a <= b /\ c <= d /\ s <= t
      BY DEF Accepts
    <2> QED BY <2>2, <2>3, <2>4, <2>5
  <1>2. a * c \in Nat /\ b * d \in Nat /\ a * c <= b * d
    BY <1>1, ProductMonotone
  <1>3. lowShips \in Nat /\ highShips \in Nat /\ 1 <= lowShips /\ lowShips <= highShips
    BY <1>1
  <1>4. (IF b * d = 0 THEN 2 ELSE b * d) * highShips < IntBound
    BY DEF Sensible, Fits
  <1>5. b * d < IntBound
    <2>1. CASE b * d = 0
      BY <2>1, IntBoundAssumption
    <2>2. CASE b * d # 0
      <3>1. (b * d) * 1 <= (b * d) * highShips
        BY <1>2, <1>3, ProductMonotone
      <3> HIDE DEF highShips
      <3> QED BY <2>2, <3>1, <1>2, <1>3, <1>4, IntBoundAssumption
    <2> QED BY <2>1, <2>2
  <1>6. AllianceMin(r) = a * c /\ AllianceMax(r) = b * d
    <2>1. a * c \in 0 .. IntBound - 1 /\ b * d \in 0 .. IntBound - 1
      BY <1>2, <1>5, IntBoundAssumption
    <2> QED BY <2>1, WrapFits DEF AllianceMin, AllianceMax
  <1>7. NoAlliance(r) <=> b * d = 0
    BY <1>2, <1>6 DEF NoAlliance
  <1>8. low \in Nat /\ high \in Nat /\ low <= high /\ 1 <= high
    BY <1>2, <1>7
  <1>9. high * highShips < IntBound
    BY <1>4, <1>7
  <1> HIDE DEF low, high, lowShips, highShips
  <1>10. /\ low * lowShips \in 0 .. IntBound - 1
         /\ high * highShips \in 0 .. IntBound - 1
         /\ low * lowShips <= high * highShips
    <2>1. /\ low * lowShips \in Nat /\ high * highShips \in Nat
          /\ low * lowShips <= high * highShips
      BY <1>3, <1>8, ProductMonotone
    <2> QED BY <2>1, <1>9, IntBoundAssumption
  <1>11. low * 1 <= low * lowShips /\ high * 1 <= high * highShips
    <2>1. 1 <= highShips
      BY <1>3
    <2> QED BY <1>3, <1>8, <2>1, ProductMonotone
  <1>12. MinPlayers(r) = low * lowShips
    <2>1. MinPlayers(r) = Scale(low, s)
      BY <1>6 DEF MinPlayers, low
    <2>2. CASE s = 0
      BY <2>1, <2>2, <1>8 DEF Scale, lowShips
    <2>3. CASE s # 0
      BY <2>1, <2>3, <1>10, WrapFits DEF Scale, lowShips
    <2> QED BY <2>2, <2>3
  <1>13. MaxPlayers(r) = high * highShips
    <2>1. MaxPlayers(r) = Scale(high, t)
      BY <1>6 DEF MaxPlayers, high
    <2>2. CASE t = 0
      BY <2>1, <2>2, <1>8 DEF Scale, highShips
    <2>3. CASE t # 0
      BY <2>1, <2>3, <1>10, WrapFits DEF Scale, highShips
    <2> QED BY <2>2, <2>3
  <1>14. low = 0 <=> (a * c = 0 /\ b * d # 0)
    BY <1>7 DEF low
  <1>15. 1 <= MinPlayers(r) <=> low # 0
    <2>1. CASE low = 0
      BY <2>1, <1>3, <1>12
    <2>2. CASE low # 0
      BY <2>2, <1>8, <1>10, <1>11, <1>12
    <2> QED BY <2>1, <2>2
  <1>16. MinPlayers(r) \in Nat /\ MaxPlayers(r) \in Nat /\ MinPlayers(r) <= MaxPlayers(r)
    BY <1>10, <1>12, <1>13
  <1>17. 1 <= MaxPlayers(r)
    BY <1>8, <1>10, <1>11, <1>13
  <1> HIDE DEF a, b, c, d
  <1> QED BY <1>6, <1>14, <1>15, <1>16, <1>17 DEF Workable

=============================================================================
