----------------------------- MODULE RiskDrivers -----------------------------
(***************************************************************************)
(* Which features an explanation names: safe_risk_drivers and              *)
(* template_explanation (lossguard/explanations.py), over the stored SHAP  *)
(* contributions of one transaction.                                       *)
(*                                                                         *)
(* An encoded feature contributes under several names, one per category,   *)
(* which _canonical_feature maps to one.  A contribution is a record of    *)
(* that feature, its sign, and its strength, rounded to four digits; its   *)
(* wording is left out.                                                    *)
(***************************************************************************)
EXTENDS Integers, Sequences, FiniteSets

CONSTANTS
    Features,        \* MODEL_FEATURES that the snapshot holds
    Contributions,   \* the lists that a row may have stored
    Limit            \* 3: drivers reported

\* No known feature, none of the snapshot, no finite number, no value that
\* _safe_value can show.
Unusable == "unusable"
Items == [feature : Features \cup {Unusable}, up : BOOLEAN, strength : Nat]
DriversAssumption == Contributions \subseteq Seq(Items) /\ Limit \in Nat

VARIABLES
    items,       \* contributions
    at,          \* the loop: the next one
    strongest    \* strongest_by_feature, in the order of its keys

vars == <<items, at, strongest>>

Init ==
    /\ items \in Contributions
    /\ at = 1
    /\ strongest = <<>>

Item == items[at]
SameFeature == {i \in DOMAIN strongest : strongest[i].feature = Item.feature}

\* Mutant of Stronger: of equals the last one stays.
StrongerOrEqual(d, e) == d.strength >= e.strength

\* Of contributions that round to the same strength the first one stays.
Stronger(d, e) == d.strength > e.strength

\* `continue`
Skips ==
    /\ at <= Len(items) /\ Item.feature = Unusable
    /\ at' = at + 1
    /\ UNCHANGED <<items, strongest>>

\* The first contribution of a feature.
Adds ==
    /\ at <= Len(items) /\ Item.feature # Unusable
    /\ SameFeature = {}
    /\ strongest' = Append(strongest, Item)
    /\ at' = at + 1
    /\ UNCHANGED items

\* Another one, whatever its sign: it takes the place of a weaker one.
Competes ==
    /\ at <= Len(items) /\ Item.feature # Unusable
    /\ SameFeature # {}
    /\ strongest' = [i \in DOMAIN strongest |->
                       IF i \in SameFeature /\ Stronger(Item, strongest[i])
                         THEN Item ELSE strongest[i]]
    /\ at' = at + 1
    /\ UNCHANGED items

Next == Skips \/ Adds \/ Competes
Spec == Init /\ [][Next]_vars

-----------------------------------------------------------------------------
\* Mutant of Ranked: the signs are not told apart.
RankedBySize == DOMAIN strongest

\* What raised the risk, or everything when nothing did.
Ranked == LET raised == {i \in DOMAIN strongest : strongest[i].up}
          IN  IF raised # {} THEN raised ELSE DOMAIN strongest

\* sorted(..., reverse=True) by strength, which is stable.
Before(i, j) == \/ strongest[i].strength > strongest[j].strength
                \/ strongest[i].strength = strongest[j].strength /\ i < j
Place(i) == Cardinality({j \in Ranked : Before(j, i)}) + 1

\* ranked[:limit]: what a provider is told, and the template's sentence names
\* the first two of.
Reported == IF Cardinality(Ranked) < Limit THEN Cardinality(Ranked) ELSE Limit
Drivers == [k \in 1 .. Reported |-> strongest[CHOOSE i \in Ranked : Place(i) = k]]

-----------------------------------------------------------------------------
(***************************************************************************)
(* Properties.                                                             *)
(***************************************************************************)

\* The loop over the contributions keeps, for each usable feature seen so far
\* and in the order in which they first appeared, the first of its strongest
\* contributions, the sign of which decides what becomes of the feature.
Seen == {k \in 1 .. at - 1 : items[k].feature # Unusable}
Best(k) == \A l \in Seen :
             items[l].feature = items[k].feature
               => items[l].strength < items[k].strength
                  \/ (items[l].strength = items[k].strength /\ k <= l)
FirstOf(f) == CHOOSE k \in Seen : items[k].feature = f /\ \A l \in Seen : items[l].feature = f => k <= l
StrongestOfEach ==
    /\ Len(strongest) = Cardinality({items[k].feature : k \in Seen})
    /\ \A i \in DOMAIN strongest :
         /\ \E k \in Seen : Best(k) /\ strongest[i] = items[k]
         /\ \A j \in 1 .. i - 1 : FirstOf(strongest[j].feature) < FirstOf(strongest[i].feature)

\* "Declined because X and Y raised estimated risk": as long as the strongest
\* contribution of any feature raised the risk, only such features are
\* reported, and those that are left out raised it no more.
DriversRaisedRisk ==
    at > Len(items) /\ (\E i \in DOMAIN strongest : strongest[i].up) =>
      \A k \in DOMAIN Drivers :
        /\ Drivers[k].up
        /\ \A i \in DOMAIN strongest :
             strongest[i].up /\ strongest[i].strength > Drivers[k].strength
               => \E l \in 1 .. k - 1 : Drivers[l] = strongest[i]

\* Why these hold: what is kept is of different features, those seen so far.
DriversInv ==
    /\ items \in Contributions /\ at \in 1 .. Len(items) + 1
    /\ strongest \in Seq(Items)
    /\ \A i, j \in DOMAIN strongest : strongest[i].feature = strongest[j].feature => i = j
    /\ {strongest[i].feature : i \in DOMAIN strongest} = {items[k].feature : k \in Seen}
    /\ StrongestOfEach
=============================================================================
