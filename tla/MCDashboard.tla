----------------------------- MODULE MCDashboard -----------------------------
(* Finite instances of what the dashboard's page shows, which do not touch  *)
(* each other: the model health (DriftHealth), the explanation of a         *)
(* transaction (ExplanationCache), the drivers in it (RiskDrivers), and the *)
(* costs that thresholds are chosen by and simulated with                   *)
(* (ThresholdTraining).  A behaviour moves one of them, its `part`; the     *)
(* others stay at one of their initial states.                              *)
EXTENDS DriftHealth, Sequences, TLC

CONSTANTS Sessions, Providers, Versions, NoOne, MaxRescores, s1, s2, v1, v2
CONSTANTS Features, Contributions, Limit
CONSTANTS VerifyGrid, DeclineGrid, Categories, Frames, MinFraudRows, Global

VARIABLES part,
    row, text, recent, config, lock, spc, selected, draft, calls, rescores,
    clearings, failures,
    items, at, strongest,
    frame, segment, vi, di, best, pairs

Cache == INSTANCE ExplanationCacheProofs WITH pc <- spc, faults <- failures
Drivers == INSTANCE RiskDrivers
Search == INSTANCE ThresholdTraining

ASSUME CacheAssumed == Cache!CacheAssumption
ASSUME DriversAssumed == Drivers!DriversAssumption
ASSUME TrainingAssumed == Search!TrainingAssumption

cache == <<row, text, recent, config, lock, spc, selected, draft, calls, rescores,
           clearings, failures>>
drivers == <<items, at, strongest>>
search == <<frame, segment, vi, di, best, pairs>>
all == <<part, vars, cache, drivers, search>>

-----------------------------------------------------------------------------
\* Contributions of three features, one of which may come under two names, and
\* some that cannot be used.
MCContributions ==
    [1 .. 4 -> [feature : Features, up : BOOLEAN, strength : {1, 2}]
               \cup {[feature |-> "unusable", up |-> TRUE, strength |-> 1]}]
NoContribution == [k \in 1 .. 4 |-> [feature |-> "unusable", up |-> TRUE, strength |-> 1]]

\* A few values of the two grids, which overlap as the real ones do, and rows
\* on both sides of them and exactly on them.
Net == "shopping_net"
Pos == "grocery_pos"
MCVerifyGrid == <<100, 1500, 2500, 4000>>
MCDeclineGrid == <<1000, 2500, 5000, 9500>>
Row(p, fraud, amount, margin, ltv) ==
    [p |-> p, fraud |-> fraud, amount |-> amount, margin |-> margin, ltv |-> ltv]
Classes == {Row(2000, FALSE, 100, 30, "low"), Row(2500, TRUE, 200, 30, "low"),
            Row(100, TRUE, 20, 10, "medium"), Row(9500, FALSE, 40, 10, "high")}
Other == {Row(1000, FALSE, 60, 30, "medium"), Row(5000, TRUE, 90, 30, "high")}
Frame(f, n) == (Net :> f) @@ (Pos :> [r \in Other |-> n])
NoRow == [r \in Classes |-> 0]

\* Every combination of absent, single and many rows in one category, beside
\* another one that has no row, too little fraud, or enough of it.
MCFrames == {Frame(f, n) : f \in [Classes -> {0, 1, 6}], n \in {0, 2, 7}} \ {Frame(NoRow, 0)}

-----------------------------------------------------------------------------
OfHealth(A) == part = "health" /\ A /\ UNCHANGED <<part, cache, drivers, search>>
OfCache(A) == part = "cache" /\ A /\ UNCHANGED <<part, vars, drivers, search>>
OfDrivers(A) == part = "drivers" /\ A /\ UNCHANGED <<part, vars, cache, search>>
OfSearch(A) == part = "search" /\ A /\ UNCHANGED <<part, vars, cache, drivers>>

\* One initial state of each part that does not move.
Unmoved(p) == part # p
InitAll ==
    /\ part \in {"health", "cache", "drivers", "search"}
    /\ metadata \in IF Unmoved("health") THEN {"missing"} ELSE {"missing", "readable"}
    /\ Init
    /\ row \in IF Unmoved("cache") THEN {v1} ELSE Versions
    /\ config \in IF Unmoved("cache") THEN {"template"} ELSE Cache!Configs
    /\ Cache!Init
    /\ items \in IF Unmoved("drivers") THEN {NoContribution} ELSE Contributions
    /\ Drivers!Init
    /\ frame \in IF Unmoved("search") THEN {Frame(NoRow, 2)} ELSE Frames
    /\ Search!Init

NextAll == OfHealth(Next) \/ OfCache(Cache!Next) \/ OfDrivers(Drivers!Next) \/ OfSearch(Search!Next)

\* Fairness of DriftHealth and of ExplanationCache; a search ends or does not.
FairnessAll ==
    /\ WF_all(OfHealth(Start)) /\ WF_all(OfHealth(Wake)) /\ WF_all(OfHealth(Tick))
    /\ \A j \in Jobs : WF_all(OfHealth(Work(j)))
    /\ \A s \in Sessions : /\ WF_all(OfCache(Cache!InTransaction(s)))
                           /\ SF_all(OfCache(Cache!Locks(s)))

SpecAll == InitAll /\ [][NextAll]_all /\ FairnessAll

-----------------------------------------------------------------------------
\* The properties of the modules, each of its own part.
MonitorEvaluatesAgain == part = "health" => EvaluatesAgain
GeneratedOnce == Cache!GeneratedOnce
ReviewsEnd == Cache!ReviewsEnd
OnlyStalePagesMislead == Cache!OnlyStalePagesMislead
StrongestOfEach == part = "drivers" => Drivers!StrongestOfEach
DriversRaisedRisk == part = "drivers" => Drivers!DriversRaisedRisk
BestIsFirstMinimum == part = "search" => Search!BestIsFirstMinimum
CategoriesNeverCostMore == part = "search" => Search!CategoriesNeverCostMore
SweepMatchesScoring == part = "search" => Search!SweepMatchesScoring
SimulationReconciles == part = "search" => Search!SimulationReconciles
=============================================================================
