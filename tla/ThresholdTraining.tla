-------------------------- MODULE ThresholdTraining --------------------------
(***************************************************************************)
(* How training chooses thresholds: optimize_thresholds (lossguard/        *)
(* costs.py) sweeps a grid of pairs over the whole validation frame, and   *)
(* then over the rows of each merchant category that has enough fraud in   *)
(* it (ml/train.py); the other categories get the global pair.             *)
(***************************************************************************)
EXTENDS CostPolicy, Sequences, FiniteSets

CONSTANTS
    VerifyGrid, DeclineGrid,  \* thresholds to try, in ascending order: some
                              \* verify threshold is below some decline threshold
    Categories,               \* merchant categories
    Frames,                   \* validation frames, not empty: category -> row -> copies
    MinFraudRows,             \* 5: fewer fraud rows fall back to the global pair
    Global                    \* no category: the segment that holds every row

Done == "done"

\* Rows with probabilities, amounts and margins that are not negative.
Scored == [p : Nat, fraud : BOOLEAN, amount : Nat, margin : Nat, ltv : DOMAIN ReacquisitionCost]
TrainingAssumption ==
    /\ VerifyGrid \in Seq(Nat) /\ DeclineGrid \in Seq(Nat)
    /\ \E i \in DOMAIN VerifyGrid, j \in DOMAIN DeclineGrid : VerifyGrid[i] < DeclineGrid[j]
    /\ IsFiniteSet(Categories) /\ MinFraudRows \in Nat
    /\ Global \notin Categories \cup {Done} /\ Done \notin Categories
    /\ \A f \in Frames :
         /\ DOMAIN f = Categories
         /\ \A c \in Categories : /\ IsFiniteSet(DOMAIN f[c]) /\ DOMAIN f[c] \subseteq Scored
                                 /\ f[c] \in [DOMAIN f[c] -> Nat]

VARIABLES
    frame,    \* threshold_frame
    segment,  \* the rows being swept
    vi, di,   \* verify_threshold and decline_threshold: indices in the grids
    best,     \* best: the thresholds, and their total
    pairs     \* global_thresholds and category_thresholds, as far as chosen

vars == <<frame, segment, vi, di, best, pairs>>

Infinity == -1
Unset == [verify |-> 1500, decline |-> 5000, cost |-> Infinity]

Rows(s) == IF s = Global
             THEN [r \in UNION {DOMAIN frame[c] : c \in Categories} |->
                     SumFunction([c \in Categories |->
                                    IF r \in DOMAIN frame[c] THEN frame[c][r] ELSE 0])]
             ELSE frame[s]
FraudRows(s) == Sum(Rows(s), [r \in DOMAIN Rows(s) |-> IF r.fraud THEN 1 ELSE 0])
EnoughFraud(s) == s = Global \/ FraudRows(s) >= MinFraudRows
Pair(i, j) == [verify |-> VerifyGrid[i], decline |-> DeclineGrid[j]]

Init ==
    /\ frame \in Frames
    /\ segment = Global
    /\ vi = 1 /\ di = 1
    /\ best = Unset
    /\ pairs = <<>>

\* The two for-loops.
Sweeping == segment # Done /\ EnoughFraud(segment) /\ vi <= Len(VerifyGrid)
Advances == IF di < Len(DeclineGrid) THEN vi' = vi /\ di' = di + 1
                                     ELSE vi' = vi + 1 /\ di' = 1

\* `if verify_threshold >= decline_threshold: continue`.
Unordered(t) == t.verify >= t.decline

SkipsPair ==
    /\ Sweeping
    /\ Unordered(Pair(vi, di))
    /\ Advances
    /\ UNCHANGED <<frame, segment, best, pairs>>

\* Mutant of Beats: of equal totals the last one stays.
BeatsOrTies(total) == best.cost = Infinity \/ total <= best.cost

\* `if total < best[2]`.
Beats(total) == best.cost = Infinity \/ total < best.cost

\* What the pair would have cost on the rows of the segment.
TriesPair ==
    /\ Sweeping
    /\ ~ Unordered(Pair(vi, di))
    /\ LET t == Pair(vi, di)
           total == Total(Rows(segment), t)
       IN  best' = IF Beats(total)
                     THEN [verify |-> t.verify, decline |-> t.decline, cost |-> total]
                     ELSE best
    /\ Advances
    /\ UNCHANGED <<frame, segment, pairs>>

\* The categories that the validation frame has rows of.
Present == {c \in Categories : SumFunction(frame[c]) > 0}

\* Mutant of Restarts: the sweep of a category starts from the last best.
RestartsFromBest(rest) ==
    /\ segment' \in IF rest = {} THEN {Done} ELSE rest
    /\ vi' = 1 /\ di' = 1
    /\ UNCHANGED best

\* The next sweep, if there is another category.
Restarts(rest) ==
    /\ segment' \in IF rest = {} THEN {Done} ELSE rest
    /\ vi' = 1 /\ di' = 1
    /\ best' = Unset

\* optimize_thresholds returns.
Keeps(thresholds) ==
    /\ pairs' = [s \in DOMAIN pairs \cup {segment} |-> IF s = segment THEN thresholds ELSE pairs[s]]
    /\ Restarts(Present \ (DOMAIN pairs \cup {segment}))
    /\ UNCHANGED frame

EndsSweep ==
    /\ segment # Done /\ vi > Len(VerifyGrid)
    /\ Keeps([verify |-> best.verify, decline |-> best.decline])

\* Too few fraud rows: "fallback": "global".
FallsBack ==
    /\ segment # Done /\ ~ EnoughFraud(segment)
    /\ Keeps(pairs[Global])

Next == SkipsPair \/ TriesPair \/ EndsSweep \/ FallsBack

Spec == Init /\ [][Next]_vars

-----------------------------------------------------------------------------
(***************************************************************************)
(* Properties.                                                             *)
(***************************************************************************)

\* The grid positions tried so far in this sweep, in the order of the loops.
Tried == {x \in (DOMAIN VerifyGrid) \X (DOMAIN DeclineGrid) :
            /\ x[1] < vi \/ (x[1] = vi /\ x[2] < di)
            /\ VerifyGrid[x[1]] < DeclineGrid[x[2]]}
Earlier(x, y) == x[1] < y[1] \/ (x[1] = y[1] /\ x[2] < y[2])
CostAt(x) == Total(Rows(segment), Pair(x[1], x[2]))

\* The loop invariant of optimize_thresholds: best is the cheapest pair tried
\* in this sweep, and of equally cheap ones the first.
BestIsFirstMinimum ==
    segment # Done =>
      \/ Tried = {} /\ best = Unset
      \/ \E x \in Tried :
           /\ best = [verify |-> VerifyGrid[x[1]], decline |-> DeclineGrid[x[2]],
                      cost |-> CostAt(x)]
           /\ \A y \in Tried \ {x} : CostAt(x) < CostAt(y)
                                     \/ (CostAt(x) = CostAt(y) /\ Earlier(x, y))

\* "The training job searches category-specific verification and decline
\* thresholds that minimize these realized costs" (docs/business-
\* assumptions.md): on the validation set the category thresholds together
\* never cost more than the global ones, so estimated_savings sum to at least
\* zero there, however the fallback is used.
CategoriesNeverCostMore ==
    segment = Done =>
      SumFunction([c \in Present |-> Total(frame[c], pairs[c])])
        <= Total(Rows(Global), pairs[Global])

\* The sweep minimizes what a response realizes: the arrays of
\* optimize_thresholds and action_for_probability with realized_action_cost
\* give a row the same cost under every pair, the boundaries included.
SweepMatchesScoring ==
    \A c \in Categories, i \in DOMAIN VerifyGrid, j \in DOMAIN DeclineGrid :
      LET t == Pair(i, j)
      IN  t.verify < t.decline =>
            \A r \in DOMAIN frame[c] : Chosen(r, t) = RealizedCost(ActionFor(r.p, t), r)

\* The dashboard's breakdown, at every position of its slider: what fraud and
\* friction cost is the total, what fraud is worth is caught or missed, every
\* row has one action, and the total is what those actions realize.
Slider == {d * 100 : d \in 5 .. 95}
SimulationReconciles ==
    segment = Global /\ vi = 1 /\ di = 1 =>
      \A c \in Categories, d \in Slider :
        LET rows == frame[c]
            sim == Simulate(rows, d)
        IN  /\ sim.total = sim.missed + sim.friction
            /\ sim.caught + sim.missed = Sum(rows, [r \in DOMAIN rows |-> IF r.fraud THEN Amount(r) ELSE 0])
            /\ sim.count["approve"] + sim.count["verify"] + sim.count["decline"]
                 = SumFunction(rows)
            /\ sim.verify < d
            /\ sim.total = Sum(rows, [r \in DOMAIN rows |-> RealizedCost(ActionFor(r.p, Follow(d)), r)])

\* Why these hold: the loops pass every pair of the grid that is in order, and
\* every pair kept is one of them, the cheapest for the rows it was kept for, or
\* the global one.
Ordered == {x \in (DOMAIN VerifyGrid) \X (DOMAIN DeclineGrid) :
              VerifyGrid[x[1]] < DeclineGrid[x[2]]}
SweepInv ==
    /\ frame \in Frames /\ segment \in {Global, Done} \cup Present
    /\ vi \in 1 .. Len(VerifyGrid) + 1 /\ di \in 1 .. Len(DeclineGrid)
    /\ BestIsFirstMinimum
CheapestFor(c) ==
    \A x \in Ordered : Total(frame[c], pairs[c]) <= Total(frame[c], Pair(x[1], x[2]))
PairsInv ==
    /\ segment \notin DOMAIN pairs /\ DOMAIN pairs \subseteq {Global} \cup Present
    /\ Global \in DOMAIN pairs \/ (segment = Global /\ DOMAIN pairs = {})
    /\ segment = Done => Present \subseteq DOMAIN pairs
    /\ \A s \in DOMAIN pairs : \E x \in Ordered : pairs[s] = Pair(x[1], x[2])
    /\ \A c \in DOMAIN pairs \ {Global} : pairs[c] = pairs[Global] \/ CheapestFor(c)
=============================================================================
