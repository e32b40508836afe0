------------------------------ MODULE CostPolicy ------------------------------
(***************************************************************************)
(* What a decision costs (lossguard/costs.py, lossguard/constants.py).     *)
(* The same rules are written three times in the code: one row at a time   *)
(* for a response and for the training's metrics (realized_action_cost),   *)
(* over arrays in the threshold search (optimize_thresholds), and over     *)
(* arrays again in the dashboard (apps/dashboard/simulation.py).           *)
(*                                                                         *)
(* A row is a record [p, fraud, amount, margin, ltv].  Probabilities and   *)
(* thresholds are in ten-thousandths, margins in percent, amounts in       *)
(* dollars and costs in ten-thousandths of a dollar, so every product      *)
(* below is exact: the rounding of floats is abstracted from.              *)
(***************************************************************************)
EXTENDS Integers, Functions

Dollar == 10000
ReacquisitionCost == [low |-> 15, medium |-> 45, high |-> 120]
VerifyOperationCost == 3 * Dollar
DetectionRate == 85                  \* VERIFY_FRAUD_DETECTION_RATE, in percent
CaughtByVerify(cost) == (cost * DetectionRate) \div 100
MissedByVerify(cost) == (cost * (100 - DetectionRate)) \div 100
Abandoned(cost) == (cost * 8) \div 100           \* VERIFY_LEGIT_ABANDONMENT_RATE

Amount(r) == r.amount * Dollar
Friction(r) == r.amount * r.margin * (Dollar \div 100) + ReacquisitionCost[r.ltv] * Dollar

Actions == {"approve", "verify", "decline"}

\* Mutant of ActionFor: the thresholds themselves fall on the lower side.
ActionAbove(p, t) ==
    CHOOSE a \in Actions :
      \/ a = "decline" /\ p > t.decline
      \/ a = "verify" /\ p > t.verify /\ p <= t.decline
      \/ a = "approve" /\ p <= t.verify /\ p <= t.decline

\* action_for_probability: the decline threshold is looked at first.
ActionFor(p, t) ==
    CHOOSE a \in Actions :
      \/ a = "decline" /\ p >= t.decline
      \/ a = "verify" /\ p >= t.verify /\ p < t.decline
      \/ a = "approve" /\ p < t.verify /\ p < t.decline

\* realized_action_cost, for a row whose label is known.
RealizedCost(a, r) ==
    CASE a = "approve" -> IF r.fraud THEN Amount(r) ELSE 0
      [] a = "verify"  -> VerifyOperationCost + (IF r.fraud THEN MissedByVerify(Amount(r))
                                                            ELSE Abandoned(Friction(r)))
      [] a = "decline" -> IF r.fraud THEN 0 ELSE Friction(r)

\* What a frame, which holds rows[r] copies of each row r, comes to.
Sum(rows, each) == SumFunction([r \in DOMAIN rows |-> rows[r] * each[r]])

\* optimize_thresholds, for one pair of thresholds: np.where gives every row
\* an index, np.choose picks its cost.
Decision(r, t) == IF r.p >= t.decline THEN 2 ELSE IF r.p >= t.verify THEN 1 ELSE 0

\* Mutant of Chosen: verifying a fraud costs no operation.
ChosenCheap(r, t) ==
    LET cost == <<IF r.fraud THEN Amount(r) ELSE 0,
                  IF r.fraud THEN MissedByVerify(Amount(r))
                             ELSE VerifyOperationCost + Abandoned(Friction(r)),
                  IF r.fraud THEN 0 ELSE Friction(r)>>
    IN  cost[Decision(r, t) + 1]

Chosen(r, t) ==
    LET cost == <<IF r.fraud THEN Amount(r) ELSE 0,
                  VerifyOperationCost + (IF r.fraud THEN MissedByVerify(Amount(r))
                                                    ELSE Abandoned(Friction(r))),
                  IF r.fraud THEN 0 ELSE Friction(r)>>
    IN  cost[Decision(r, t) + 1]
Total(rows, t) == Sum(rows, [r \in DOMAIN rows |-> Chosen(r, t)])

-----------------------------------------------------------------------------
(***************************************************************************)
(* simulate_threshold: the dashboard moves the decline threshold and lets  *)
(* the verify threshold follow.                                            *)
(***************************************************************************)
Follow(d) ==
    LET near == IF (d * 55) \div 100 < d - 100 THEN (d * 55) \div 100 ELSE d - 100
    IN  [verify |-> IF near > 100 THEN near ELSE 100, decline |-> d]

SimulatedAction(p, t) ==
    IF p >= t.decline THEN "decline" ELSE IF p >= t.verify THEN "verify" ELSE "approve"

\* Mutant of SimulatedCost: the operation is charged for legitimate rows only.
SimulatedCheap(r, t) ==
    LET cost == [approve |-> IF r.fraud THEN Amount(r) ELSE 0,
                 verify  |-> IF r.fraud THEN MissedByVerify(Amount(r))
                                        ELSE VerifyOperationCost + Abandoned(Friction(r)),
                 decline |-> IF r.fraud THEN 0 ELSE Friction(r)]
    IN  cost[SimulatedAction(r.p, t)]

\* total_cost: approve_cost, verify_cost or decline_cost of a row.
SimulatedCost(r, t) ==
    LET cost == [approve |-> IF r.fraud THEN Amount(r) ELSE 0,
                 verify  |-> VerifyOperationCost + (IF r.fraud THEN MissedByVerify(Amount(r))
                                                               ELSE Abandoned(Friction(r))),
                 decline |-> IF r.fraud THEN 0 ELSE Friction(r)]
    IN  cost[SimulatedAction(r.p, t)]

\* fraud_caught_value, fraud_missed_cost and friction_cost of a row.
SimulatedCaught(r, t) ==
    CASE r.fraud /\ SimulatedAction(r.p, t) = "decline" -> Amount(r)
      [] r.fraud /\ SimulatedAction(r.p, t) = "verify"  -> CaughtByVerify(Amount(r))
      [] OTHER -> 0
SimulatedMissed(r, t) ==
    CASE r.fraud /\ SimulatedAction(r.p, t) = "approve" -> Amount(r)
      [] r.fraud /\ SimulatedAction(r.p, t) = "verify"  -> MissedByVerify(Amount(r))
      [] OTHER -> 0
SimulatedFriction(r, t) ==
    CASE SimulatedAction(r.p, t) = "verify" ->
           VerifyOperationCost + (IF r.fraud THEN 0 ELSE Abandoned(Friction(r)))
      [] SimulatedAction(r.p, t) = "decline" /\ ~ r.fraud -> Friction(r)
      [] OTHER -> 0

\* The sums over the frame; of an empty one they are zero, as in the code's
\* early return.
Simulate(rows, d) ==
    LET t == Follow(d)
        over(value(_, _)) == Sum(rows, [r \in DOMAIN rows |-> value(r, t)])
        taking(a) == [r \in DOMAIN rows |-> IF SimulatedAction(r.p, t) = a THEN 1 ELSE 0]
    IN  [verify |-> t.verify, total |-> over(SimulatedCost), missed |-> over(SimulatedMissed),
         friction |-> over(SimulatedFriction), caught |-> over(SimulatedCaught),
         count |-> [a \in Actions |-> Sum(rows, taking(a))]]
=============================================================================
