--------------------------- MODULE ThresholdPolicy ---------------------------
(* The two-threshold policy and the search that chooses it on the validation  *)
(* partition (backend/src/fraud_platform/decisioning/policy.py).              *)
(*                                                                            *)
(* A sample is a function from row labels to [score, fraud].  Scores, which   *)
(* are probabilities in the code, are integers; thresholds, which may lie     *)
(* between two scores, are counted in fractions 1 / Steps of a score.         *)
(* Costs and thresholds are exact where the code computes with floats.        *)
EXTENDS Integers, FiniteSets

CONSTANTS
  FraudLoss, FalseDeclineCost, ReviewCost,    \* CostAssumptions
  MissedReviewCost,      \* fraud_loss * (1 - review_capture_rate)
  ReviewCapacity,        \* review_capacity_fraction, in hundredths
  Steps                  \* linspace(0, 1, 101): a hundred steps

ASSUME CostsAssumption ==
  /\ FraudLoss \in Nat /\ FalseDeclineCost \in Nat /\ ReviewCost \in Nat
  /\ MissedReviewCost \in Nat /\ ReviewCapacity \in Nat

ASSUME StepsAssumption == Steps \in Nat \ {0}

Verdicts == {"ALLOW", "REVIEW", "BLOCK"}

Decide(policy, score) ==
  IF Steps * score >= policy.block THEN "BLOCK"
  ELSE IF Steps * score >= policy.allow THEN "REVIEW" ELSE "ALLOW"

(* The rows a policy gives the verdict to.                                    *)
Given(sample, policy, verdict) ==
  {i \in DOMAIN sample : Decide(policy, sample[i].score) = verdict}

ExpectedCost(sample, policy) ==
  LET fraud == {i \in DOMAIN sample : sample[i].fraud}
      Rows(verdict) == Given(sample, policy, verdict)
  IN   FalseDeclineCost * Cardinality(Rows("BLOCK") \ fraud)
     + ReviewCost * Cardinality(Rows("REVIEW"))
     + FraudLoss * Cardinality(Rows("ALLOW") \cap fraud)
     + MissedReviewCost * Cardinality(Rows("REVIEW") \cap fraud)

WithinCapacity(sample, policy) ==
  100 * Cardinality(Given(sample, policy, "REVIEW"))
    <= ReviewCapacity * Cardinality(DOMAIN sample)

ScoresOf(sample) == {sample[i].score : i \in DOMAIN sample}

RowsUpTo(sample, s) == {i \in DOMAIN sample : sample[i].score <= s}

(* The score at place j, counted from 0, of the sorted scores.                *)
OrderStatistic(sample, j) ==
  CHOOSE s \in ScoresOf(sample) :
    /\ Cardinality(RowsUpTo(sample, s)) > j
    /\ \A t \in ScoresOf(sample) : t < s => Cardinality(RowsUpTo(sample, t)) <= j

(* np.quantile at k / Steps: the place k * (rows - 1) / Steps of the sorted   *)
(* scores, between two scores their linear interpolation.                     *)
Quantile(sample, k) ==
  LET place == k * (Cardinality(DOMAIN sample) - 1)
      j == place \div Steps
      r == place % Steps
  IN IF r = 0 THEN Steps * OrderStatistic(sample, j)
     ELSE (Steps - r) * OrderStatistic(sample, j) + r * OrderStatistic(sample, j + 1)


(* The candidate thresholds.                                                  *)
Grid(sample) == {Quantile(sample, k) : k \in 0..Steps}

Candidates(grid) == {p \in [allow : grid, block : grid] : p.allow <= p.block}

Feasible(sample, grid) == {p \in Candidates(grid) : WithinCapacity(sample, p)}

(* The order in which the two nested loops visit the candidates.              *)
VisitedBefore(p, q) ==
  \/ p.allow < q.allow
  \/ p.allow = q.allow /\ p.block < q.block

(* The first of the cheapest candidates: a later one replaces it only when it *)
(* is strictly cheaper.  The fallback for no feasible candidate is left out:  *)
(* equal thresholds review nobody, so that there always is one.               *)
OptimizeThresholds(sample, grid) ==
  LET feasible == Feasible(sample, grid)
      costs == {ExpectedCost(sample, p) : p \in feasible}
      least == CHOOSE c \in costs : \A d \in costs : c <= d
      cheapest == {p \in feasible : ExpectedCost(sample, p) = least}
  IN CHOOSE p \in cheapest : \A q \in cheapest \ {p} : VisitedBefore(p, q)

(* How many rows may lie between a threshold and the next candidate.          *)
Slack(sample) ==
  LET n == Cardinality(DOMAIN sample) IN IF n = 1 THEN 0 ELSE (n - 2) \div Steps

(* The thresholds p keep the reviews within capacity, also with the slack.    *)
WithinCapacityAndSlack(sample, p) ==
  100 * (Cardinality(Given(sample, p, "REVIEW")) + Slack(sample))
    <= ReviewCapacity * Cardinality(DOMAIN sample)

(* No thresholds that block a row and leave the slack in the capacity cost    *)
(* less than the chosen ones, but for the rows between two candidates.        *)
IsNearlyCheapest(sample, policy, thresholds) ==
  \A p \in [allow : thresholds, block : thresholds] :
    /\ p.allow <= p.block
    /\ WithinCapacityAndSlack(sample, p)
    /\ Given(sample, p, "BLOCK") # {}
    => ExpectedCost(sample, policy) <=
         ExpectedCost(sample, p) + Slack(sample) * (FraudLoss + ReviewCost + MissedReviewCost)
=============================================================================
