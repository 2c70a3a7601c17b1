--------------------------- MODULE TrainingProofs ---------------------------
(* What the two decisions of a training run do for every file and every       *)
(* validation sample: the chronological split, then the choice of thresholds. *)
EXTENDS TemporalSplit, ThresholdPolicy, FiniteSetTheorems, TLAPS

(* A set of naturals that is not empty has a least element.                   *)
LEMMA LeastNatural ==
  ASSUME NEW S \in SUBSET Nat, S # {}
  PROVE  \E m \in S : \A k \in S : m <= k
<1>1. \E m \in S : \A k \in S : ~ (<<k, m>> \in OpToRel(<, Nat))
  BY NatLessThanWellFounded, WFMin, Zenon
<1>2. \A k, m \in S : k < m => <<k, m>> \in OpToRel(<, Nat)
  BY DEF OpToRel
<1>3. \E m \in S : \A k \in S : ~ (k < m)
  BY <1>1, <1>2, Zenon
<1> QED
  BY <1>3

(* A file has finitely many timestamps, all of them times.                    *)
LEMMA TimestampsAreFinite ==
  ASSUME NEW frame, IsFrame(frame)
  PROVE  Timestamps(frame) \in SUBSET Nat /\ IsFiniteSet(Timestamps(frame))
<1> DEFINE at == [i \in DOMAIN frame |-> frame[i].at]
<1>1. at \in Surjection(DOMAIN frame, Timestamps(frame))
  BY DEF Timestamps, Surjection
<1> QED
  BY <1>1, FS_Surjection DEF IsFrame, Timestamps

(* The timestamps up to and including t.                                      *)
UpTo(frame, t) == {u \in Timestamps(frame) : u <= t}

(* Later timestamps have more timestamps up to them.                          *)
LEMMA LaterRanksHigher ==
  ASSUME NEW frame, IsFrame(frame),
         NEW t \in Timestamps(frame), NEW u \in Timestamps(frame)
  PROVE  /\ IsFiniteSet(UpTo(frame, t))
         /\ Cardinality(UpTo(frame, t)) \in 1..Cardinality(Timestamps(frame))
         /\ t <= u => Cardinality(UpTo(frame, t)) <= Cardinality(UpTo(frame, u))
         /\ t < u => Cardinality(UpTo(frame, t)) < Cardinality(UpTo(frame, u))
<1> USE TimestampsAreFinite
<1>1. \A v \in Timestamps(frame) :
        /\ IsFiniteSet(UpTo(frame, v))
        /\ Cardinality(UpTo(frame, v)) \in Nat
        /\ Cardinality(UpTo(frame, v)) <= Cardinality(Timestamps(frame))
        /\ Cardinality(UpTo(frame, v)) # 0
  <2> TAKE v \in Timestamps(frame)
  <2>1. UpTo(frame, v) \in SUBSET Timestamps(frame) /\ v \in UpTo(frame, v)
    BY DEF UpTo
  <2> QED
    BY <2>1, FS_Subset, FS_CardinalityType, FS_EmptySet
<1>2. Cardinality(Timestamps(frame)) \in Nat
  BY FS_CardinalityType
<1>3. t <= u => Cardinality(UpTo(frame, t)) <= Cardinality(UpTo(frame, u))
  <2>1. t <= u => UpTo(frame, t) \in SUBSET UpTo(frame, u)
    BY DEF UpTo
  <2> QED
    BY <2>1, <1>1, FS_Subset
<1>4. t < u => Cardinality(UpTo(frame, t)) # Cardinality(UpTo(frame, u))
  <2>1. t < u => UpTo(frame, t) \in SUBSET UpTo(frame, u) /\ UpTo(frame, t) # UpTo(frame, u)
    BY DEF UpTo
  <2> QED
    BY <2>1, <1>1, FS_Subset
<1> QED
  BY <1>1, <1>2, <1>3, <1>4

(* Every rank from 1 to the number of timestamps is that of some timestamp.   *)
LEMMA RanksAreDense ==
  ASSUME NEW frame, IsFrame(frame), NEW k \in 1..Cardinality(Timestamps(frame))
  PROVE  \E t \in Timestamps(frame) : Cardinality(UpTo(frame, t)) = k
<1> DEFINE T == Timestamps(frame)
           rank(t) == Cardinality(UpTo(frame, t))
           low == {t \in T : rank(t) < k}
           high == {t \in T : rank(t) >= k}
<1>1. T \in SUBSET Nat /\ IsFiniteSet(T) /\ Cardinality(T) \in Nat
  BY TimestampsAreFinite, FS_CardinalityType
<1>2. \A t \in T : rank(t) \in 1..Cardinality(T)
  BY LaterRanksHigher
<1>3. high # {}
  <2>1. T # {}
    BY <1>1, FS_EmptySet
  <2> DEFINE beyond == {Cardinality(T) - rank(t) : t \in T}
  <2>2. beyond \in SUBSET Nat /\ beyond # {}
    BY <1>1, <1>2, <2>1
  <2>3. PICK b \in beyond : \A c \in beyond : b <= c
    <3> HIDE DEF beyond
    <3> QED BY <2>2, LeastNatural
  <2>4. PICK m \in T : b = Cardinality(T) - rank(m)
    BY <2>3
  <2>5. \A t \in T : rank(t) <= rank(m)
    <3> SUFFICES ASSUME NEW t \in T PROVE rank(t) <= rank(m)
      OBVIOUS
    <3>1. Cardinality(T) - rank(t) \in beyond
      OBVIOUS
    <3>2. b <= Cardinality(T) - rank(t)
      <4> HIDE DEF beyond
      <4> QED BY <2>3, <3>1
    <3>3. rank(t) \in Nat /\ rank(m) \in Nat
      BY <1>2
    <3> HIDE DEF T, rank, beyond
    <3> QED BY <2>4, <3>2, <3>3, <1>1
  <2>6. \A t \in T : t <= m
    <3> SUFFICES ASSUME NEW t \in T, t > m PROVE FALSE
      BY <1>1
    <3>1. rank(m) < rank(t)
      BY LaterRanksHigher, <1>1
    <3> QED BY <3>1, <2>5, <1>1, <1>2
  <2>7. UpTo(frame, m) = T
    BY <2>6 DEF UpTo
  <2> QED
    BY <2>7, <1>1, <2>4
<1>4. PICK t \in high : \A u \in high : t <= u
  BY <1>1, <1>3, LeastNatural
<1>5. UpTo(frame, t) = {u \in T : u < t} \cup {t} /\ {u \in T : u < t} \in SUBSET low
  <2>1. UpTo(frame, t) = {u \in T : u < t} \cup {t}
    BY <1>1, <1>4 DEF UpTo
  <2>2. \A u \in T : u < t => u \in low
    BY <1>1, <1>2, <1>4
  <2> QED BY <2>1, <2>2
<1>6. IsFiniteSet({u \in T : u < t}) /\ rank(t) = Cardinality({u \in T : u < t}) + 1
  <2> DEFINE B == {u \in T : u < t}
  <2>1. IsFiniteSet(B) /\ t \notin B
    <3>1. B \in SUBSET T /\ t \notin B
      BY <1>1, <1>4
    <3> QED BY <3>1, <1>1, FS_Subset
  <2>2. Cardinality(B \cup {t}) = Cardinality(B) + 1
    <3> HIDE DEF B
    <3> QED BY <2>1, FS_AddElement
  <2> QED
    BY <2>1, <2>2, <1>5
<1>7. Cardinality({u \in T : u < t}) < k
  <2>1. CASE {u \in T : u < t} = {}
    BY <2>1, FS_EmptySet
  <2>2. CASE {u \in T : u < t} # {}
    <3> DEFINE B == {u \in T : u < t}
               beyond == {t - u : u \in B}
    <3>1. beyond \in SUBSET Nat /\ beyond # {}
      BY <1>1, <1>4, <2>2
    <3>2. PICK b \in beyond : \A c \in beyond : b <= c
      <4> HIDE DEF beyond
      <4> QED BY <3>1, LeastNatural
    <3>3. PICK m \in B : b = t - m
      BY <3>2
    <3>4. \A u \in B : u <= m
      BY <3>2, <3>3, <1>1, <1>4
    <3>5. UpTo(frame, m) = B
      BY <3>3, <3>4, <1>1, <1>4 DEF UpTo
    <3> QED
      BY <3>5, <3>3, <1>5
  <2> QED BY <2>1, <2>2
<1> QED
  BY <1>1, <1>2, <1>4, <1>6, <1>7, FS_CardinalityType

(* The rank of a row is that of its timestamp.                                *)
LEMMA RowRank ==
  ASSUME NEW frame, IsFrame(frame), NEW i \in DOMAIN frame
  PROVE  /\ frame[i].at \in Timestamps(frame)
         /\ Rank(frame, i) = Cardinality(UpTo(frame, frame[i].at))
         /\ Rank(frame, i) \in 1..Cardinality(Timestamps(frame))
<1>1. frame[i].at \in Timestamps(frame)
  BY DEF Timestamps
<1>2. Rank(frame, i) = Cardinality(UpTo(frame, frame[i].at))
  BY DEF Rank, UpTo
<1> QED
  BY <1>1, <1>2, LaterRanksHigher

(* With a training fraction of at most 66 hundredths, as the default is, the  *)
(* cuts leave room for three partitions however few the timestamps.           *)
LEMMA CutsInOrder ==
  ASSUME NEW n \in Nat, n >= 3
  PROVE  /\ TrainCut(n) \in 1..n /\ ValidationCut(n) \in Nat /\ ValidationCut(n) < n
         /\ TrainPercent <= 66 => TrainCut(n) < ValidationCut(n)
<1> USE FractionsAssumption
<1>1. (n * TrainPercent) \div 100 \in Nat /\ 100 * ((n * TrainPercent) \div 100) <= n * TrainPercent
  <2>1. n * TrainPercent \in Nat
    OBVIOUS
  <2> DEFINE a == n * TrainPercent
  <2>2. a \in Nat => a \div 100 \in Nat /\ 100 * (a \div 100) <= a
    <3> HIDE DEF a
    <3> QED OBVIOUS
  <2> QED BY <2>1, <2>2
<1>2. (n * (TrainPercent + ValidationPercent)) \div 100 \in Nat
  <2> DEFINE a == n * (TrainPercent + ValidationPercent)
  <2>1. a \in Nat
    OBVIOUS
  <2>2. a \in Nat => a \div 100 \in Nat
    <3> HIDE DEF a
    <3> QED OBVIOUS
  <2> QED BY <2>1, <2>2
<1>3. n * TrainPercent <= n * 99 /\ (TrainPercent <= 66 => n * TrainPercent <= n * 66)
  OBVIOUS
<1> DEFINE a == (n * TrainPercent) \div 100
           b == (n * (TrainPercent + ValidationPercent)) \div 100
<1>4. a \in Nat /\ b \in Nat /\ 100 * a <= 99 * n /\ (TrainPercent <= 66 => 100 * a <= 66 * n)
  BY <1>1, <1>2, <1>3
<1>5. TrainCut(n) = Larger(1, a) /\ ValidationCut(n) = Smaller(Larger(TrainCut(n) + 1, b), n - 1)
  BY DEF TrainCut, ValidationCut
<1> HIDE DEF a, b
<1> QED
  BY <1>4, <1>5 DEF Larger, Smaller

(* Whatever the fractions and however the timestamps are tied, rows are       *)
(* shared out by time; every row of a partition precedes the next partition.  *)
THEOREM SplitIsByTime ==
  ASSUME NEW frame, IsFrame(frame), SplitSucceeds(frame)
  PROVE  IsChronological(frame, Split(frame))
<1> DEFINE n == Cardinality(Timestamps(frame))
           parts == Split(frame)
<1>1. n \in Nat /\ n >= 3
  BY TimestampsAreFinite, FS_CardinalityType DEF SplitSucceeds
<1>2. TrainCut(n) \in Nat /\ ValidationCut(n) \in Nat /\ TrainCut(n) <= n /\ ValidationCut(n) < n
  BY <1>1, CutsInOrder
<1>3. /\ parts.train = {i \in DOMAIN frame : 0 < Rank(frame, i) /\ Rank(frame, i) <= TrainCut(n)}
      /\ parts.validation = {i \in DOMAIN frame :
           TrainCut(n) < Rank(frame, i) /\ Rank(frame, i) <= ValidationCut(n)}
      /\ parts.test = {i \in DOMAIN frame : ValidationCut(n) < Rank(frame, i) /\ Rank(frame, i) <= n}
  BY DEF Split
<1>4. \A i \in DOMAIN frame : Rank(frame, i) \in 1..n
  BY RowRank
<1>5. \A i, j \in DOMAIN frame : Rank(frame, i) < Rank(frame, j) => frame[i].at < frame[j].at
  <2> SUFFICES ASSUME NEW i \in DOMAIN frame, NEW j \in DOMAIN frame, frame[j].at <= frame[i].at
               PROVE  Rank(frame, j) <= Rank(frame, i)
    BY <1>4 DEF IsFrame
  <2> QED
    BY RowRank, LaterRanksHigher
<1>6. {} \notin {parts.train, parts.validation, parts.test}
  BY DEF SplitSucceeds
<1>7. TrainCut(n) < ValidationCut(n)
  <2>1. PICK i \in parts.validation : TRUE
    BY <1>6
  <2>2. i \in DOMAIN frame /\ TrainCut(n) < Rank(frame, i) /\ Rank(frame, i) <= ValidationCut(n)
    BY <1>3, <2>1
  <2> QED BY <2>2, <1>2, <1>4
<1> HIDE DEF n, parts
<1>8. parts.train \cup parts.validation \cup parts.test = DOMAIN frame
  BY <1>1, <1>2, <1>3, <1>4, <1>7
<1>9. \A i \in parts.train, j \in parts.validation : frame[i].at < frame[j].at
  BY <1>1, <1>2, <1>3, <1>4, <1>5
<1>10. \A i \in parts.validation, j \in parts.test : frame[i].at < frame[j].at
  BY <1>1, <1>2, <1>3, <1>4, <1>5
<1>11. IsChronological(frame, parts)
  BY <1>6, <1>8, <1>9, <1>10 DEF IsChronological
<1> QED
  BY <1>11 DEF parts

(* With the default fractions a file that meets the contract and has three    *)
(* distinct timestamps is always split: no partition comes out empty.         *)
THEOREM SplitNeverEmpty ==
  ASSUME NEW frame, IsFrame(frame), TrainPercent <= 66,
         MeetsContract(frame), Cardinality(Timestamps(frame)) >= 3
  PROVE  SplitSucceeds(frame)
<1> DEFINE n == Cardinality(Timestamps(frame))
           parts == Split(frame)
<1>1. n \in Nat /\ n >= 3
  BY TimestampsAreFinite, FS_CardinalityType
<1>2. TrainCut(n) \in 1..n /\ ValidationCut(n) \in Nat
      /\ TrainCut(n) < ValidationCut(n) /\ ValidationCut(n) < n
  BY <1>1, CutsInOrder
<1>3. \A k \in 1..n : \E i \in DOMAIN frame : Rank(frame, i) = k
  <2> SUFFICES ASSUME NEW k \in 1..n PROVE \E i \in DOMAIN frame : Rank(frame, i) = k
    OBVIOUS
  <2>1. PICK t \in Timestamps(frame) : Cardinality(UpTo(frame, t)) = k
    BY RanksAreDense
  <2>2. PICK i \in DOMAIN frame : t = frame[i].at
    BY DEF Timestamps
  <2> QED
    BY <2>1, <2>2, RowRank
<1>4. PICK i \in DOMAIN frame : Rank(frame, i) = 1
  BY <1>1, <1>3
<1>5. PICK j \in DOMAIN frame : Rank(frame, j) = ValidationCut(n)
  BY <1>1, <1>2, <1>3
<1>6. PICK k \in DOMAIN frame : Rank(frame, k) = n
  BY <1>1, <1>3
<1>7. i \in parts.train /\ j \in parts.validation /\ k \in parts.test
  BY <1>1, <1>2, <1>4, <1>5, <1>6 DEF Split
<1> QED
  BY <1>7 DEF SplitSucceeds

----------------------------------------------------------------------------
(* Thresholds                                                                 *)

(* A sample of finitely many rows, at least one, with scores that compare.    *)
IsSample(sample) ==
  /\ IsFiniteSet(DOMAIN sample) /\ DOMAIN sample # {}
  /\ \A i \in DOMAIN sample : sample[i].score \in Nat

(* Costs are naturals: each counts rows of a finite sample.                   *)
LEMMA CostsAreNatural ==
  ASSUME NEW sample, IsSample(sample), NEW policy
  PROVE  ExpectedCost(sample, policy) \in Nat
<1> DEFINE fraud == {i \in DOMAIN sample : sample[i].fraud}
           declined == Given(sample, policy, "BLOCK") \ fraud
           reviewed == Given(sample, policy, "REVIEW")
           lost == Given(sample, policy, "ALLOW") \cap fraud
           missed == Given(sample, policy, "REVIEW") \cap fraud
<1>1. /\ declined \in SUBSET DOMAIN sample /\ reviewed \in SUBSET DOMAIN sample
      /\ lost \in SUBSET DOMAIN sample /\ missed \in SUBSET DOMAIN sample
  BY DEF Given
<1>2. ExpectedCost(sample, policy) =
        FalseDeclineCost * Cardinality(declined) + ReviewCost * Cardinality(reviewed)
          + FraudLoss * Cardinality(lost) + MissedReviewCost * Cardinality(missed)
  BY DEF ExpectedCost
<1> HIDE DEF declined, reviewed, lost, missed
<1>3. /\ Cardinality(declined) \in Nat /\ Cardinality(reviewed) \in Nat
      /\ Cardinality(lost) \in Nat /\ Cardinality(missed) \in Nat
  BY <1>1, FS_Subset, FS_CardinalityType DEF IsSample
<1>4. \A a, b \in Nat : a * b \in Nat
  OBVIOUS
<1>5. /\ FalseDeclineCost * Cardinality(declined) \in Nat
      /\ ReviewCost * Cardinality(reviewed) \in Nat
      /\ FraudLoss * Cardinality(lost) \in Nat
      /\ MissedReviewCost * Cardinality(missed) \in Nat
  BY <1>3, <1>4, CostsAssumption
<1> QED
  BY <1>2, <1>5

(* The search never needs its fallback: equal thresholds review nobody, which *)
(* is within any capacity, so that some candidate is always feasible.         *)
THEOREM FallbackIsUnreachable ==
  ASSUME NEW sample, IsSample(sample), NEW grid \in SUBSET Nat, grid # {}
  PROVE  Feasible(sample, grid) # {}
<1>1. PICK c \in grid : TRUE
  OBVIOUS
<1> DEFINE p == [allow |-> c, block |-> c]
<1>2. p \in Candidates(grid)
  BY <1>1 DEF Candidates
<1>3. Given(sample, p, "REVIEW") = {}
  <2>1. \A s : Decide(p, s) # "REVIEW"
    BY DEF Decide
  <2> QED BY <2>1 DEF Given
<1>4. Cardinality(Given(sample, p, "REVIEW")) = 0
  BY <1>3, FS_EmptySet
<1>5. Cardinality(DOMAIN sample) \in Nat /\ ReviewCapacity \in Nat
  BY FS_CardinalityType, CostsAssumption DEF IsSample
<1>6. WithinCapacity(sample, p)
  <2>1. ReviewCapacity * Cardinality(DOMAIN sample) \in Nat
    BY <1>5
  <2> QED BY <2>1, <1>4 DEF WithinCapacity
<1> QED
  BY <1>2, <1>6 DEF Feasible

(* The search returns a feasible candidate that none undercuts.               *)
LEMMA SearchFindsCheapest ==
  ASSUME NEW sample, IsSample(sample), NEW grid \in SUBSET Nat, grid # {}
  PROVE  LET best == OptimizeThresholds(sample, grid)
         IN /\ best \in Feasible(sample, grid)
            /\ \A q \in Feasible(sample, grid) :
                 ExpectedCost(sample, best) <= ExpectedCost(sample, q)
<1> DEFINE F == Feasible(sample, grid)
           cost(p) == ExpectedCost(sample, p)
           costs == {ExpectedCost(sample, p) : p \in F}
           least == CHOOSE c \in costs : \A d \in costs : c <= d
<1>1. \A p \in F : /\ p \in [allow : grid, block : grid]
                   /\ p.allow \in Nat /\ p.block \in Nat /\ cost(p) \in Nat
  BY CostsAreNatural DEF Feasible, Candidates
<1>2. F # {}
  BY FallbackIsUnreachable
<1>3. least \in costs /\ \A d \in costs : least <= d
  <2>1. costs \in SUBSET Nat /\ costs # {}
    BY <1>1, <1>2
  <2>2. PICK c \in costs : \A d \in costs : c <= d
    <3> HIDE DEF costs
    <3> QED BY <2>1, LeastNatural
  <2> HIDE DEF costs
  <2> QED BY <2>2
<1> DEFINE C == {p \in F : cost(p) = least}
           first(p) == \A q \in C \ {p} : VisitedBefore(p, q)
<1>4. PICK a \in C : \A q \in C : a.allow <= q.allow
  <2> DEFINE allows == {p.allow : p \in C}
  <2>1. allows \in SUBSET Nat /\ allows # {}
    BY <1>1, <1>3
  <2>2. PICK c \in allows : \A d \in allows : c <= d
    <3> HIDE DEF allows
    <3> QED BY <2>1, LeastNatural
  <2> QED BY <2>2
<1> DEFINE A == {p \in C : p.allow = a.allow}
<1>5. PICK b \in A : \A q \in A : b.block <= q.block
  <2> DEFINE blocks == {p.block : p \in A}
  <2>1. blocks \in SUBSET Nat /\ blocks # {}
    BY <1>1, <1>4
  <2>2. PICK c \in blocks : \A d \in blocks : c <= d
    <3> HIDE DEF blocks
    <3> QED BY <2>1, LeastNatural
  <2> QED BY <2>2
<1>6. b \in C /\ first(b)
  <2> SUFFICES ASSUME NEW q \in C, q # b PROVE VisitedBefore(b, q)
    BY <1>4, <1>5
  <2>1. b \in C /\ b.allow = a.allow
    BY <1>4, <1>5
  <2>2. CASE q.allow # a.allow
    <3>1. a.allow < q.allow
      BY <2>2, <1>1, <1>4
    <3> QED BY <2>1, <3>1 DEF VisitedBefore
  <2>3. CASE q.allow = a.allow
    <3>1. b.block <= q.block
      BY <2>3, <1>5
    <3>2. b.block # q.block
      <4>1. b = [allow |-> b.allow, block |-> b.block] /\ q = [allow |-> q.allow, block |-> q.block]
        BY <2>1, <1>1
      <4> QED BY <4>1, <2>1, <2>3
    <3> QED BY <2>1, <2>3, <3>1, <3>2, <1>1 DEF VisitedBefore
  <2> QED BY <2>2, <2>3
<1> DEFINE best == CHOOSE p \in C : first(p)
<1>7. OptimizeThresholds(sample, grid) = best
  BY DEF OptimizeThresholds
<1>8. best \in C
  <2>1. \E p \in C : first(p)
    BY <1>6
  <2> HIDE DEF C, first
  <2> QED BY <2>1, Zenon
<1>9. best \in F /\ \A q \in F : cost(best) <= cost(q)
  <2>1. best \in F /\ cost(best) = least
    <3> HIDE DEF best, F, least
    <3> QED BY <1>8
  <2>2. \A q \in F : cost(q) \in costs
    <3> HIDE DEF F
    <3> QED OBVIOUS
  <2> HIDE DEF best, F, least, costs, cost
  <2> QED BY <2>1, <2>2, <1>3
<1> QED
  BY <1>7, <1>9

(* Products and quotients of naturals, by a number of steps and not a numeral. *)
LEMMA Division ==
  ASSUME NEW a \in Nat, NEW s \in Nat \ {0}
  PROVE  /\ a \div s \in Nat /\ a % s \in 0..(s - 1)
         /\ a = s * (a \div s) + (a % s)
OBVIOUS

LEMMA Products ==
  ASSUME NEW s \in Nat, NEW a \in Nat, NEW b \in Nat
  PROVE  /\ s * a \in Nat
         /\ a <= b => s * a <= s * b
         /\ a < b /\ s # 0 => s * a < s * b
OBVIOUS

LEMMA AtMostQuotient ==
  ASSUME NEW s \in Nat \ {0}, NEW x \in Int, NEW y \in Nat, x * s <= y
  PROVE  x <= y \div s
OBVIOUS

(* A linear interpolation lies between its two values.                        *)
LEMMA Interpolation ==
  ASSUME NEW s \in Nat \ {0}, NEW r \in 0..(s - 1), NEW a \in Nat, NEW b \in Nat, NEW x \in Nat
  PROVE  /\ (s - r) * a + r * b \in Nat
         /\ a <= b => (s - r) * a + r * b <= s * b
         /\ x <= s * a /\ x <= s * b => x <= (s - r) * a + r * b
         /\ r > 0 /\ x <= a /\ x < b => s * x < (s - r) * a + r * b
OBVIOUS

Rows(sample) == Cardinality(DOMAIN sample)

(* The rows on either side of a threshold.                                    *)
Below(sample, t) == {i \in DOMAIN sample : Steps * sample[i].score < t}
Reached(sample, t) == {i \in DOMAIN sample : Steps * sample[i].score >= t}

(* A sample has a greatest score.                                             *)
LEMMA GreatestScore ==
  ASSUME NEW sample, IsSample(sample)
  PROVE  \E s \in ScoresOf(sample) : RowsUpTo(sample, s) = DOMAIN sample
<1> DEFINE n == Rows(sample)
           up(s) == RowsUpTo(sample, s)
           short == {n - Cardinality(up(s)) : s \in ScoresOf(sample)}
<1>1. ScoresOf(sample) \in SUBSET Nat /\ ScoresOf(sample) # {}
  BY DEF ScoresOf, IsSample
<1>2. n \in Nat /\ \A s : up(s) \in SUBSET DOMAIN sample /\ IsFiniteSet(up(s))
                          /\ Cardinality(up(s)) \in Nat /\ Cardinality(up(s)) <= n
  BY FS_Subset, FS_CardinalityType DEF IsSample, RowsUpTo, Rows
<1>3. short \in SUBSET Nat /\ short # {}
  BY <1>1, <1>2
<1>4. PICK b \in short : \A c \in short : b <= c
  <2> HIDE DEF short
  <2> QED BY <1>3, LeastNatural
<1>5. PICK s \in ScoresOf(sample) : b = n - Cardinality(up(s))
  BY <1>4
<1>6. \A i \in DOMAIN sample : sample[i].score <= s
  <2> SUFFICES ASSUME NEW i \in DOMAIN sample, s < sample[i].score PROVE FALSE
    BY <1>1 DEF IsSample
  <2> DEFINE t == sample[i].score
  <2>1. t \in ScoresOf(sample) /\ t \in Nat /\ s \in Nat
    BY <1>1 DEF ScoresOf
  <2>2. up(s) \in SUBSET up(t) /\ i \in up(t) /\ i \notin up(s)
    BY <2>1 DEF RowsUpTo, IsSample
  <2>3. Cardinality(up(s)) < Cardinality(up(t))
    <3>1. Cardinality(up(s)) <= Cardinality(up(t))
      BY <2>2, <1>2, FS_Subset
    <3>2. Cardinality(up(s)) # Cardinality(up(t))
      BY <2>2, <1>2, FS_Subset
    <3> QED BY <3>1, <3>2, <1>2
  <2>4. n - Cardinality(up(t)) \in short
    BY <2>1
  <2>5. b <= n - Cardinality(up(t))
    <3> HIDE DEF short
    <3> QED BY <1>4, <2>4
  <2> HIDE DEF n, up, t, short
  <2> QED BY <1>2, <1>5, <2>3, <2>5
<1>7. up(s) = DOMAIN sample
  BY <1>6 DEF RowsUpTo
<1> QED
  BY <1>7, <1>5

(* The score at place j has more than j rows up to it, no lesser score has.   *)
LEMMA OrderStatisticIs ==
  ASSUME NEW sample, IsSample(sample), NEW j \in 0..(Rows(sample) - 1)
  PROVE  LET s == OrderStatistic(sample, j)
         IN /\ s \in ScoresOf(sample) /\ s \in Nat
            /\ Cardinality(RowsUpTo(sample, s)) > j
            /\ \A t \in ScoresOf(sample) : t < s => Cardinality(RowsUpTo(sample, t)) <= j
<1> DEFINE many == {s \in ScoresOf(sample) : Cardinality(RowsUpTo(sample, s)) > j}
           is(s) == /\ Cardinality(RowsUpTo(sample, s)) > j
                    /\ \A t \in ScoresOf(sample) :
                         t < s => Cardinality(RowsUpTo(sample, t)) <= j
<1>1. ScoresOf(sample) \in SUBSET Nat
  BY DEF ScoresOf, IsSample
<1>2. \A s : Cardinality(RowsUpTo(sample, s)) \in Nat
  BY FS_Subset, FS_CardinalityType DEF IsSample, RowsUpTo
<1>3. many # {}
  <2>1. PICK s \in ScoresOf(sample) : RowsUpTo(sample, s) = DOMAIN sample
    BY GreatestScore
  <2>2. Cardinality(RowsUpTo(sample, s)) = Rows(sample)
    BY <2>1 DEF Rows
  <2>3. Rows(sample) > j
    BY <1>2, <2>2
  <2> QED BY <2>2, <2>3
<1>4. PICK s \in many : \A t \in many : s <= t
  BY <1>1, <1>3, LeastNatural
<1>5. is(s)
  BY <1>1, <1>2, <1>4
<1>6. OrderStatistic(sample, j) = CHOOSE x \in ScoresOf(sample) : is(x)
  BY DEF OrderStatistic
<1>7. \E x \in ScoresOf(sample) : is(x)
  BY <1>4, <1>5
<1>8. OrderStatistic(sample, j) \in ScoresOf(sample) /\ is(OrderStatistic(sample, j))
  <2> HIDE DEF is
  <2> QED BY <1>6, <1>7
<1> QED
  BY <1>1, <1>8

(* Scores at later places are not less, and at most j rows precede place j.   *)
LEMMA OrderStatisticsAscend ==
  ASSUME NEW sample, IsSample(sample), NEW j \in 0..(Rows(sample) - 1)
  PROVE  /\ j + 1 \in 0..(Rows(sample) - 1) =>
              OrderStatistic(sample, j) <= OrderStatistic(sample, j + 1)
         /\ Cardinality({i \in DOMAIN sample : sample[i].score < OrderStatistic(sample, j)}) <= j
<1> DEFINE s == OrderStatistic(sample, j)
           less == {i \in DOMAIN sample : sample[i].score < s}
<1>1. /\ s \in Nat /\ s \in ScoresOf(sample)
      /\ \A t \in ScoresOf(sample) : t < s => Cardinality(RowsUpTo(sample, t)) <= j
  BY OrderStatisticIs
<1>2. ScoresOf(sample) \in SUBSET Nat /\ \A t : Cardinality(RowsUpTo(sample, t)) \in Nat
  BY FS_Subset, FS_CardinalityType DEF IsSample, RowsUpTo, ScoresOf
<1>3. j + 1 \in 0..(Rows(sample) - 1) => s <= OrderStatistic(sample, j + 1)
  <2> SUFFICES ASSUME j + 1 \in 0..(Rows(sample) - 1), OrderStatistic(sample, j + 1) < s
               PROVE  FALSE
    BY <1>1, OrderStatisticIs
  <2> DEFINE u == OrderStatistic(sample, j + 1)
  <2>1. u \in ScoresOf(sample) /\ Cardinality(RowsUpTo(sample, u)) > j + 1
    BY OrderStatisticIs
  <2>2. Cardinality(RowsUpTo(sample, u)) <= j
    BY <1>1, <2>1
  <2> HIDE DEF u
  <2> QED BY <2>1, <2>2, <1>2
<1>4. Cardinality(less) <= j
  <2>1. CASE less = {}
    <3>1. Rows(sample) \in Nat /\ Cardinality(less) = 0
      BY <2>1, FS_EmptySet, FS_CardinalityType DEF IsSample, Rows
    <3> HIDE DEF less
    <3> QED BY <3>1
  <2>2. CASE less # {}
    <3> DEFINE gaps == {s - sample[i].score : i \in less}
    <3>1. gaps \in SUBSET Nat /\ gaps # {}
      BY <1>1, <2>2 DEF IsSample
    <3>2. PICK g \in gaps : \A h \in gaps : g <= h
      <4> HIDE DEF gaps
      <4> QED BY <3>1, LeastNatural
    <3>3. PICK i \in less : g = s - sample[i].score
      BY <3>2
    <3>4. \A k \in less : sample[k].score <= sample[i].score
      <4> SUFFICES ASSUME NEW k \in less PROVE sample[k].score <= sample[i].score
        OBVIOUS
      <4>1. s - sample[k].score \in gaps
        OBVIOUS
      <4>2. s - sample[i].score <= s - sample[k].score
        <5> HIDE DEF gaps
        <5> QED BY <4>1, <3>2, <3>3
      <4>3. sample[k].score \in Nat /\ sample[i].score \in Nat
        BY DEF IsSample
      <4> HIDE DEF s
      <4> QED BY <1>1, <4>2, <4>3
    <3>5. RowsUpTo(sample, sample[i].score) = less
      <4>1. \A k \in DOMAIN sample : sample[k].score <= sample[i].score => sample[k].score < s
        BY <1>1, <3>3 DEF IsSample
      <4> QED BY <4>1, <3>4 DEF RowsUpTo
    <3>6. sample[i].score \in ScoresOf(sample) /\ sample[i].score < s
      BY <3>3 DEF ScoresOf
    <3> QED BY <1>1, <3>5, <3>6
  <2> QED BY <2>1, <2>2
<1> QED
  BY <1>3, <1>4

(* How the rows around a threshold are counted.                               *)
LEMMA RowsAround ==
  ASSUME NEW sample, IsSample(sample)
  PROVE  /\ Rows(sample) \in Nat \ {0}
         /\ \A t : /\ IsFiniteSet(Below(sample, t)) /\ Cardinality(Below(sample, t)) \in Nat
                  /\ Cardinality(Below(sample, t)) <= Rows(sample)
                  /\ IsFiniteSet(RowsUpTo(sample, t))
                  /\ Cardinality(RowsUpTo(sample, t)) \in Nat
         /\ Slack(sample) \in Nat
<1>1. Rows(sample) \in Nat \ {0}
  BY FS_CardinalityType, FS_EmptySet DEF IsSample, Rows
<1>2. \A t : Below(sample, t) \in SUBSET DOMAIN sample /\ RowsUpTo(sample, t) \in SUBSET DOMAIN sample
  BY DEF Below, RowsUpTo
<1>3. Slack(sample) \in Nat
  <2> DEFINE n == Rows(sample)
  <2>1. CASE n = 1
    BY <2>1 DEF Slack, Rows
  <2>2. CASE n # 1
    <3>1. n - 2 \in Nat
      BY <1>1, <2>2
    <3>2. (n - 2) \div Steps \in Nat
      <4> HIDE DEF n
      <4> QED BY <3>1, Division, StepsAssumption
    <3> QED BY <2>2, <3>2 DEF Slack, Rows
  <2> QED BY <2>1, <2>2
<1> QED
  BY <1>1, <1>2, <1>3, FS_Subset, FS_CardinalityType DEF IsSample, Rows

(* Around the threshold t, before which b rows lie: the scores from place b   *)
(* on have reached it, and the rows before it do not exceed place b - 1.      *)
LEMMA PlacesAround ==
  ASSUME NEW sample, IsSample(sample), NEW t \in Nat, NEW j \in 0..(Rows(sample) - 1)
  PROVE  LET b == Cardinality(Below(sample, t))
             s == OrderStatistic(sample, j)
         IN /\ j >= b => t <= Steps * s
            /\ j >= b - 1 => \A i \in Below(sample, t) : sample[i].score <= s
<1> DEFINE b == Cardinality(Below(sample, t))
           s == OrderStatistic(sample, j)
           up == RowsUpTo(sample, s)
<1>1. s \in Nat /\ Cardinality(up) > j /\ Cardinality(up) \in Nat /\ b \in Nat
      /\ IsFiniteSet(Below(sample, t)) /\ j \in Nat
  BY OrderStatisticIs, RowsAround
<1>2. Steps \in Nat /\ Steps # 0
  BY StepsAssumption
<1>3. ASSUME j >= b PROVE t <= Steps * s
  <2> SUFFICES ASSUME Steps * s < t PROVE FALSE
    BY <1>1, <1>2, Products
  <2>1. up \in SUBSET Below(sample, t)
    <3> SUFFICES ASSUME NEW i \in DOMAIN sample, sample[i].score <= s
                 PROVE  Steps * sample[i].score < t
      BY DEF RowsUpTo, Below
    <3>1. sample[i].score \in Nat
      BY DEF IsSample
    <3>2. Steps * sample[i].score <= Steps * s /\ Steps * sample[i].score \in Nat
          /\ Steps * s \in Nat
      BY <3>1, <1>1, <1>2, Products
    <3> HIDE DEF s
    <3> QED BY <3>2
  <2>2. Cardinality(up) <= b
    BY <2>1, <1>1, FS_Subset
  <2> HIDE DEF b, up
  <2> QED BY <2>2, <1>1, <1>3
<1>4. ASSUME j >= b - 1, NEW i \in Below(sample, t) PROVE sample[i].score <= s
  <2> SUFFICES ASSUME s < sample[i].score PROVE FALSE
    BY <1>1 DEF IsSample, Below
  <2>1. up \in SUBSET (Below(sample, t) \ {i})
    <3> SUFFICES ASSUME NEW k \in DOMAIN sample, sample[k].score <= s
                 PROVE  Steps * sample[k].score < t /\ k # i
      BY DEF RowsUpTo, Below
    <3>1. sample[k].score \in Nat /\ sample[i].score \in Nat /\ Steps * sample[i].score < t
      BY DEF IsSample, Below
    <3>2. Steps * sample[k].score <= Steps * sample[i].score
          /\ Steps * sample[k].score \in Nat /\ Steps * sample[i].score \in Nat
      BY <3>1, <1>1, <1>2, Products
    <3> HIDE DEF s
    <3> QED BY <1>1, <3>1, <3>2
  <2>2. Cardinality(Below(sample, t) \ {i}) = b - 1 /\ IsFiniteSet(Below(sample, t) \ {i})
    BY <1>1, FS_RemoveElement
  <2>3. Cardinality(up) <= b - 1
    BY <2>1, <2>2, FS_Subset
  <2> HIDE DEF b, up
  <2> QED BY <2>3, <1>1, <1>4
<1> QED
  BY <1>3, <1>4

(* What a quantile is, and how many rows lie below it.                        *)
LEMMA QuantileIs ==
  ASSUME NEW sample, IsSample(sample), NEW k \in 0..Steps
  PROVE  LET place == k * (Rows(sample) - 1)
             j == place \div Steps
             r == place % Steps
             c == Quantile(sample, k)
         IN /\ c \in Nat
            /\ place \in Nat /\ r \in 0..(Steps - 1) /\ place = Steps * j + r
            /\ j \in 0..(Rows(sample) - 1)
            /\ r = 0 => /\ c = Steps * OrderStatistic(sample, j)
                        /\ Cardinality(Below(sample, c)) <= j
            /\ r > 0 => /\ j + 1 \in 0..(Rows(sample) - 1)
                        /\ c = (Steps - r) * OrderStatistic(sample, j)
                                 + r * OrderStatistic(sample, j + 1)
                        /\ Cardinality(Below(sample, c)) <= j + 1
<1> DEFINE m == Rows(sample) - 1
           place == k * m
           j == place \div Steps
           r == place % Steps
           v(x) == OrderStatistic(sample, x)
           c == Quantile(sample, k)
           less(x) == {i \in DOMAIN sample : sample[i].score < v(x)}
<1>1. m \in Nat /\ k \in Nat /\ Steps \in Nat \ {0} /\ k <= Steps
  BY RowsAround, StepsAssumption
<1>2. place \in Nat /\ place <= Steps * m
  <2>1. m * k \in Nat /\ m * k <= m * Steps
    BY <1>1, Products
  <2>2. m * k = k * m /\ m * Steps = Steps * m
    BY <1>1
  <2> QED BY <2>1, <2>2
<1>3. j \in Nat /\ r \in 0..(Steps - 1) /\ place = Steps * j + r
  <2> HIDE DEF place
  <2> QED BY <1>1, <1>2, Division
<1> HIDE DEF place, j, r, m
<1>4. j <= m /\ (r > 0 => j + 1 <= m)
  <2>1. CASE j > m
    <3>1. Steps * m < Steps * j /\ Steps * m \in Nat /\ Steps * j \in Nat
      BY <1>1, <1>3, <2>1, Products
    <3> QED BY <3>1, <1>1, <1>2, <1>3
  <2>2. CASE j = m
    BY <2>2, <1>1, <1>2, <1>3
  <2>3. CASE j < m
    BY <2>3, <1>1, <1>3
  <2> QED BY <2>1, <2>2, <2>3, <1>1, <1>3
<1>5. \A x \in 0..m : v(x) \in Nat /\ Cardinality(less(x)) <= x /\ IsFiniteSet(less(x))
                      /\ (x + 1 \in 0..m => v(x) <= v(x + 1))
  <2> TAKE x \in 0..m
  <2>1. x \in 0..(Rows(sample) - 1)
    BY DEF m
  <2>2. IsFiniteSet(less(x))
    BY FS_Subset DEF IsSample
  <2> QED BY <2>1, <2>2, OrderStatisticIs, OrderStatisticsAscend DEF m
<1>6. c = IF r = 0 THEN Steps * v(j) ELSE (Steps - r) * v(j) + r * v(j + 1)
  BY DEF Quantile, Rows, place, j, r, m
<1>7. \A x \in 0..m : c \in Nat /\ c <= Steps * v(x) => Cardinality(Below(sample, c)) <= x
  <2> SUFFICES ASSUME NEW x \in 0..m, c \in Nat, c <= Steps * v(x)
               PROVE  Cardinality(Below(sample, c)) <= x
    OBVIOUS
  <2>1. Below(sample, c) \in SUBSET less(x)
    <3>1. ASSUME NEW i \in DOMAIN sample, Steps * sample[i].score < c
          PROVE  sample[i].score < v(x)
      <4>1. sample[i].score \in Nat /\ v(x) \in Nat
        BY <1>5 DEF IsSample
      <4>2. v(x) <= sample[i].score => Steps * v(x) <= Steps * sample[i].score
        BY <4>1, <1>1, Products
      <4>3. Steps * v(x) \in Nat /\ Steps * sample[i].score \in Nat
        BY <4>1, <1>1, Products
      <4> HIDE DEF v, c
      <4> QED BY <3>1, <4>1, <4>2, <4>3
    <3> HIDE DEF v, c
    <3> QED BY <3>1 DEF Below
  <2>2. Cardinality(Below(sample, c)) <= Cardinality(less(x))
    BY <2>1, <1>5, FS_Subset
  <2>3. Cardinality(less(x)) \in Nat /\ Cardinality(Below(sample, c)) \in Nat
    BY <1>5, RowsAround, FS_CardinalityType
  <2> HIDE DEF less
  <2> QED BY <2>2, <2>3, <1>1, <1>5
<1>8. j \in 0..m
  BY <1>1, <1>3, <1>4
<1>9. CASE r = 0
  <2>1. c = Steps * v(j) /\ c \in Nat
    BY <1>1, <1>5, <1>6, <1>8, <1>9, Products
  <2>2. Cardinality(Below(sample, c)) <= j
    <3> HIDE DEF v, c
    <3> QED BY <2>1, <1>7, <1>8
  <2> QED BY <2>1, <2>2, <1>2, <1>3, <1>8, <1>9 DEF m, place, j, r
<1>10. CASE r # 0
  <2>1. j + 1 \in 0..m /\ r > 0
    BY <1>1, <1>3, <1>4, <1>10
  <2>2. v(j) \in Nat /\ v(j + 1) \in Nat /\ v(j) <= v(j + 1)
    BY <1>5, <1>8, <2>1
  <2>3. c = (Steps - r) * v(j) + r * v(j + 1)
    BY <1>6, <1>10
  <2>4. c \in Nat /\ c <= Steps * v(j + 1)
    <3> HIDE DEF v, c
    <3> QED BY <2>2, <2>3, <1>1, <1>3, Interpolation
  <2>5. Cardinality(Below(sample, c)) <= j + 1
    <3> HIDE DEF v, c
    <3> QED BY <2>1, <2>4, <1>7
  <2> QED BY <2>1, <2>3, <2>4, <2>5, <1>2, <1>3, <1>8, <1>10 DEF m, place, j, r
<1> QED
  BY <1>9, <1>10

LEMMA GridIsNatural ==
  ASSUME NEW sample, IsSample(sample)
  PROVE  Grid(sample) \in SUBSET Nat /\ Grid(sample) # {}
<1>1. \A k \in 0..Steps : Quantile(sample, k) \in Nat
  BY QuantileIs
<1>2. 0 \in 0..Steps
  BY StepsAssumption
<1> QED
  BY <1>1, <1>2 DEF Grid

(* The quantile k is the first past the place b - 1: no row is reached by it  *)
(* and not by t, and no more than the slack by t and not by it.               *)
LEMMA FirstQuantilePast ==
  ASSUME NEW sample, IsSample(sample), NEW t \in Nat,
         NEW b \in Nat, b = Cardinality(Below(sample, t)), b > 0, b < Rows(sample),
         NEW k \in 1..Steps,
         k * (Rows(sample) - 1) > (b - 1) * Steps,
         (k - 1) * (Rows(sample) - 1) <= (b - 1) * Steps
  PROVE  LET c == Quantile(sample, k)
         IN /\ Below(sample, t) \in SUBSET Below(sample, c)
            /\ Cardinality(Below(sample, c)) - b <= Slack(sample)
<1> DEFINE n == Rows(sample)
           m == n - 1
           place == k * m
           j == place \div Steps
           r == place % Steps
           v(x) == OrderStatistic(sample, x)
           c == Quantile(sample, k)
           below == Cardinality(Below(sample, c))
<1>1. n \in Nat /\ n > 1 /\ m \in Nat /\ m >= 1 /\ Steps \in Nat \ {0} /\ Steps # 0
      /\ below \in Nat /\ b - 1 \in Nat
  BY RowsAround, StepsAssumption
<1>2. /\ c \in Nat
      /\ place \in Nat /\ r \in 0..(Steps - 1) /\ place = Steps * j + r /\ j \in 0..m
      /\ r = 0 => c = Steps * v(j) /\ below <= j
      /\ r > 0 => /\ j + 1 \in 0..m /\ c = (Steps - r) * v(j) + r * v(j + 1)
                  /\ below <= j + 1
  BY QuantileIs
<1>3. /\ \A x \in 0..m : /\ v(x) \in Nat
                         /\ x >= b => t <= Steps * v(x)
                         /\ x >= b - 1 => \A i \in Below(sample, t) : sample[i].score <= v(x)
  BY PlacesAround, OrderStatisticIs
<1>4. place > (b - 1) * Steps /\ place - m <= (b - 1) * Steps
  <2>1. (k - 1) * m = place - m
    BY <1>1
  <2> QED BY <2>1
<1> HIDE DEF place, j, r, c, v, m, n, below
<1>5. j >= b \/ (j = b - 1 /\ r > 0)
  <2>1. CASE j < b - 1
    <3>1. Steps * (j + 1) <= Steps * (b - 1)
      BY <2>1, <1>1, <1>2, Products
    <3>2. Steps * (j + 1) = Steps * j + Steps /\ Steps * j \in Nat /\ Steps * (b - 1) \in Nat
          /\ Steps * (b - 1) = (b - 1) * Steps
      BY <1>1, <1>2
    <3> QED BY <3>1, <3>2, <1>1, <1>2, <1>4
  <2>2. CASE j = b - 1
    BY <2>2, <1>1, <1>2, <1>4
  <2> QED BY <2>1, <2>2, <1>1, <1>2
<1>6. \A i \in Below(sample, t) : Steps * sample[i].score < c
  <2> SUFFICES ASSUME NEW i \in Below(sample, t) PROVE Steps * sample[i].score < c
    OBVIOUS
  <2> DEFINE x == sample[i].score
  <2>1. x \in Nat /\ Steps * x < t /\ Steps * x \in Nat
    BY <1>1, Products DEF Below, IsSample
  <2> HIDE DEF x
  <2>2. CASE j >= b /\ r = 0
    <3>1. c = Steps * v(j) /\ t <= Steps * v(j)
      BY <2>2, <1>2, <1>3
    <3> QED BY <2>1, <3>1, <1>2 DEF x
  <2>3. CASE j >= b /\ r > 0
    <3> DEFINE v1 == v(j)
               v2 == v(j + 1)
    <3>1. j + 1 \in 0..m /\ j + 1 >= b /\ c = (Steps - r) * v1 + r * v2
      BY <2>3, <1>2
    <3>2. v1 \in Nat /\ v2 \in Nat /\ t <= Steps * v1 /\ t <= Steps * v2
      BY <2>3, <3>1, <1>2, <1>3
    <3> HIDE DEF v1, v2
    <3>3. t <= (Steps - r) * v1 + r * v2
      BY <3>2, <1>1, <1>2, Interpolation
    <3> QED BY <2>1, <3>1, <3>3, <1>2 DEF x
  <2>4. CASE j = b - 1 /\ r > 0
    <3> DEFINE v1 == v(j)
               v2 == v(j + 1)
    <3>1. j + 1 \in 0..m /\ j + 1 >= b /\ c = (Steps - r) * v1 + r * v2
      BY <2>4, <1>2
    <3>2. v1 \in Nat /\ v2 \in Nat /\ x <= v1 /\ t <= Steps * v2
      BY <2>4, <3>1, <1>2, <1>3 DEF x
    <3> HIDE DEF v1, v2
    <3>3. x < v2
      <4>1. v2 <= x => Steps * v2 <= Steps * x
        BY <3>2, <2>1, <1>1, Products
      <4>2. Steps * v2 \in Nat
        BY <3>2, <1>1, Products
      <4> QED BY <4>1, <4>2, <3>2, <2>1
    <3>4. Steps * x < (Steps - r) * v1 + r * v2
      <4>1. r \in 0..(Steps - 1) /\ r > 0 /\ x \in Nat
        BY <2>1, <2>4, <1>2
      <4> QED BY <4>1, <3>2, <3>3, <1>1, Interpolation
    <3> QED BY <3>1, <3>4 DEF x
  <2> QED BY <2>2, <2>3, <2>4, <1>2, <1>5 DEF x
<1>7. Below(sample, t) \in SUBSET Below(sample, c)
  BY <1>6 DEF Below
<1>8. (below - b) * Steps <= m - 1
  <2>1. CASE r = 0
    <3>1. below <= j /\ Steps * j = place
      BY <2>1, <1>1, <1>2
    <3>2. Steps * below <= Steps * j
      BY <3>1, <1>1, <1>2, Products
    <3>3. (below - b) * Steps = Steps * below - Steps * b /\ (b - 1) * Steps = Steps * b - Steps
          /\ Steps * below \in Nat /\ Steps * b \in Nat
      BY <1>1
    <3> QED BY <3>1, <3>2, <3>3, <1>1, <1>2, <1>4
  <2>2. CASE r > 0
    <3>1. below <= j + 1
      BY <2>2, <1>2
    <3>2. Steps * below <= Steps * (j + 1)
      BY <3>1, <1>1, <1>2, Products
    <3>3. (below - b) * Steps = Steps * below - Steps * b /\ (b - 1) * Steps = Steps * b - Steps
          /\ Steps * (j + 1) = Steps * j + Steps
          /\ Steps * below \in Nat /\ Steps * b \in Nat /\ Steps * j \in Nat
      BY <1>1, <1>2
    <3> QED BY <2>2, <3>2, <3>3, <1>1, <1>2, <1>4
  <2> QED BY <2>1, <2>2, <1>2
<1>9. below - b <= (m - 1) \div Steps
  BY <1>1, <1>8, AtMostQuotient
<1>10. Slack(sample) = (m - 1) \div Steps
  <2>1. m - 1 = n - 2 /\ n # 1
    BY <1>1 DEF m
  <2> QED BY <2>1 DEF Slack, Rows, n
<1> QED
  BY <1>7, <1>9, <1>10 DEF c, below

(* For every threshold that some row reaches there is a candidate that no     *)
(* other row reaches, and that all but the slack of those rows reach.         *)
LEMMA NextCandidate ==
  ASSUME NEW sample, IsSample(sample), NEW t \in Nat, Reached(sample, t) # {}
  PROVE  \E c \in Grid(sample) :
            /\ c \in Nat /\ Below(sample, t) \in SUBSET Below(sample, c)
            /\ Cardinality(Below(sample, c) \ Below(sample, t)) <= Slack(sample)
<1> DEFINE n == Rows(sample)
           m == n - 1
           b == Cardinality(Below(sample, t))
<1>1. n \in Nat \ {0} /\ m \in Nat /\ b \in Nat /\ Steps \in Nat \ {0} /\ Slack(sample) \in Nat
  BY RowsAround, StepsAssumption
<1>2. b < n
  <2>1. PICK i \in DOMAIN sample : Steps * sample[i].score >= t
    BY DEF Reached
  <2>2. Steps * sample[i].score \in Nat
    BY <1>1, Products DEF IsSample
  <2>3. Below(sample, t) \in SUBSET DOMAIN sample /\ i \notin Below(sample, t)
    BY <2>1, <2>2 DEF Below
  <2>4. b <= n /\ b # n
    BY <2>3, FS_Subset DEF IsSample, Rows
  <2> QED BY <2>4, <1>1
<1>3. ASSUME NEW k \in 0..Steps,
             LET c == Quantile(sample, k)
             IN /\ Below(sample, t) \in SUBSET Below(sample, c)
                /\ Cardinality(Below(sample, c)) - b <= Slack(sample)
      PROVE  \E c \in Grid(sample) :
                /\ c \in Nat /\ Below(sample, t) \in SUBSET Below(sample, c)
                /\ Cardinality(Below(sample, c) \ Below(sample, t)) <= Slack(sample)
  <2> DEFINE c == Quantile(sample, k)
  <2>1. c \in Grid(sample) /\ c \in Nat
    BY GridIsNatural DEF Grid
  <2>2. IsFiniteSet(Below(sample, c))
    BY RowsAround
  <2>3. Below(sample, c) \cap Below(sample, t) = Below(sample, t)
    BY <1>3
  <2>4. Cardinality(Below(sample, c) \ Below(sample, t)) = Cardinality(Below(sample, c)) - b
    <3> DEFINE X == Below(sample, c)
               Y == Below(sample, t)
    <3>1. IsFiniteSet(X) /\ IsFiniteSet(Y) /\ X \cap Y = Y
      BY <2>2, <2>3, RowsAround
    <3> HIDE DEF X, Y
    <3>2. Cardinality(X \ Y) = Cardinality(X) - Cardinality(X \cap Y)
      BY <3>1, FS_Difference
    <3> QED BY <3>1, <3>2 DEF X, Y
  <2>5. Below(sample, t) \in SUBSET Below(sample, c)
        /\ Cardinality(Below(sample, c)) - b <= Slack(sample)
    BY <1>3
  <2> HIDE DEF b, c
  <2> QED BY <2>1, <2>4, <2>5
<1>4. CASE b = 0
  <2>1. 0 \in 0..Steps /\ 0 * m = 0
    BY <1>1
  <2>2. 0 \div Steps = 0 /\ 0 % Steps = 0
    <3>1. 0 \div Steps \in Nat /\ 0 % Steps \in 0..(Steps - 1)
          /\ 0 = Steps * (0 \div Steps) + (0 % Steps)
      BY <1>1, Division
    <3> QED BY <3>1, <1>1
  <2>3. Cardinality(Below(sample, Quantile(sample, 0))) <= 0
    BY <2>1, <2>2, QuantileIs
  <2>4. Below(sample, t) = {}
    BY <1>4, RowsAround, FS_EmptySet
  <2> HIDE DEF b
  <2> QED BY <1>1, <1>3, <1>4, <2>1, <2>3, <2>4, RowsAround
<1>5. CASE b # 0
  <2> DEFINE past == {k \in 0..Steps : k * m > (b - 1) * Steps}
  <2>1. Steps \in past
    <3>1. b - 1 \in Nat /\ b - 1 < m /\ m * Steps = Steps * m
      BY <1>1, <1>2, <1>5
    <3>2. Steps * (b - 1) < Steps * m /\ Steps * (b - 1) = (b - 1) * Steps
      <4> HIDE DEF m, b
      <4> QED BY <3>1, <1>1, Products
    <3> QED BY <3>2, <1>1
  <2>2. past \in SUBSET Nat /\ past # {}
    BY <2>1, <1>1
  <2>3. PICK k \in past : \A l \in past : k <= l
    <3> HIDE DEF past
    <3> QED BY <2>2, LeastNatural
  <2>4. k \in 0..Steps /\ k * m > (b - 1) * Steps
    OBVIOUS
  <2>5. k # 0
    <3>1. (b - 1) * Steps \in Nat /\ 0 * m = 0
      BY <1>1, <1>5
    <3> QED BY <3>1, <2>4
  <2>6. k - 1 \in 0..Steps /\ k - 1 < k
    BY <1>1, <2>4, <2>5
  <2>7. ~ ((k - 1) * m > (b - 1) * Steps)
    <3>1. (k - 1) * m > (b - 1) * Steps => k - 1 \in past
      BY <2>6
    <3> HIDE DEF past
    <3> QED BY <3>1, <2>3, <2>6, <1>1, <2>4
  <2>8. (k - 1) * m <= (b - 1) * Steps
    <3>1. (k - 1) * m \in Int /\ (b - 1) * Steps \in Int
      BY <1>1, <2>4
    <3> QED BY <3>1, <2>7
  <2>9. k \in 1..Steps /\ b > 0
    BY <1>1, <1>5, <2>4, <2>5
  <2> QED BY <1>1, <1>2, <1>3, <2>4, <2>8, <2>9, FirstQuantilePast
<1> QED
  BY <1>4, <1>5

(* The verdicts of two thresholds in order, in terms of the rows below them.  *)
LEMMA VerdictsAre ==
  ASSUME NEW sample, IsSample(sample), NEW p \in [allow : Nat, block : Nat], p.allow <= p.block
  PROVE  /\ Given(sample, p, "BLOCK") = DOMAIN sample \ Below(sample, p.block)
         /\ Given(sample, p, "REVIEW") = Below(sample, p.block) \ Below(sample, p.allow)
         /\ Given(sample, p, "ALLOW") = Below(sample, p.allow)
         /\ Below(sample, p.allow) \in SUBSET Below(sample, p.block)
<1>1. p.allow \in Nat /\ p.block \in Nat
  OBVIOUS
<1>2. \A i \in DOMAIN sample : Steps * sample[i].score \in Nat
  BY Products, StepsAssumption DEF IsSample
<1>3. ASSUME NEW i \in DOMAIN sample
      PROVE  /\ i \in Given(sample, p, "BLOCK") <=> i \notin Below(sample, p.block)
             /\ i \in Given(sample, p, "REVIEW") <=>
                  i \in Below(sample, p.block) /\ i \notin Below(sample, p.allow)
             /\ i \in Given(sample, p, "ALLOW") <=> i \in Below(sample, p.allow)
             /\ i \in Below(sample, p.allow) => i \in Below(sample, p.block)
  <2> DEFINE x == Steps * sample[i].score
  <2>1. /\ i \in Below(sample, p.block) <=> x < p.block
        /\ i \in Below(sample, p.allow) <=> x < p.allow
        /\ x \in Nat
    BY <1>2 DEF Below
  <2>2. \A w : i \in Given(sample, p, w) <=>
                 (IF x >= p.block THEN "BLOCK"
                  ELSE IF x >= p.allow THEN "REVIEW" ELSE "ALLOW") = w
    BY DEF Given, Decide
  <2> HIDE DEF x
  <2> QED BY <1>1, <2>1, <2>2
<1>4. /\ \A w : Given(sample, p, w) \in SUBSET DOMAIN sample
      /\ \A t : Below(sample, t) \in SUBSET DOMAIN sample
  BY DEF Given, Below
<1> QED
  BY <1>3, <1>4

(* Adding no more than s rows to a set of rows.                               *)
LEMMA FewMore ==
  ASSUME NEW X, NEW Y, NEW W, NEW s \in Nat, IsFiniteSet(Y), IsFiniteSet(W),
         X \in SUBSET (Y \cup W), Cardinality(W) <= s
  PROVE  Cardinality(X) \in Nat /\ Cardinality(Y) \in Nat /\ Cardinality(X) <= Cardinality(Y) + s
<1>1. /\ IsFiniteSet(Y \cup W)
      /\ Cardinality(Y \cup W) = Cardinality(Y) + Cardinality(W) - Cardinality(Y \cap W)
  BY FS_Union
<1>2. IsFiniteSet(X) /\ Cardinality(X) <= Cardinality(Y \cup W)
  BY <1>1, FS_Subset
<1>3. IsFiniteSet(Y \cap W)
  BY FS_Intersection
<1>4. /\ Cardinality(X) \in Nat /\ Cardinality(Y) \in Nat /\ Cardinality(W) \in Nat
      /\ Cardinality(Y \cap W) \in Nat
  BY <1>2, <1>3, FS_CardinalityType
<1> QED
  BY <1>1, <1>2, <1>4

(* Next to thresholds that block a row lie two candidates that block no other *)
(* row, and that review and allow no other rows but some within the slack.    *)
LEMMA NearbyCandidates ==
  ASSUME NEW sample, IsSample(sample), NEW p \in [allow : Nat, block : Nat],
         p.allow <= p.block, Given(sample, p, "BLOCK") # {}
  PROVE  \E q \in Candidates(Grid(sample)), U \in SUBSET DOMAIN sample, W \in SUBSET DOMAIN sample :
            /\ Given(sample, q, "BLOCK") \in SUBSET Given(sample, p, "BLOCK")
            /\ Given(sample, q, "REVIEW") \in SUBSET (Given(sample, p, "REVIEW") \cup W)
            /\ Given(sample, q, "ALLOW") \in SUBSET (Given(sample, p, "ALLOW") \cup U)
            /\ Cardinality(U) <= Slack(sample) /\ Cardinality(W) <= Slack(sample)
<1> DEFINE below(t) == Below(sample, t)
<1>1. p.allow \in Nat /\ p.block \in Nat /\ below(p.allow) \in SUBSET below(p.block)
  BY VerdictsAre
<1>2. Reached(sample, p.block) # {} /\ Reached(sample, p.allow) # {}
  <2>1. PICK i \in DOMAIN sample : i \notin Below(sample, p.block)
    BY VerdictsAre
  <2>2. Steps * sample[i].score \in Nat
    BY Products, StepsAssumption DEF IsSample
  <2>3. Steps * sample[i].score >= p.block /\ Steps * sample[i].score >= p.allow
    BY <1>1, <2>1, <2>2 DEF Below
  <2> QED BY <2>3 DEF Reached
<1>3. PICK b \in Grid(sample) :
        /\ b \in Nat /\ Below(sample, p.block) \in SUBSET Below(sample, b)
        /\ Cardinality(Below(sample, b) \ Below(sample, p.block)) <= Slack(sample)
  BY <1>1, <1>2, NextCandidate
<1>4. PICK a \in Grid(sample) :
        /\ a \in Nat /\ Below(sample, p.allow) \in SUBSET Below(sample, a)
        /\ Cardinality(Below(sample, a) \ Below(sample, p.allow)) <= Slack(sample)
  BY <1>1, <1>2, NextCandidate
<1> DEFINE least == IF a <= b THEN a ELSE b
           q == [allow |-> least, block |-> b]
           U == below(least) \ below(p.allow)
           W == below(b) \ below(p.block)
<1>5. least \in Grid(sample) /\ least \in Nat /\ least <= b
  BY <1>3, <1>4
<1>6. below(p.allow) \in SUBSET below(least) /\ below(least) \in SUBSET below(a)
  <2>1. CASE a <= b
    BY <2>1, <1>4
  <2>2. CASE ~ (a <= b)
    <3>1. \A i \in DOMAIN sample : Steps * sample[i].score \in Nat
      BY Products, StepsAssumption DEF IsSample
    <3>2. b < a
      BY <2>2, <1>3, <1>4
    <3>3. Below(sample, b) \in SUBSET Below(sample, a)
      BY <1>3, <1>4, <3>1, <3>2 DEF Below
    <3> QED BY <2>2, <3>3, <1>1, <1>3
  <2> QED BY <2>1, <2>2
<1>7. q \in Candidates(Grid(sample)) /\ q \in [allow : Nat, block : Nat] /\ q.allow <= q.block
  BY <1>3, <1>5 DEF Candidates
<1>8. U \in SUBSET DOMAIN sample /\ W \in SUBSET DOMAIN sample
  BY DEF Below
<1>9. Cardinality(U) <= Slack(sample)
  <2>1. U \in SUBSET (below(a) \ below(p.allow))
    BY <1>6
  <2>2. IsFiniteSet(below(a) \ below(p.allow))
    BY RowsAround, FS_Subset
  <2>3. Cardinality(U) <= Cardinality(below(a) \ below(p.allow))
    BY <2>1, <2>2, FS_Subset
  <2>4. Cardinality(U) \in Nat /\ Cardinality(below(a) \ below(p.allow)) \in Nat
        /\ Slack(sample) \in Nat
    BY <2>1, <2>2, FS_Subset, FS_CardinalityType, RowsAround
  <2> HIDE DEF U
  <2> QED BY <2>3, <2>4, <1>4
<1>10. /\ Given(sample, q, "BLOCK") = DOMAIN sample \ below(b)
       /\ Given(sample, q, "REVIEW") = below(b) \ below(least)
       /\ Given(sample, q, "ALLOW") = below(least)
  BY <1>7, VerdictsAre
<1>11. /\ Given(sample, p, "BLOCK") = DOMAIN sample \ below(p.block)
       /\ Given(sample, p, "REVIEW") = below(p.block) \ below(p.allow)
       /\ Given(sample, p, "ALLOW") = below(p.allow)
  BY VerdictsAre
<1>12. /\ Given(sample, q, "BLOCK") \in SUBSET Given(sample, p, "BLOCK")
       /\ Given(sample, q, "REVIEW") \in SUBSET (Given(sample, p, "REVIEW") \cup W)
       /\ Given(sample, q, "ALLOW") \in SUBSET (Given(sample, p, "ALLOW") \cup U)
  <2> HIDE DEF q, least, below
  <2> QED BY <1>3, <1>6, <1>10, <1>11 DEF below
<1>13. Cardinality(W) <= Slack(sample)
  BY <1>3
<1> HIDE DEF q, U, W
<1> QED
  BY <1>7, <1>8, <1>9, <1>12, <1>13

(* What such candidates cost, and that they are within capacity.              *)
LEMMA NearbyCostsLittleMore ==
  ASSUME NEW sample, IsSample(sample), NEW p, NEW q,
         NEW U \in SUBSET DOMAIN sample, NEW W \in SUBSET DOMAIN sample,
         Given(sample, q, "BLOCK") \in SUBSET Given(sample, p, "BLOCK"),
         Given(sample, q, "REVIEW") \in SUBSET (Given(sample, p, "REVIEW") \cup W),
         Given(sample, q, "ALLOW") \in SUBSET (Given(sample, p, "ALLOW") \cup U),
         Cardinality(U) <= Slack(sample), Cardinality(W) <= Slack(sample)
  PROVE  /\ ExpectedCost(sample, q) <=
              ExpectedCost(sample, p) + Slack(sample) * (FraudLoss + ReviewCost + MissedReviewCost)
         /\ WithinCapacityAndSlack(sample, p) => WithinCapacity(sample, q)
<1> DEFINE fraud == {i \in DOMAIN sample : sample[i].fraud}
           S == Slack(sample)
           declined(x) == Given(sample, x, "BLOCK") \ fraud
           reviewed(x) == Given(sample, x, "REVIEW")
           lost(x) == Given(sample, x, "ALLOW") \cap fraud
           missed(x) == Given(sample, x, "REVIEW") \cap fraud
<1>1. S \in Nat /\ IsFiniteSet(U) /\ IsFiniteSet(W)
  BY RowsAround, FS_Subset DEF IsSample
<1>2. \A x : /\ declined(x) \in SUBSET DOMAIN sample /\ reviewed(x) \in SUBSET DOMAIN sample
             /\ lost(x) \in SUBSET DOMAIN sample /\ missed(x) \in SUBSET DOMAIN sample
  BY DEF Given
<1>3. \A x : /\ IsFiniteSet(declined(x)) /\ IsFiniteSet(reviewed(x))
             /\ IsFiniteSet(lost(x)) /\ IsFiniteSet(missed(x))
  <2> HIDE DEF declined, reviewed, lost, missed
  <2> QED BY <1>2, FS_Subset DEF IsSample
<1>4. /\ declined(q) \in SUBSET declined(p) /\ reviewed(q) \in SUBSET (reviewed(p) \cup W)
      /\ lost(q) \in SUBSET (lost(p) \cup U) /\ missed(q) \in SUBSET (missed(p) \cup W)
  OBVIOUS
<1>5. \A x : ExpectedCost(sample, x) =
        FalseDeclineCost * Cardinality(declined(x)) + ReviewCost * Cardinality(reviewed(x))
          + FraudLoss * Cardinality(lost(x)) + MissedReviewCost * Cardinality(missed(x))
  BY DEF ExpectedCost
<1>6. \A x : WithinCapacity(sample, x)
               <=> 100 * Cardinality(reviewed(x)) <= ReviewCapacity * Rows(sample)
  BY DEF WithinCapacity, Rows
<1>7. WithinCapacityAndSlack(sample, p)
        <=> 100 * (Cardinality(reviewed(p)) + S) <= ReviewCapacity * Rows(sample)
  BY DEF WithinCapacityAndSlack, Rows
<1> HIDE DEF declined, reviewed, lost, missed, S
<1>8. /\ Cardinality(declined(q)) \in Nat /\ Cardinality(declined(p)) \in Nat
      /\ Cardinality(declined(q)) <= Cardinality(declined(p))
  BY <1>3, <1>4, FS_Subset, FS_CardinalityType
<1>9. /\ Cardinality(reviewed(q)) \in Nat /\ Cardinality(reviewed(p)) \in Nat
      /\ Cardinality(reviewed(q)) <= Cardinality(reviewed(p)) + S
  BY <1>1, <1>3, <1>4, FewMore DEF S
<1>10. /\ Cardinality(lost(q)) \in Nat /\ Cardinality(lost(p)) \in Nat
       /\ Cardinality(lost(q)) <= Cardinality(lost(p)) + S
  BY <1>1, <1>3, <1>4, FewMore DEF S
<1>11. /\ Cardinality(missed(q)) \in Nat /\ Cardinality(missed(p)) \in Nat
       /\ Cardinality(missed(q)) <= Cardinality(missed(p)) + S
  BY <1>1, <1>3, <1>4, FewMore DEF S
<1>12. \A c, x, y \in Nat : x <= y + S => c * x <= c * y + c * S /\ c * x \in Nat
                                         /\ c * y \in Nat /\ c * S \in Nat
  <2> TAKE c, x, y \in Nat
  <2>1. x <= y + S => c * x <= c * (y + S)
    BY <1>1, Products
  <2>2. c * (y + S) = c * y + c * S /\ c * x \in Nat /\ c * y \in Nat /\ c * S \in Nat
    BY <1>1
  <2> QED BY <2>1, <2>2
<1>13. /\ FraudLoss \in Nat /\ FalseDeclineCost \in Nat /\ ReviewCost \in Nat
       /\ MissedReviewCost \in Nat
  BY CostsAssumption
<1>14. /\ FalseDeclineCost * Cardinality(declined(q)) <= FalseDeclineCost * Cardinality(declined(p))
       /\ FalseDeclineCost * Cardinality(declined(q)) \in Nat
       /\ FalseDeclineCost * Cardinality(declined(p)) \in Nat
  BY <1>8, <1>13, Products
<1>15. S * (FraudLoss + ReviewCost + MissedReviewCost)
         = ReviewCost * S + FraudLoss * S + MissedReviewCost * S
  BY <1>1, <1>13
<1>16. ExpectedCost(sample, q) <=
         ExpectedCost(sample, p) + S * (FraudLoss + ReviewCost + MissedReviewCost)
  <2>1. /\ ReviewCost * Cardinality(reviewed(q))
             <= ReviewCost * Cardinality(reviewed(p)) + ReviewCost * S
        /\ ReviewCost * Cardinality(reviewed(q)) \in Nat
        /\ ReviewCost * Cardinality(reviewed(p)) \in Nat /\ ReviewCost * S \in Nat
    BY <1>9, <1>12, <1>13
  <2>2. /\ FraudLoss * Cardinality(lost(q)) <= FraudLoss * Cardinality(lost(p)) + FraudLoss * S
        /\ FraudLoss * Cardinality(lost(q)) \in Nat
        /\ FraudLoss * Cardinality(lost(p)) \in Nat /\ FraudLoss * S \in Nat
    BY <1>10, <1>12, <1>13
  <2>3. /\ MissedReviewCost * Cardinality(missed(q))
             <= MissedReviewCost * Cardinality(missed(p)) + MissedReviewCost * S
        /\ MissedReviewCost * Cardinality(missed(q)) \in Nat
        /\ MissedReviewCost * Cardinality(missed(p)) \in Nat /\ MissedReviewCost * S \in Nat
    BY <1>11, <1>12, <1>13
  <2> QED BY <2>1, <2>2, <2>3, <1>5, <1>14, <1>15
<1>17. WithinCapacityAndSlack(sample, p) => WithinCapacity(sample, q)
  <2>1. ReviewCapacity * Rows(sample) \in Int
    BY RowsAround, CostsAssumption
  <2>2. 100 * Cardinality(reviewed(q)) <= 100 * (Cardinality(reviewed(p)) + S)
    BY <1>1, <1>9
  <2> QED BY <1>1, <1>6, <1>7, <1>9, <2>1, <2>2
<1> QED
  BY <1>16, <1>17 DEF S

(* The published thresholds, for any number of rows and of distinct scores:   *)
(* they are in order and within capacity, and no thresholds that block a row  *)
(* and leave the slack in the capacity are cheaper by more than what the rows *)
(* between two of the policy.py:78 quantiles cost.                            *)
THEOREM ThresholdsAreNearlyOptimal ==
  ASSUME NEW sample, IsSample(sample)
  PROVE  LET best == OptimizeThresholds(sample, Grid(sample))
         IN /\ best \in [allow : Nat, block : Nat] /\ best.allow <= best.block
            /\ WithinCapacity(sample, best)
            /\ IsNearlyCheapest(sample, best, Nat)
<1> DEFINE best == OptimizeThresholds(sample, Grid(sample))
<1>1. Grid(sample) \in SUBSET Nat /\ Grid(sample) # {}
  BY GridIsNatural
<1>2. /\ best \in Feasible(sample, Grid(sample))
      /\ \A q \in Feasible(sample, Grid(sample)) :
           ExpectedCost(sample, best) <= ExpectedCost(sample, q)
  BY <1>1, SearchFindsCheapest
<1> HIDE DEF best
<1>3. /\ best \in [allow : Nat, block : Nat] /\ best.allow <= best.block
      /\ WithinCapacity(sample, best)
  BY <1>1, <1>2 DEF Feasible, Candidates
<1>4. ASSUME NEW p \in [allow : Nat, block : Nat],
             p.allow <= p.block, WithinCapacityAndSlack(sample, p), Given(sample, p, "BLOCK") # {}
      PROVE  ExpectedCost(sample, best) <=
               ExpectedCost(sample, p) + Slack(sample) * (FraudLoss + ReviewCost + MissedReviewCost)
  <2> DEFINE more == ExpectedCost(sample, p)
                       + Slack(sample) * (FraudLoss + ReviewCost + MissedReviewCost)
  <2>1. PICK q \in Candidates(Grid(sample)),
             U \in SUBSET DOMAIN sample, W \in SUBSET DOMAIN sample :
          /\ Given(sample, q, "BLOCK") \in SUBSET Given(sample, p, "BLOCK")
          /\ Given(sample, q, "REVIEW") \in SUBSET (Given(sample, p, "REVIEW") \cup W)
          /\ Given(sample, q, "ALLOW") \in SUBSET (Given(sample, p, "ALLOW") \cup U)
          /\ Cardinality(U) <= Slack(sample) /\ Cardinality(W) <= Slack(sample)
    BY <1>4, NearbyCandidates
  <2>2. ExpectedCost(sample, q) <= more /\ WithinCapacity(sample, q)
    BY <1>4, <2>1, NearbyCostsLittleMore
  <2>3. ExpectedCost(sample, best) <= ExpectedCost(sample, q)
    BY <1>2, <2>1, <2>2 DEF Feasible
  <2>4. more \in Int
    <3>1. /\ ExpectedCost(sample, p) \in Nat /\ Slack(sample) \in Nat
          /\ FraudLoss + ReviewCost + MissedReviewCost \in Nat
      BY CostsAreNatural, RowsAround, CostsAssumption
    <3>2. Slack(sample) * (FraudLoss + ReviewCost + MissedReviewCost) \in Nat
      BY <3>1
    <3> QED BY <3>1, <3>2
  <2>5. ExpectedCost(sample, best) \in Nat /\ ExpectedCost(sample, q) \in Nat
    BY CostsAreNatural
  <2> HIDE DEF more
  <2>6. ExpectedCost(sample, best) <= more
    BY <2>2, <2>3, <2>4, <2>5
  <2> QED BY <2>6 DEF more
<1>5. IsNearlyCheapest(sample, best, Nat)
  BY <1>4 DEF IsNearlyCheapest
<1> QED
  BY <1>3, <1>5 DEF best
=============================================================================
