--------------------------- MODULE TemporalSplit ---------------------------
(* The data contract of a training file and its chronological split           *)
(* (backend/src/fraud_platform/data/contracts.py).                            *)
(*                                                                            *)
(* A frame is the file as read: a function from row labels (the index pandas  *)
(* gives the rows) to rows [id, at, fraud, sound].  id is the stripped        *)
(* transaction id, at the timestamp, fraud the label, and sound says that     *)
(* every column of the row passes its own check (present, not blank, a valid  *)
(* date, a finite amount that is not negative, a binary label).               *)
EXTENDS Integers, FiniteSets

CONSTANTS TrainPercent, ValidationPercent     \* the fractions, in hundredths

(* The fractions temporal_split accepts: the ValueErrors it starts with.      *)
ASSUME FractionsAssumption ==
  /\ TrainPercent \in 1..99 /\ ValidationPercent \in 1..99
  /\ TrainPercent + ValidationPercent < 100

(* What is known of any file: finitely many rows, times of some epoch.        *)
IsFrame(frame) ==
  /\ IsFiniteSet(DOMAIN frame)
  /\ \A i \in DOMAIN frame : frame[i].at \in Nat /\ frame[i].fraud \in BOOLEAN

(* _normalized_frame raises nothing.                                          *)
MeetsContract(frame) ==
  /\ DOMAIN frame # {}
  /\ \A i \in DOMAIN frame : frame[i].sound
  /\ \A i, j \in DOMAIN frame : frame[i].id = frame[j].id => i = j

(* The digest of the rows in the order of time and id: as the ids are unique, *)
(* two files have one fingerprint exactly when they hold the same rows.       *)
Fingerprint(frame) == {frame[i] : i \in DOMAIN frame}

Timestamps(frame) == {frame[i].at : i \in DOMAIN frame}

(* Mutant: the place of the row in the sorted file, as a cut by rows has it.  *)
RankByRow(frame, i) ==
  Cardinality({j \in DOMAIN frame : \/ frame[j].at < frame[i].at
                                    \/ frame[j].at = frame[i].at /\ frame[j].id <= frame[i].id})

(* How many distinct timestamps the row has reached: 1 for the earliest rows. *)
(* A row is at or before timestamps[k - 1] exactly when its rank is <= k.     *)
Rank(frame, i) == Cardinality({t \in Timestamps(frame) : t <= frame[i].at})

Larger(a, b) == IF a >= b THEN a ELSE b
Smaller(a, b) == IF a <= b THEN a ELSE b

(* The cuts for n distinct timestamps; int() truncates.                       *)
TrainCut(n) == Larger(1, (n * TrainPercent) \div 100)
ValidationCut(n) ==
  Smaller(Larger(TrainCut(n) + 1, (n * (TrainPercent + ValidationPercent)) \div 100),
          n - 1)

(* The row labels of the three partitions.                                    *)
Split(frame) ==
  LET n == Cardinality(Timestamps(frame))
      Between(lo, hi) == {i \in DOMAIN frame : lo < Rank(frame, i) /\ Rank(frame, i) <= hi}
  IN [train      |-> Between(0, TrainCut(n)),
      validation |-> Between(TrainCut(n), ValidationCut(n)),
      test       |-> Between(ValidationCut(n), n)]

(* temporal_split returns its partitions and raises no DataContractError.     *)
SplitSucceeds(frame) ==
  LET parts == Split(frame)
  IN /\ MeetsContract(frame)
     /\ Cardinality(Timestamps(frame)) >= 3
     /\ {} \notin {parts.train, parts.validation, parts.test}

(* What a split promises: three partitions with a row each that share the     *)
(* rows out among them, every row of one strictly before every row of the     *)
(* next, so that no timestamp is found on both sides of a cut.                *)
IsChronological(frame, parts) ==
  LET Before(A, B) == \A i \in A, j \in B : frame[i].at < frame[j].at
  IN /\ {} \notin {parts.train, parts.validation, parts.test}
     /\ parts.train \cup parts.validation \cup parts.test = DOMAIN frame
     /\ Before(parts.train, parts.validation)
     /\ Before(parts.validation, parts.test)
=============================================================================
