------------------------------ MODULE MCRelease ------------------------------
(* Instances of Release for TLC.                                              *)
EXTENDS Release

Row(id, at, fraud, sound) == [id |-> id, at |-> at, fraud |-> fraud, sound |-> sound]

(* Files of interest: ties at both cuts in no order, five timestamps, and     *)
(* four that are turned away: two timestamps only, a repeated id, a row that  *)
(* breaks the contract, no row at all.                                        *)
MCTies == <<Row(1, 3, FALSE, TRUE), Row(2, 1, TRUE, TRUE), Row(3, 2, TRUE, TRUE),
            Row(4, 2, FALSE, TRUE), Row(5, 1, FALSE, TRUE), Row(6, 3, TRUE, TRUE),
            Row(7, 2, TRUE, TRUE), Row(8, 2, FALSE, TRUE)>>
MCFive == [i \in 1..5 |-> Row(i, i, i = 4, TRUE)]
MCTwoTimes == <<Row(1, 1, FALSE, TRUE), Row(2, 2, TRUE, TRUE), Row(3, 2, FALSE, TRUE)>>
MCRepeated == <<Row(1, 1, FALSE, TRUE), Row(1, 2, TRUE, TRUE), Row(3, 3, FALSE, TRUE)>>
MCUnsound == <<Row(1, 1, FALSE, TRUE), Row(2, 2, TRUE, FALSE), Row(3, 3, FALSE, TRUE)>>

MCFrames == {MCTies, MCFive, MCTwoTimes, MCRepeated, MCUnsound, <<>>}
MCOneFrame == {MCTies}

(* Validation samples of up to six rows, numbered by their scores.            *)
MCSamples ==
  UNION {{sample \in [1..n -> [score : 0..3, fraud : BOOLEAN]] :
            \A i \in 1..(n - 1) : sample[i].score <= sample[i + 1].score} : n \in 1..6}

SearchIsNearlyCheapest ==
  \A sample \in MCSamples :
    LET policy == OptimizeThresholds(sample, Grid(sample))
    IN /\ WithinCapacity(sample, policy)
       /\ IsNearlyCheapest(sample, policy, {Steps * score : score \in 0..3})

=============================================================================
