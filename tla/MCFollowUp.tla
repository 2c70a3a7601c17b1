------------------------------ MODULE MCFollowUp ------------------------------
(* Instances of FollowUp for TLC.                                             *)
EXTENDS FollowUp, TLC

(* Requests are interchangeable.                                              *)
RequestSymmetry == Permutations(Requests)
=============================================================================
