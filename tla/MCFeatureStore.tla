---------------------------- MODULE MCFeatureStore ----------------------------
(* Instances of FeatureStore for TLC.                                         *)
EXTENDS FeatureStore, TLC

(* Transactions are interchangeable, and so are the cards.                    *)
Symmetry == Permutations(Transactions) \cup Permutations(Cards)
=============================================================================
