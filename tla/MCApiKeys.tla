------------------------------- MODULE MCApiKeys -------------------------------
(* Instances of ApiKeys for TLC.                                              *)
EXTENDS ApiKeys, TLC

(* Requests, keys and organizations are interchangeable.                      *)
Symmetry == Permutations(Requests) \cup Permutations(Prefixes)
            \cup Permutations(Organizations)
=============================================================================
