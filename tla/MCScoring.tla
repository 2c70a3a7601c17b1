------------------------------ MODULE MCScoring ------------------------------
(* Instances of Scoring for TLC: up to three requests of one or two callers.  *)
EXTENDS Scoring

CONSTANTS c1, c2, acme, globex

MCOneOrg == [c \in Clients |-> acme]
MCTwoOrgs == [c \in Clients |-> IF c = c1 THEN acme ELSE globex]
=============================================================================
