------------------------------- MODULE MCOutbox -------------------------------
(* Instances of Outbox for TLC.                                               *)
EXTENDS Outbox, TLC

(* Events and requests are interchangeable; used by runs without liveness.    *)
OutboxSymmetry == Permutations(Events) \cup Permutations(FastPaths)
=============================================================================
