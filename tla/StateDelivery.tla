---------------------------- MODULE StateDelivery ----------------------------
(***************************************************************************)
(* What the transactional outbox promises about the online feature state:   *)
(* the event of a committed decision changes the velocity state at most     *)
(* once, it is reported delivered only if it did, and a delivered or        *)
(* abandoned event is final.  Module Outbox implements it when claims lock  *)
(* the event row (Outbox!DeliverySpec).                                     *)
(***************************************************************************)
CONSTANT Events

VARIABLES effect,  \* the events whose update is in the online state
          verdict  \* "none", "open", "delivered" or "abandoned"

deliveryVars == <<effect, verdict>>

Init == effect = {} /\ verdict = [e \in Events |-> "none"]

Decide(e, from, to) == verdict[e] = from /\ verdict' = [verdict EXCEPT ![e] = to]

Accept(e) == Decide(e, "none", "open") /\ UNCHANGED effect

Take(e) ==
  /\ verdict[e] = "open" /\ e \notin effect
  /\ effect' = effect \cup {e}
  /\ UNCHANGED verdict

Deliver(e) == e \in effect /\ Decide(e, "open", "delivered") /\ UNCHANGED effect

(* Abandoning says nothing about the effect: the reply that would have      *)
(* confirmed it may have been lost.                                         *)
Abandon(e) == Decide(e, "open", "abandoned") /\ UNCHANGED effect

Next == \E e \in Events : Accept(e) \/ Take(e) \/ Deliver(e) \/ Abandon(e)

Spec == Init /\ [][Next]_deliveryVars
=============================================================================
