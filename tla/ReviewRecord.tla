----------------------------- MODULE ReviewRecord -----------------------------
(***************************************************************************)
(* What the review of decisions promises.  A decision has at most one       *)
(* verdict, for ever: that of the first report.  A report is confirmed if   *)
(* it agrees with the verdict and contradicted if it does not.  An action   *)
(* on a case is recorded once, before it is confirmed; only a closing       *)
(* action closes a case and only another reopens it.  A request may fail    *)
(* whether or not it was recorded.  Module FollowUp implements it           *)
(* (FollowUp!RecordSpec).                                                   *)
(***************************************************************************)
CONSTANTS Requests, Decisions, Cases, Strangers,
          Actions, Labels

VARIABLES target, asks, \* what every request is about
          verdict,      \* the outcome of a decision, or "none"
          trail,        \* the actions recorded
          closed,       \* the cases closed
          told          \* what the callers were told, or "none"

recordVars == <<target, asks, verdict, trail, closed, told>>

Init ==
  /\ target \in [Requests -> Decisions \cup Strangers]
  /\ asks \in [Requests -> Actions \cup Labels]
  /\ verdict = [d \in Decisions |-> "none"]
  /\ trail = {} /\ closed = {}
  /\ told = [p \in Requests |-> "none"]

Reports(p) == asks[p] \in Labels /\ target[p] \in Decisions
Reviews(p) == asks[p] \in Actions /\ target[p] \in Cases

Tell(p, what) ==
  /\ told[p] = "none"
  /\ told' = [told EXCEPT ![p] = what]
  /\ UNCHANGED <<target, asks, verdict, trail, closed>>

Report(p) ==
  /\ Reports(p) /\ told[p] = "none"
  /\ verdict[target[p]] = "none"
  /\ verdict' = [verdict EXCEPT ![target[p]] = asks[p]]
  /\ UNCHANGED <<target, asks, trail, closed, told>>

(* An action that overlaps another one may leave the case as it was.        *)
Review(p) ==
  /\ Reviews(p) /\ told[p] = "none" /\ p \notin trail
  /\ trail' = trail \cup {p}
  /\ closed' \in {closed, IF asks[p] = "close" THEN closed \cup {target[p]}
                          ELSE closed \ {target[p]}}
  /\ UNCHANGED <<target, asks, verdict, told>>

Confirm(p) ==
  /\ \/ Reports(p) /\ verdict[target[p]] = asks[p]
     \/ Reviews(p) /\ p \in trail
  /\ Tell(p, "recorded")

Contradict(p) ==
  /\ Reports(p) /\ verdict[target[p]] \notin {"none", asks[p]}
  /\ Tell(p, "contradicted")

Unknown(p) == ~Reports(p) /\ ~Reviews(p) /\ Tell(p, "unknown")

Fail(p) == Tell(p, "failed")

Next ==
  \E p \in Requests :
    \/ Report(p) \/ Review(p)
    \/ Confirm(p) \/ Contradict(p) \/ Unknown(p) \/ Fail(p)

Spec == Init /\ [][Next]_recordVars
=============================================================================
