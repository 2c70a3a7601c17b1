----------------------------- MODULE OutboxProofs -----------------------------
(***************************************************************************)
(* Proofs about module Outbox for any number of events, workers, requests,  *)
(* attempts and crashes, with and without row locks and faults.             *)
(***************************************************************************)
EXTENDS Outbox, FiniteSetTheorems, TLAPS

(* The marker and the additions to the history are one.                     *)
MarkerCounts ==
  \A e \in Events : additions[e] = IF e \in marker THEN 1 ELSE 0

(* Whoever reports an event applied has seen or set its marker.             *)
ReportsMarked ==
  /\ \A r \in Runners : outcome[r] \in {"applied", "already_applied"} => job[r] \in marker
  /\ \A e \in Events : \/ status[e] = "processed"
                       \/ stateStatus[e] \in {"applied", "already_applied"}
                       => e \in marker

(* With row locks every claim is counted, and a pending event has attempts  *)
(* left.                                                                    *)
AttemptsLeft ==
  RowLocks =>
    \A e \in Events : /\ attempts[e] = claims[e] /\ claims[e] <= MaxAttempts
                      /\ status[e] \in {"unwritten", "pending"} => claims[e] < MaxAttempts
                      /\ status[e] = "dead_letter" => claims[e] = MaxAttempts

(* With row locks a claimed event belongs to its runner: only a repository  *)
(* call that failed after its commit leaves it "processed" in its hands.    *)
Owned ==
  /\ \A r \in Runners :
       /\ pc[r] # "write_claim"
       /\ job[r] # NoEvent => /\ status[job[r]] \in {"processing", "processed"}
                              /\ outcome[r] # "retrying" => status[job[r]] = "processing"
  /\ \A r, s \in Runners : r # s /\ job[r] # NoEvent => job[r] # job[s]

(* What the session of a runner has read is still what the rows hold.       *)
ReadIsCurrent ==
  \A r \in Runners :
    /\ pc[r] = "write_mark" => loaded[r] = stateStatus[job[r]]
    /\ pc[r] \in {"write_complete", "write_defer"} => loaded[r] = status[job[r]]
    /\ pc[r] = "write_defer" => seen[r] = attempts[job[r]]

Claimed == RowLocks => Owned /\ ReadIsCurrent

IInv ==
  /\ TypeOK
  /\ MarkerCounts
  /\ ReportsMarked
  /\ AttemptsLeft
  /\ Claimed
-----------------------------------------------------------------------------
LEMMA InitInvariant == Init => IInv
<1> SUFFICES ASSUME Init PROVE IInv
  OBVIOUS
<1> USE MaxAttemptsAssumption, EventsAssumption, FaultsAssumption DEF Init
<1>1. TypeOK
  BY DEF TypeOK, Working, Statuses, StateStatuses
<1>2. MarkerCounts /\ ReportsMarked /\ AttemptsLeft /\ Claimed
  BY DEF MarkerCounts, ReportsMarked, AttemptsLeft, Claimed, Owned, ReadIsCurrent
<1> QED
  BY <1>1, <1>2 DEF IInv

(* A step of a runner.                                                      *)
Step(r) == ProcessOutbox(r) \/ Crash(r) \/ Unhandled(r)

LEMMA TypeCorrect == TypeOK /\ [Next]_vars => TypeOK'
<1> SUFFICES ASSUME TypeOK, Next PROVE TypeOK'
  BY DEF vars, TypeOK
<1> USE EventsAssumption, FaultsAssumption
    DEF TypeOK, Statuses, StateStatuses, Working, Goto, Return, Forget, Read, Close, Counted,
        Except, Assigned, events, store, session, locals, Runners
<1>d. UNCHANGED database
  BY DEF Next
<1> USE <1>d
<1>1. ASSUME NEW f \in FastPaths, NEW e \in Events, Persist(f, e) PROVE TypeOK'
  <2>1. Cardinality(Events) \in Nat
    BY EventsAssumption, FS_CardinalityType
  <2> QED
    BY <1>1, <2>1, RunnersAssumption DEF Persist
<1>2. ASSUME NEW r \in Runners, Claim(r) PROVE TypeOK'
  BY <1>2 DEF Claim, Oldest
<1>3. ASSUME NEW r \in Runners, ReadOldest(r) \/ WriteClaim(r) \/ NothingDue(r) PROVE TypeOK'
  BY <1>3 DEF ReadOldest, WriteClaim, NothingDue, Oldest
<1>4. ASSUME NEW r \in Runners, Apply(r) \/ ApplyFails(r) PROVE TypeOK'
  BY <1>4 DEF Apply, ApplyFails, RecordIfAbsent
<1>5. ASSUME NEW r \in Runners, LoadDecision(r) \/ Mark(r) \/ MarkFails(r) PROVE TypeOK'
  BY <1>5 DEF LoadDecision, Mark, MarkFails, MarkState
<1>6. ASSUME NEW r \in Runners, LoadToComplete(r) \/ Complete(r) \/ CompleteFails(r)
      PROVE  TypeOK'
  BY <1>6 DEF LoadToComplete, Complete, CompleteFails, SetStatus
<1>7. ASSUME NEW r \in Runners, LoadToDefer(r) \/ Defer(r) PROVE TypeOK'
  BY <1>7 DEF LoadToDefer, Defer, SetStatus
<1>8. ASSUME NEW r \in Runners, Crash(r) \/ Unhandled(r) PROVE TypeOK'
  BY <1>8 DEF Crash, Unhandled, Stop
<1>9. ASSUME NEW w \in Workers, Restart(w) PROVE TypeOK'
  BY <1>9 DEF Restart
<1>10. ASSUME NEW e \in Events, BackoffElapses(e) PROVE TypeOK'
  BY <1>10 DEF BackoffElapses
<1> QED
  BY <1>1, <1>2, <1>3, <1>4, <1>5, <1>6, <1>7, <1>8, <1>9, <1>10 DEF Next, ProcessOutbox
-----------------------------------------------------------------------------
LEMMA StepMarkerCounts ==
  ASSUME IInv, NEW r \in Runners, Step(r) PROVE MarkerCounts'
<1> USE DEF IInv, TypeOK, MarkerCounts, Working
<1>1. CASE Apply(r) \/ ApplyFails(r)
  <2>1. UNCHANGED store \/ RecordIfAbsent(job[r])
    BY <1>1 DEF Apply, ApplyFails
  <2>2. job[r] \in Events
    BY <1>1, EventsAssumption DEF Apply, ApplyFails, Except, Goto
  <2> QED
    BY <2>1, <2>2 DEF RecordIfAbsent, store
<1>2. CASE ~(Apply(r) \/ ApplyFails(r))
  BY <1>2
     DEF Step, ProcessOutbox, Claim, ReadOldest, WriteClaim, NothingDue, LoadDecision, Mark,
         MarkFails, LoadToComplete, Complete, CompleteFails, LoadToDefer, Defer, Crash,
         Unhandled, Stop, store
<1> QED
  BY <1>1, <1>2

LEMMA StepReportsMarked ==
  ASSUME IInv, NEW r \in Runners, Step(r) PROVE ReportsMarked'
<1> USE EventsAssumption
    DEF IInv, TypeOK, ReportsMarked, Working, Goto, Return, Forget, Read, Close, Except,
        Assigned, events, store, session, locals
<1>1. CASE Claim(r) \/ ReadOldest(r) \/ WriteClaim(r) \/ NothingDue(r)
  BY <1>1 DEF Claim, ReadOldest, WriteClaim, NothingDue, Oldest
<1>2. CASE Apply(r) \/ ApplyFails(r)
  BY <1>2 DEF Apply, ApplyFails, RecordIfAbsent
<1>3. CASE LoadDecision(r) \/ Mark(r) \/ MarkFails(r)
  BY <1>3 DEF LoadDecision, Mark, MarkFails, MarkState
<1>4. CASE LoadToComplete(r) \/ Complete(r) \/ CompleteFails(r)
  BY <1>4 DEF LoadToComplete, Complete, CompleteFails, SetStatus
<1>5. CASE LoadToDefer(r) \/ Defer(r)
  BY <1>5 DEF LoadToDefer, Defer, SetStatus
<1>6. CASE Crash(r) \/ Unhandled(r)
  BY <1>6 DEF Crash, Unhandled, Stop
<1> QED
  BY <1>1, <1>2, <1>3, <1>4, <1>5, <1>6 DEF Step, ProcessOutbox

LEMMA StepAttemptsLeft ==
  ASSUME IInv, NEW r \in Runners, Step(r), UNCHANGED database PROVE AttemptsLeft'
<1> SUFFICES ASSUME RowLocks PROVE AttemptsLeft'
  BY DEF AttemptsLeft, RowLocks
<1> USE EventsAssumption, MaxAttemptsAssumption
    DEF IInv, TypeOK, AttemptsLeft, Claimed, Owned, ReadIsCurrent, Working, Goto, Return,
        Forget, Read, Close, Except, Assigned, events, store, session, locals
<1>1. CASE Claim(r)
  BY <1>1 DEF Claim, Counted, Oldest, Claimable
<1>2. CASE ReadOldest(r) \/ WriteClaim(r) \/ NothingDue(r)
  BY <1>2 DEF ReadOldest, WriteClaim, NothingDue
<1>3. CASE \/ Apply(r) \/ ApplyFails(r) \/ LoadDecision(r) \/ Mark(r) \/ MarkFails(r)
           \/ LoadToComplete(r) \/ LoadToDefer(r)
  BY <1>3 DEF Apply, ApplyFails, LoadDecision, Mark, MarkFails, LoadToComplete, LoadToDefer
<1>4. CASE Complete(r) \/ CompleteFails(r)
  BY <1>4 DEF Complete, CompleteFails, SetStatus
<1>5. CASE Defer(r)
  BY <1>5 DEF Defer, SetStatus
<1>6. CASE Crash(r) \/ Unhandled(r)
  BY <1>6 DEF Crash, Unhandled, Stop
<1> QED
  BY <1>1, <1>2, <1>3, <1>4, <1>5, <1>6 DEF Step, ProcessOutbox

LEMMA StepClaimed ==
  ASSUME IInv, NEW r \in Runners, Step(r), UNCHANGED database PROVE Claimed'
<1> SUFFICES ASSUME RowLocks PROVE Owned' /\ ReadIsCurrent'
  BY DEF Claimed, RowLocks
<1> USE EventsAssumption
    DEF IInv, TypeOK, Statuses, StateStatuses, Claimed, Owned, ReadIsCurrent, Working, Goto,
        Return, Forget, Read, Close, Except, Assigned, events, store, session, locals
<1>1. CASE Claim(r)
  BY <1>1 DEF Claim, Oldest, Claimable
<1>2. CASE ReadOldest(r) \/ WriteClaim(r) \/ NothingDue(r)
  BY <1>2 DEF ReadOldest, WriteClaim, NothingDue
<1>3. CASE Apply(r) \/ ApplyFails(r)
  <2>1. /\ UNCHANGED <<status, attempts, stateStatus, job>>
        /\ pc[r] = "apply" /\ pc' = [pc EXCEPT ![r] = "mark"]
        /\ \E v : outcome' = [outcome EXCEPT ![r] = v]
        /\ \A q \in Runners : q # r => loaded'[q] = loaded[q] /\ seen'[q] = seen[q]
    BY <1>3 DEF Apply, ApplyFails
  <2>2. status[job[r]] = "processing"
    BY <2>1
  <2>3. Owned'
    BY <2>1, <2>2
  <2>4. ReadIsCurrent'
    BY <2>1
  <2> QED
    BY <2>3, <2>4
<1>4. CASE LoadDecision(r) \/ LoadToComplete(r) \/ LoadToDefer(r)
  BY <1>4 DEF LoadDecision, LoadToComplete, LoadToDefer
<1>5. CASE Mark(r) \/ MarkFails(r)
  BY <1>5 DEF Mark, MarkFails, MarkState
<1>6. CASE Complete(r) \/ CompleteFails(r)
  BY <1>6 DEF Complete, CompleteFails, SetStatus
<1>7. CASE Defer(r)
  BY <1>7 DEF Defer, SetStatus
<1>8. CASE Crash(r) \/ Unhandled(r)
  BY <1>8 DEF Crash, Unhandled, Stop
<1> QED
  BY <1>1, <1>2, <1>3, <1>4, <1>5, <1>6, <1>7, <1>8 DEF Step, ProcessOutbox

LEMMA NextInvariant == IInv /\ [Next]_vars => IInv'
<1> SUFFICES ASSUME IInv, [Next]_vars PROVE IInv'
  OBVIOUS
<1>1. TypeOK'
  BY TypeCorrect DEF IInv
<1>d. UNCHANGED database
  BY DEF Next, vars
<1> USE <1>d DEF RowLocks
<1>2. ASSUME NEW f \in FastPaths, NEW e \in Events, Persist(f, e) PROVE IInv'
  <2>1. /\ status[e] = "unwritten" /\ status' = [status EXCEPT ![e] = "pending"]
        /\ pc' = [pc EXCEPT ![f] = "claim"] /\ pc[f] = "idle"
        /\ UNCHANGED <<attempts, stateStatus, additions, marker, job, loaded, seen, outcome,
                       claims>>
    BY <1>2 DEF Persist, Goto, store, session, locals
  <2>2. MarkerCounts' /\ ReportsMarked' /\ AttemptsLeft'
    BY <2>1 DEF IInv, TypeOK, MarkerCounts, ReportsMarked, AttemptsLeft
  <2>3. Claimed'
    BY <2>1, EventsAssumption
       DEF IInv, TypeOK, Claimed, Owned, ReadIsCurrent, Runners, Working
  <2> QED
    BY <1>1, <2>2, <2>3 DEF IInv
<1>3. ASSUME NEW r \in Runners, Step(r) PROVE IInv'
  BY <1>1, <1>3, <1>d, StepMarkerCounts, StepReportsMarked, StepAttemptsLeft, StepClaimed
     DEF IInv
<1>4. ASSUME NEW w \in Workers, Restart(w) PROVE IInv'
  BY <1>1, <1>4
     DEF Restart, Goto, events, store, session, locals, IInv, TypeOK, MarkerCounts,
         ReportsMarked, AttemptsLeft, Claimed, Owned, ReadIsCurrent, Runners
<1>5. ASSUME NEW e \in Events, BackoffElapses(e) PROVE IInv'
  BY <1>1, <1>5
     DEF BackoffElapses, store, session, locals, IInv, MarkerCounts, ReportsMarked,
         AttemptsLeft, Claimed, Owned, ReadIsCurrent
<1>6. CASE UNCHANGED vars
  BY <1>6
     DEF vars, IInv, TypeOK, MarkerCounts, ReportsMarked, AttemptsLeft, Claimed, Owned,
         ReadIsCurrent
<1> QED
  BY <1>2, <1>3, <1>4, <1>5, <1>6 DEF Next, Step

(* The inductive invariant holds in every reachable state.                    *)
THEOREM Invariant == Spec => []IInv
<1>1. Init => IInv
  BY InitInvariant
<1>2. IInv /\ [Next]_vars => IInv'
  BY NextInvariant
<1> QED
  BY <1>1, <1>2, PTL DEF Spec

(* Every row, marker and runner keeps the shape the code gives it.            *)
THEOREM TypeCorrectness == Spec => []TypeOK
BY Invariant, PTL DEF IInv

(* The velocity history never counts a decision twice, on PostgreSQL and on   *)
(* SQLite, whatever fails.                                                    *)
THEOREM AppliedOnce == Spec => []AppliedAtMostOnce
<1>1. IInv => AppliedAtMostOnce
  BY DEF IInv, MarkerCounts, AppliedAtMostOnce
<1> QED
  BY <1>1, Invariant, PTL

(* "processed" and "applied" are only ever written for an update that the     *)
(* store holds.                                                               *)
THEOREM ReportsAreTrue == Spec => []NothingReportedUnapplied
<1>1. IInv => NothingReportedUnapplied
  BY DEF IInv, MarkerCounts, ReportsMarked, NothingReportedUnapplied
<1> QED
  BY <1>1, Invariant, PTL

(* Where claims lock their row, an event is really claimed at most           *)
(* max_attempts times, and a dead letter was claimed exactly so often.        *)
THEOREM BoundedRetries ==
  ASSUME Databases = {"postgresql"} PROVE Spec => []RetriesExhausted
<1>1. IInv => RetriesExhausted
  BY DEF IInv, TypeOK, RowLocks, AttemptsLeft, RetriesExhausted
<1> QED
  BY <1>1, Invariant, PTL

(* Where claims lock their row, an event has one runner.                      *)
THEOREM ExclusiveClaims ==
  ASSUME Databases = {"postgresql"} PROVE Spec => []OneRunnerPerEvent
<1>1. IInv => OneRunnerPerEvent
  BY DEF IInv, TypeOK, RowLocks, Claimed, Owned, OneRunnerPerEvent
<1> QED
  BY <1>1, Invariant, PTL
-----------------------------------------------------------------------------
Effect == {e \in Events : additions[e] > 0}

(* What the verdict on one event says about its row and its runners.         *)
LEMMA VerdictOf ==
  ASSUME NEW e \in Events
  PROVE  /\ status[e] = "unwritten" => Verdict[e] = "none"
         /\ status[e] \in {"pending", "processing"} => Verdict[e] = "open"
         /\ ~Unattended(e) /\ status[e] \in {"processed", "dead_letter"} => Verdict[e] = "open"
         /\ Unattended(e) /\ status[e] = "processed" => Verdict[e] = "delivered"
         /\ Unattended(e) /\ status[e] = "dead_letter" => Verdict[e] = "abandoned"
BY DEF Verdict

(* A verdict is about one row and who works on it.                           *)
LEMMA VerdictUntouched ==
  ASSUME NEW e \in Events, status'[e] = status[e], Unattended(e)' <=> Unattended(e)
  PROVE  Verdict'[e] = Verdict[e]
BY DEF Verdict

(* Rows and jobs stay: nothing happens to the verdicts.                      *)
LEMMA VerdictsUntouched == UNCHANGED <<status, job>> => UNCHANGED Verdict
BY DEF Verdict, Unattended

(* A change of one verdict, and of no other.                                 *)
LEMMA VerdictMoves ==
  ASSUME NEW e \in Events, NEW v, Verdict'[e] = v,
         \A x \in Events \ {e} : /\ status'[x] = status[x]
                                 /\ Unattended(x)' <=> Unattended(x)
  PROVE  Verdict' = [Verdict EXCEPT ![e] = v]
<1>1. \A x \in Events \ {e} : Verdict'[x] = Verdict[x]
  BY VerdictUntouched
<1>2. Verdict = [x \in Events |-> Verdict[x]] /\ Verdict' = [x \in Events |-> Verdict'[x]]
  BY DEF Verdict
<1> QED
  BY <1>1, <1>2

(* A step of a runner that leaves its job and the row is a stutter or a take. *)
LEMMA DeliveryTake ==
  ASSUME RowLocks, IInv, NEW r \in Runners, NEW e \in Events,
         job[r] = e, pc[r] = "apply", RecordIfAbsent(e), UNCHANGED <<status, job>>
  PROVE  Delivery!Take(e) \/ UNCHANGED <<Effect, Verdict>>
<1>1. /\ status[e] \in {"processing", "processed"} /\ ~Unattended(e)
      /\ additions \in [Events -> Nat]
  BY EventsAssumption DEF IInv, TypeOK, Claimed, Owned, Unattended
<1>2. UNCHANGED Verdict
  BY VerdictsUntouched
<1>3. CASE e \in marker
  BY <1>2, <1>3 DEF RecordIfAbsent, Effect
<1>4. CASE e \notin marker
  <2>1. additions[e] = 0 /\ additions' = [additions EXCEPT ![e] = @ + 1]
    BY <1>1, <1>4 DEF IInv, MarkerCounts, RecordIfAbsent
  <2>2. e \notin Effect /\ Effect' = Effect \cup {e}
    BY <1>1, <2>1 DEF Effect
  <2>3. Verdict[e] = "open"
    BY <1>1, VerdictOf
  <2> QED
    BY <1>2, <2>2, <2>3 DEF Delivery!Take, Effect
<1> QED
  BY <1>3, <1>4

(* A runner that gives up its job settles the verdict of a processed event.   *)
LEMMA DeliveryRelease ==
  ASSUME RowLocks, IInv, NEW r \in Runners, NEW e \in Events, NEW s, job[r] = e,
         job' = [job EXCEPT ![r] = NoEvent],
         status' = [status EXCEPT ![e] = s],
         UNCHANGED additions,
         \/ s \in {"pending", "processing", "dead_letter"}
         \/ s = "processed" /\ e \in marker
  PROVE  Delivery!Deliver(e) \/ Delivery!Abandon(e) \/ UNCHANGED <<Effect, Verdict>>
<1>1. /\ e # NoEvent /\ status[e] \in {"processing", "processed"} /\ ~Unattended(e)
      /\ \A q \in Runners : q # r => job[q] # e
      /\ status \in [Events -> Statuses] /\ job \in [Runners -> Events \cup {NoEvent}]
  BY EventsAssumption DEF IInv, TypeOK, Claimed, Owned, Unattended
<1>2. Verdict[e] = "open"
  BY <1>1, VerdictOf
<1>3. Unattended(e)' /\ status'[e] = s
  BY <1>1, EventsAssumption DEF Unattended
<1>4. \A x \in Events \ {e} : status'[x] = status[x] /\ (Unattended(x)' <=> Unattended(x))
  BY <1>1, EventsAssumption DEF Unattended
<1>5. UNCHANGED Effect
  BY DEF Effect
<1>6. Verdict' = [Verdict EXCEPT ![e] = Verdict'[e]]
  BY <1>1, <1>4, VerdictMoves
<1>7. CASE s = "processed" /\ e \in marker
  <2>1. Verdict'[e] = "delivered"
    BY <1>1, <1>3, <1>7 DEF Verdict
  <2>2. e \in Effect
    BY <1>1, <1>7 DEF IInv, MarkerCounts, Effect
  <2> QED
    BY <1>2, <1>5, <1>6, <2>1, <2>2 DEF Delivery!Deliver, Delivery!Decide, Effect
<1>8. CASE s = "dead_letter"
  <2>1. Verdict'[e] = "abandoned"
    BY <1>1, <1>3, <1>8 DEF Verdict
  <2> QED
    BY <1>2, <1>5, <1>6, <2>1 DEF Delivery!Abandon, Delivery!Decide, Effect
<1>9. CASE s \in {"pending", "processing"}
  <2>1. Verdict'[e] = "open"
    BY <1>1, <1>3, <1>9 DEF Verdict
  <2>2. Verdict' = Verdict
    BY <1>1, <1>2, <1>6, <2>1 DEF Verdict
  <2> QED
    BY <1>5, <2>2
<1> QED
  BY <1>7, <1>8, <1>9

(* Every step of a runner is a step of the abstract delivery, or invisible.   *)
LEMMA DeliveryStep ==
  ASSUME RowLocks, IInv, NEW r \in Runners, Step(r)
  PROVE  Delivery!Next \/ UNCHANGED <<Effect, Verdict>>
<1> USE DEF Goto, Return, Forget, Except, Assigned, events, store, session, locals
<1>t. /\ job[r] # NoEvent <=> pc[r] \in Working
      /\ job[r] \in Events \cup {NoEvent} /\ NoEvent \notin Events
      /\ pc[r] # "write_claim"
      /\ pc[r] \in {"write_complete", "write_defer"} => loaded[r] = status[job[r]]
      /\ job \in [Runners -> Events \cup {NoEvent}] /\ status \in [Events -> Statuses]
  BY EventsAssumption DEF IInv, TypeOK, Claimed, Owned, ReadIsCurrent
<1>1. CASE Claim(r)
  <2>1. PICK e \in Events : /\ status[e] = "pending"
                            /\ status' = [status EXCEPT ![e] = "processing"]
                            /\ job' = [job EXCEPT ![r] = e]
    BY <1>1 DEF Claim, Oldest, Claimable
  <2>2. job[r] = NoEvent /\ UNCHANGED additions
    BY <1>1, <1>t DEF Claim, Working
  <2>3. \A x \in Events \ {e} : status'[x] = status[x] /\ (Unattended(x)' <=> Unattended(x))
    BY <2>1, <2>2, <1>t DEF Unattended
  <2>4. Verdict[e] = "open" /\ Verdict'[e] = "open"
    BY <2>1, <1>t DEF Verdict
  <2>5. Verdict' = [Verdict EXCEPT ![e] = "open"]
    BY <2>3, <2>4, VerdictMoves
  <2>6. UNCHANGED Verdict
    BY <2>4, <2>5 DEF Verdict
  <2> QED
    BY <2>2, <2>6 DEF Effect
<1>2. CASE ReadOldest(r) \/ WriteClaim(r)
  BY <1>2, <1>t DEF ReadOldest, WriteClaim
<1>3. CASE \/ NothingDue(r) \/ LoadDecision(r) \/ Mark(r) \/ MarkFails(r)
           \/ LoadToComplete(r) \/ LoadToDefer(r)
  <2>1. UNCHANGED <<status, job, additions>>
    BY <1>3 DEF NothingDue, LoadDecision, Mark, MarkFails, LoadToComplete, LoadToDefer
  <2> QED
    BY <2>1, VerdictsUntouched DEF Effect
<1>4. CASE Apply(r) \/ ApplyFails(r)
  <2>1. pc[r] = "apply" /\ UNCHANGED <<status, job>> /\ job[r] \in Events
    BY <1>4, <1>t DEF Apply, ApplyFails, Working
  <2>2. RecordIfAbsent(job[r]) \/ UNCHANGED additions
    BY <1>4 DEF Apply, ApplyFails
  <2>3. CASE RecordIfAbsent(job[r])
    <3>1. PICK e \in Events : job[r] = e
      BY <2>1
    <3>2. RecordIfAbsent(e)
      BY <2>3, <3>1 DEF RecordIfAbsent
    <3>3. Delivery!Take(e) \/ UNCHANGED <<Effect, Verdict>>
      BY <2>1, <3>1, <3>2, DeliveryTake
    <3> QED
      BY <3>3 DEF Delivery!Next
  <2>4. CASE UNCHANGED additions
    BY <2>1, <2>4, VerdictsUntouched DEF Effect
  <2> QED
    BY <2>2, <2>3, <2>4
<1>5. CASE Complete(r)
  <2>1. /\ job[r] # NoEvent /\ job[r] \in Events /\ job[r] \in marker
        /\ job' = [job EXCEPT ![r] = NoEvent] /\ UNCHANGED additions
    BY <1>5, <1>t DEF Complete, Working, IInv, TypeOK, ReportsMarked
  <2>2. status' = [status EXCEPT ![job[r]] = "processed"]
    BY <1>5, <2>1, <1>t DEF Complete, SetStatus
  <2> QED
    BY <2>1, <2>2, DeliveryRelease DEF Delivery!Next
<1>6. CASE CompleteFails(r)
  <2>1. /\ job[r] \in Events /\ status[job[r]] = "processing" /\ UNCHANGED <<job, additions>>
        /\ UNCHANGED status \/ status' = [status EXCEPT ![job[r]] = "processed"]
    BY <1>6, <1>t DEF CompleteFails, SetStatus, Working, IInv, TypeOK, Claimed, Owned
  <2>2. \A x \in Events : Unattended(x)' <=> Unattended(x)
    BY <2>1 DEF Unattended
  <2>3. CASE UNCHANGED status
    BY <2>1, <2>3, VerdictsUntouched DEF Effect
  <2>4. CASE status' = [status EXCEPT ![job[r]] = "processed"]
    <3>1. ~Unattended(job[r]) /\ Verdict[job[r]] = "open"
      BY <2>1, VerdictOf DEF Unattended
    <3>2. Verdict'[job[r]] = "open"
      BY <2>1, <2>2, <2>4, <3>1, <1>t DEF Verdict
    <3>3. \A x \in Events \ {job[r]} : status'[x] = status[x]
      BY <2>4, <1>t
    <3>4. Verdict' = [Verdict EXCEPT ![job[r]] = "open"]
      BY <2>1, <2>2, <3>2, <3>3, VerdictMoves
    <3> QED
      BY <2>1, <3>1, <3>4 DEF Verdict, Effect
  <2> QED
    BY <2>1, <2>3, <2>4
<1>7. CASE Defer(r)
  <2>1. /\ job[r] # NoEvent /\ job[r] \in Events /\ loaded[r] = status[job[r]]
        /\ job' = [job EXCEPT ![r] = NoEvent] /\ UNCHANGED additions
    BY <1>7, <1>t DEF Defer, Working
  <2>2. PICK s \in {"pending", "dead_letter"} : SetStatus(r, s)
    BY <1>7 DEF Defer
  <2>3. status' = [status EXCEPT ![job[r]] = s]
    BY <2>1, <2>2, <1>t DEF SetStatus
  <2> QED
    BY <2>1, <2>3, DeliveryRelease DEF Delivery!Next
<1>8. CASE Crash(r) \/ Unhandled(r)
  <2>1. job' = [job EXCEPT ![r] = NoEvent] /\ UNCHANGED <<status, additions>>
    BY <1>8 DEF Crash, Unhandled, Stop
  <2>2. CASE job[r] = NoEvent
    BY <2>1, <2>2, <1>t, VerdictsUntouched DEF Effect
  <2>3. CASE job[r] # NoEvent
    <3>1. /\ job[r] \in Events /\ status[job[r]] \in {"processing", "processed"}
          /\ status[job[r]] = "processed" => job[r] \in marker
      BY <2>3, <1>t DEF IInv, Claimed, Owned, ReportsMarked
    <3>2. status' = [status EXCEPT ![job[r]] = status[job[r]]]
      BY <2>1, <1>t
    <3> QED
      BY <2>1, <2>3, <3>1, <3>2, DeliveryRelease DEF Delivery!Next
  <2> QED
    BY <2>2, <2>3
<1> QED
  BY <1>1, <1>2, <1>3, <1>4, <1>5, <1>6, <1>7, <1>8 DEF Step, ProcessOutbox

(* With row locks the outbox implements the abstract delivery: each update    *)
(* reaches the online state at most once, is reported only then, and a        *)
(* verdict is final.                                                          *)
THEOREM OutboxImplementsDelivery ==
  ASSUME Databases = {"postgresql"} PROVE Spec => DeliverySpec
<1>1. Init => Delivery!Init
  BY DEF Init, Delivery!Init, Verdict
<1>2. IInv /\ [Next]_vars => [Delivery!Next]_(Delivery!deliveryVars)
  <2> SUFFICES ASSUME IInv, [Next]_vars
               PROVE  Delivery!Next \/ UNCHANGED <<Effect, Verdict>>
    BY DEF Delivery!deliveryVars, Effect
  <2>r. RowLocks
    BY DEF RowLocks, IInv, TypeOK
  <2>1. ASSUME NEW f \in FastPaths, NEW e \in Events, Persist(f, e) PROVE Delivery!Accept(e)
    <3>1. /\ status[e] = "unwritten" /\ status' = [status EXCEPT ![e] = "pending"]
          /\ UNCHANGED <<additions, job>> /\ status \in [Events -> Statuses]
      BY <2>1 DEF Persist, store, locals, IInv, TypeOK
    <3>2. Verdict[e] = "none" /\ Verdict'[e] = "open"
      BY <3>1 DEF Verdict
    <3>3. \A x \in Events \ {e} : status'[x] = status[x] /\ (Unattended(x)' <=> Unattended(x))
      BY <3>1 DEF Unattended
    <3>4. Verdict' = [Verdict EXCEPT ![e] = "open"]
      BY <3>2, <3>3, VerdictMoves
    <3> QED
      BY <3>1, <3>2, <3>4 DEF Delivery!Accept, Delivery!Decide
  <2>2. ASSUME NEW r \in Runners, Step(r)
        PROVE  Delivery!Next \/ UNCHANGED <<Effect, Verdict>>
    BY <2>r, <2>2, DeliveryStep
  <2>3. ASSUME NEW w \in Workers, Restart(w) PROVE UNCHANGED <<Effect, Verdict>>
    BY <2>3, VerdictsUntouched DEF Restart, events, store, session, locals, Effect
  <2>4. ASSUME NEW e \in Events, BackoffElapses(e) PROVE UNCHANGED <<Effect, Verdict>>
    BY <2>4, VerdictsUntouched DEF BackoffElapses, store, session, locals, Effect
  <2>5. CASE UNCHANGED vars
    BY <2>5, VerdictsUntouched DEF vars, Effect
  <2> QED
    BY <2>1, <2>2, <2>3, <2>4, <2>5 DEF Next, Step, Delivery!Next
<1> QED
  BY <1>1, <1>2, Invariant, PTL DEF Spec, DeliverySpec, Delivery!Spec
-----------------------------------------------------------------------------
(* Without failing repository calls nothing but its runner ends an event's   *)
(* "processing", and the decision is marked before the event.                *)
MarkedFirst ==
  \A r \in Runners :
    /\ job[r] # NoEvent => status[job[r]] = "processing"
    /\ pc[r] \in {"complete", "write_complete"} =>
         stateStatus[job[r]] \in {"applied", "already_applied"}
    /\ pc[r] \in {"defer", "write_defer"} => stateStatus[job[r]] = "retrying"

LEMMA MarkedFirstStep ==
  ASSUME RowLocks, ~DbFaults, IInv, MarkedFirst, NEW r \in Runners, Step(r)
  PROVE  MarkedFirst'
<1> USE EventsAssumption
    DEF IInv, TypeOK, Statuses, Working, Claimed, Owned, ReadIsCurrent, MarkedFirst, Goto,
        Return, Forget, Except, Assigned, events, store, session, locals
<1>1. CASE Claim(r)
  BY <1>1 DEF Claim, Oldest, Claimable
<1>2. CASE ReadOldest(r) \/ WriteClaim(r) \/ NothingDue(r)
  BY <1>2 DEF ReadOldest, WriteClaim, NothingDue
<1>3. CASE Apply(r) \/ ApplyFails(r)
  BY <1>3 DEF Apply, ApplyFails
<1>4. CASE LoadDecision(r) \/ LoadToComplete(r) \/ LoadToDefer(r)
  BY <1>4 DEF LoadDecision, LoadToComplete, LoadToDefer
<1>5. CASE Mark(r) \/ MarkFails(r)
  BY <1>5 DEF Mark, MarkFails, MarkState
<1>6. CASE Complete(r) \/ CompleteFails(r)
  BY <1>6 DEF Complete, CompleteFails, SetStatus
<1>7. CASE Defer(r)
  BY <1>7 DEF Defer, SetStatus
<1>8. CASE Crash(r) \/ Unhandled(r)
  BY <1>8 DEF Crash, Unhandled, Stop
<1> QED
  BY <1>1, <1>2, <1>3, <1>4, <1>5, <1>6, <1>7, <1>8 DEF Step, ProcessOutbox

LEMMA DecisionShowsVerdictStep ==
  ASSUME RowLocks, ~DbFaults, IInv, MarkedFirst, DecisionShowsVerdict,
         NEW r \in Runners, Step(r)
  PROVE  DecisionShowsVerdict'
<1> USE EventsAssumption
    DEF IInv, TypeOK, Statuses, Working, Claimed, Owned, ReadIsCurrent, MarkedFirst,
        DecisionShowsVerdict, Unattended, Goto, Return, Forget, Except, Assigned, events,
        store, session, locals
<1>1. CASE Claim(r)
  BY <1>1 DEF Claim, Oldest, Claimable
<1>2. CASE ReadOldest(r) \/ WriteClaim(r) \/ NothingDue(r)
  BY <1>2 DEF ReadOldest, WriteClaim, NothingDue
<1>3. CASE Apply(r) \/ ApplyFails(r)
  BY <1>3 DEF Apply, ApplyFails
<1>4. CASE LoadDecision(r) \/ LoadToComplete(r) \/ LoadToDefer(r)
  BY <1>4 DEF LoadDecision, LoadToComplete, LoadToDefer
<1>5. CASE Mark(r) \/ MarkFails(r)
  BY <1>5 DEF Mark, MarkFails, MarkState
<1>6. CASE Complete(r) \/ CompleteFails(r)
  BY <1>6 DEF Complete, CompleteFails, SetStatus
<1>7. CASE Defer(r)
  BY <1>7 DEF Defer, SetStatus
<1>8. CASE Crash(r) \/ Unhandled(r)
  BY <1>8 DEF Crash, Unhandled, Stop
<1> QED
  BY <1>1, <1>2, <1>3, <1>4, <1>5, <1>6, <1>7, <1>8 DEF Step, ProcessOutbox

(* With row locks and a working database, a decision whose event is settled   *)
(* shows how it was settled, however often the store failed and whoever       *)
(* crashed.                                                                   *)
THEOREM SettledDecisionsShowIt ==
  ASSUME Databases = {"postgresql"}, ~DbFaults PROVE Spec => []DecisionShowsVerdict
<1> DEFINE Shown == IInv /\ MarkedFirst /\ DecisionShowsVerdict
<1>1. Init => Shown
  <2> SUFFICES ASSUME Init PROVE MarkedFirst /\ DecisionShowsVerdict
    BY InitInvariant
  <2> QED
    BY DEF Init, MarkedFirst, DecisionShowsVerdict
<1>2. Shown /\ [Next]_vars => Shown'
  <2> SUFFICES ASSUME Shown, [Next]_vars PROVE MarkedFirst' /\ DecisionShowsVerdict'
    BY NextInvariant
  <2>r. RowLocks
    BY DEF RowLocks, IInv, TypeOK
  <2>1. ASSUME NEW f \in FastPaths, NEW e \in Events, Persist(f, e)
        PROVE  MarkedFirst' /\ DecisionShowsVerdict'
    <3>1. /\ status[e] = "unwritten" /\ status' = [status EXCEPT ![e] = "pending"]
          /\ pc[f] = "idle" /\ pc' = [pc EXCEPT ![f] = "claim"]
          /\ UNCHANGED <<stateStatus, job>>
      BY <2>1 DEF Persist, Goto, store, session, locals
    <3> QED
      BY <2>r, <3>1, EventsAssumption
         DEF MarkedFirst, DecisionShowsVerdict, Unattended, IInv, TypeOK, Statuses, Runners,
             Working
  <2>2. ASSUME NEW r \in Runners, Step(r) PROVE MarkedFirst' /\ DecisionShowsVerdict'
    BY <2>r, <2>2, MarkedFirstStep, DecisionShowsVerdictStep
  <2>3. ASSUME NEW w \in Workers, Restart(w) PROVE MarkedFirst' /\ DecisionShowsVerdict'
    BY <2>r, <2>3
       DEF Restart, Goto, events, locals, MarkedFirst, DecisionShowsVerdict, Unattended, IInv,
           TypeOK, Runners
  <2>4. ASSUME NEW e \in Events, BackoffElapses(e)
        PROVE  MarkedFirst' /\ DecisionShowsVerdict'
    BY <2>r, <2>4 DEF BackoffElapses, locals, MarkedFirst, DecisionShowsVerdict, Unattended
  <2>5. CASE UNCHANGED vars
    BY <2>r, <2>5 DEF vars, MarkedFirst, DecisionShowsVerdict, Unattended
  <2> QED
    BY <2>1, <2>2, <2>3, <2>4, <2>5 DEF Next, Step
<1> QED
  BY <1>1, <1>2, PTL DEF Spec
-----------------------------------------------------------------------------
(* Whoever wrote "processing" last has not read the event since, or has     *)
(* read "processing": its next commit ends it, whatever the other runners   *)
(* have read.                                                               *)
Held(e) ==
  \E r \in Runners :
    /\ job[r] = e /\ pc[r] # "write_claim"
    /\ pc[r] \in {"write_complete", "write_defer"} => loaded[r] = "processing"

HeldOrFailed ==
  \A e \in Events : status[e] = "processing" => Held(e) \/ crashes > 0 \/ DbFaults

LEMMA StepHeld ==
  ASSUME IInv, HeldOrFailed, NEW r \in Runners, Step(r) PROVE HeldOrFailed'
<1> SUFFICES ASSUME NEW e \in Events, status'[e] = "processing", crashes' = 0, ~DbFaults
             PROVE  Held(e)'
  BY FaultsAssumption, TypeCorrect DEF HeldOrFailed, Step, ProcessOutbox, IInv, TypeOK,
     Claim, ReadOldest, WriteClaim, NothingDue, Apply, ApplyFails, LoadDecision, Mark, MarkFails,
     LoadToComplete, Complete, CompleteFails, LoadToDefer, Defer, Crash, Unhandled
<1> USE EventsAssumption, FaultsAssumption
    DEF IInv, TypeOK, Statuses, Working, HeldOrFailed, Held, Goto, Return, Forget, Read, Close,
        Except, Assigned, events, store, session, locals
<1>1. CASE Claim(r) \/ ReadOldest(r) \/ WriteClaim(r) \/ NothingDue(r)
  BY <1>1 DEF Claim, ReadOldest, WriteClaim, NothingDue, Oldest, Claimable
<1>2. CASE Apply(r) \/ ApplyFails(r) \/ LoadDecision(r) \/ Mark(r)
  BY <1>2 DEF Apply, ApplyFails, LoadDecision, Mark
<1>3. CASE LoadToComplete(r) \/ LoadToDefer(r)
  BY <1>3 DEF LoadToComplete, LoadToDefer
<1>4. CASE Complete(r)
  BY <1>4 DEF Complete, SetStatus
<1>5. CASE Defer(r)
  BY <1>5 DEF Defer, SetStatus
<1>6. CASE MarkFails(r) \/ CompleteFails(r) \/ Unhandled(r)
  BY <1>6 DEF MarkFails, CompleteFails, Unhandled
<1>7. CASE Crash(r)
  BY <1>7 DEF Crash
<1> QED
  BY <1>1, <1>2, <1>3, <1>4, <1>5, <1>6, <1>7 DEF Step, ProcessOutbox

(* claim_next_outbox never selects "processing" again; this is what its      *)
(* callers owe it, and only deaths and unhandled exceptions break it.         *)
THEOREM OnlyFailuresStrand == Spec => []StrandedByFailureOnly
<1>1. Init => HeldOrFailed
  BY DEF Init, HeldOrFailed
<1>2. IInv /\ HeldOrFailed /\ [Next]_vars => HeldOrFailed'
  <2> SUFFICES ASSUME IInv, HeldOrFailed, [Next]_vars PROVE HeldOrFailed'
    OBVIOUS
  <2>1. ASSUME NEW r \in Runners, Step(r) PROVE HeldOrFailed'
    BY <2>1, StepHeld
  <2>2. ASSUME NEW f \in FastPaths, NEW e \in Events, Persist(f, e) PROVE HeldOrFailed'
    BY <2>2, EventsAssumption
       DEF Persist, Goto, session, locals, HeldOrFailed, Held, IInv, TypeOK, Working, Runners
  <2>3. ASSUME NEW w \in Workers, Restart(w) PROVE HeldOrFailed'
    BY <2>3, EventsAssumption
       DEF Restart, Goto, events, session, locals, HeldOrFailed, Held, IInv, TypeOK, Working,
           Runners
  <2>4. CASE (\E e \in Events : BackoffElapses(e)) \/ UNCHANGED vars
    BY <2>4 DEF BackoffElapses, session, locals, vars, HeldOrFailed, Held
  <2> QED
    BY <2>1, <2>2, <2>3, <2>4 DEF Next, Step
<1>3. IInv /\ HeldOrFailed => StrandedByFailureOnly
  BY DEF HeldOrFailed, Held, StrandedByFailureOnly, Unattended
<1> QED
  BY <1>1, <1>2, <1>3, Invariant, PTL DEF Spec
-----------------------------------------------------------------------------
(* A verdict, and the update it is about, are never taken back.               *)
VerdictKept ==
  /\ Effect \subseteq Effect'
  /\ \A e \in Events : Verdict[e] \in {"delivered", "abandoned"} => Verdict'[e] = Verdict[e]

(* defer_outbox, complete_outbox and claim_next_outbox never look at the       *)
(* status they overwrite; with row locks no settled event is overwritten, and *)
(* none is delivered a second time.                                           *)
THEOREM VerdictsAreFinal ==
  ASSUME Databases = {"postgresql"} PROVE Spec => [][VerdictKept]_<<Effect, Verdict>>
<1>1. [Delivery!Next]_(Delivery!deliveryVars) => [VerdictKept]_<<Effect, Verdict>>
  <2> SUFFICES ASSUME Delivery!Next PROVE VerdictKept
    BY DEF Delivery!deliveryVars, Effect
  <2>1. PICK e \in Events : \/ Delivery!Accept(e) \/ Delivery!Take(e)
                            \/ Delivery!Deliver(e) \/ Delivery!Abandon(e)
    BY DEF Delivery!Next
  <2>2. CASE Delivery!Take(e)
    BY <2>2 DEF Delivery!Take, Effect, VerdictKept
  <2>3. CASE ~Delivery!Take(e)
    <3>1. PICK v \in {"open", "delivered", "abandoned"} :
            /\ Verdict[e] \in {"none", "open"} /\ Verdict' = [Verdict EXCEPT ![e] = v]
            /\ UNCHANGED Effect
      BY <2>1, <2>3
         DEF Delivery!Accept, Delivery!Deliver, Delivery!Abandon, Delivery!Decide, Effect
    <3>2. \A x \in Events \ {e} : Verdict'[x] = Verdict[x]
      BY <3>1 DEF Verdict
    <3> QED
      BY <3>1, <3>2 DEF VerdictKept
  <2> QED
    BY <2>2, <2>3
<1> QED
  BY <1>1, OutboxImplementsDelivery, PTL DEF DeliverySpec, Delivery!Spec
=============================================================================
