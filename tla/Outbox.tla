-------------------------------- MODULE Outbox --------------------------------
(***************************************************************************)
(* The transactional outbox: FraudScoringService.process_outbox as run by   *)
(* the outbox worker and, once per created decision, by the scoring request *)
(* itself, over the claim / mark / complete / defer operations of           *)
(* DecisionRepository and the idempotent marker of RedisFeatureStore.       *)
(*                                                                          *)
(* A store call is one step.  A repository call that changes a row is two:  *)
(* session.get or select reads it, and the commit later writes the columns  *)
(* that the call assigned; only a claim with row locks is one.              *)
(* An OutboxEvent and its decision are one to one, so both are named by the *)
(* event.                                                                   *)
(***************************************************************************)
EXTENDS Naturals, FiniteSets

CONSTANTS Events,      \* the outbox events ever written
          NoEvent,
          Workers,     \* processes running workers/outbox.py
          FastPaths,   \* scoring requests in flight at the same time
          MaxAttempts, \* defer_outbox(max_attempts=8)
          Databases,   \* what database_url may name
          StoreFaults, \* Redis may fail, or answer too late
          DbFaults,    \* a repository call may fail
          MaxCrashes   \* how often a process may die: bounds the model

ASSUME MaxAttemptsAssumption == MaxAttempts \in Nat \ {0}
ASSUME EventsAssumption == IsFiniteSet(Events) /\ NoEvent \notin Events
ASSUME RunnersAssumption == Workers \cap FastPaths = {}
ASSUME DatabasesAssumption == Databases \subseteq {"postgresql", "sqlite"}
ASSUME FaultsAssumption ==
  {StoreFaults, DbFaults} \subseteq BOOLEAN /\ MaxCrashes \in Nat

Runners == Workers \cup FastPaths

VARIABLES database,    \* database_url
          status,      \* OutboxEvent.status, or "unwritten"
          attempts,    \* OutboxEvent.attempts
          delayed,     \* events whose available_at is in the future
          born,        \* OutboxEvent.created_at; 0: unwritten
          stateStatus, \* TransactionDecision.state_update_status
          additions,   \* how often the event was added to the online history
          marker,      \* events whose processed marker exists in the store
          pc,          \* where each runner is in process_outbox
          job,         \* the event it works on
          loaded,      \* the status its open session has read
          seen,        \* the attempts its open session has read
          outcome,     \* the state_update_status it is to write
          claims,      \* history: how often each event was claimed
          crashes      \* deaths so far

vars == <<database, status, attempts, delayed, born, stateStatus, additions, marker, pc,
          job, loaded, seen, outcome, claims, crashes>>
events == <<status, attempts, delayed, born>>
store == <<additions, marker>>
session == <<loaded, seen>>
locals == <<job, session, outcome>>

(* FOR UPDATE SKIP LOCKED is honoured: SQLite ignores it.                    *)
RowLocks == database = "postgresql"

Init ==
  /\ database \in Databases
  /\ status = [e \in Events |-> "unwritten"]
  /\ attempts = [e \in Events |-> 0]
  /\ delayed = {}
  /\ born = [e \in Events |-> 0]
  /\ stateStatus = [e \in Events |-> "pending"]
  /\ additions = [e \in Events |-> 0]
  /\ marker = {}
  /\ pc = [r \in Runners |-> IF r \in Workers THEN "claim" ELSE "idle"]
  /\ job = [r \in Runners |-> NoEvent]
  /\ loaded = [r \in Runners |-> "none"]
  /\ seen = [r \in Runners |-> 0]
  /\ outcome = [r \in Runners |-> "none"]
  /\ claims = [e \in Events |-> 0]
  /\ crashes = 0

Goto(r, from, to) == pc[r] = from /\ pc' = [pc EXCEPT ![r] = to]

(* The session of a call reads a row, and is closed when the call ends.     *)
Read(r, row, count) == /\ loaded' = [loaded EXCEPT ![r] = row]
                       /\ seen' = [seen EXCEPT ![r] = count]
Close(r) == Read(r, "none", 0)

(* Mutant of Forget: the runner keeps its last job.                         *)
ForgetNothing(r) == UNCHANGED <<job, outcome>> /\ Close(r)

Forget(r) == /\ job' = [job EXCEPT ![r] = NoEvent]
             /\ outcome' = [outcome EXCEPT ![r] = "none"]
             /\ Close(r)

(* The next iteration of the worker; process_outbox(limit=1) of a request   *)
(* returns.                                                                 *)
Return(r, from) == /\ Goto(r, from, IF r \in Workers THEN "claim" ELSE "idle")
                   /\ Forget(r)

(* Mutants of Claimable: events in work, or given up, are claimed again.    *)
ClaimableInWork(e) == status[e] \in {"pending", "processing"} /\ e \notin delayed
ClaimableGivenUp(e) == status[e] \in {"pending", "dead_letter"} /\ e \notin delayed

(* status = 'pending' AND available_at <= now ORDER BY created_at           *)
Claimable(e) == status[e] = "pending" /\ e \notin delayed
Oldest(e) == Claimable(e) /\ \A x \in Events : Claimable(x) => born[e] <= born[x]
-----------------------------------------------------------------------------
(* persist commits the event with its decision, and score goes on to the    *)
(* fast path.  created_at is the start of the transaction, so commits come  *)
(* in any order of it, and equal times are possible.                        *)
Persist(f, e) ==
  /\ Goto(f, "idle", "claim")
  /\ status[e] = "unwritten"
  /\ status' = [status EXCEPT ![e] = "pending"]
  /\ \E now \in 1..Cardinality(Events) : born' = [born EXCEPT ![e] = now]
  /\ UNCHANGED <<attempts, delayed, stateStatus, store, locals, claims, crashes>>

Counted(e) == claims' = [claims EXCEPT ![e] = @ + 1]

(* claim_next_outbox in one locked transaction ...                          *)
Claim(r) ==
  /\ RowLocks
  /\ Goto(r, "claim", "apply")
  /\ \E e \in Events :
        /\ Oldest(e)
        /\ status' = [status EXCEPT ![e] = "processing"]
        /\ attempts' = [attempts EXCEPT ![e] = @ + 1]
        /\ job' = [job EXCEPT ![r] = e]
        /\ Counted(e)
  /\ UNCHANGED <<delayed, born, stateStatus, store, session, outcome, crashes>>

(* ... or, without row locks, a read and later a write of what was read.    *)
ReadOldest(r) ==
  /\ ~RowLocks
  /\ Goto(r, "claim", "write_claim")
  /\ \E e \in Events : /\ Oldest(e)
                       /\ job' = [job EXCEPT ![r] = e]
                       /\ Read(r, status[e], attempts[e])
  /\ UNCHANGED <<events, stateStatus, store, outcome, claims, crashes>>

WriteClaim(r) ==
  /\ Goto(r, "write_claim", "apply")
  /\ status' = [status EXCEPT ![job[r]] = "processing"]
  /\ attempts' = [attempts EXCEPT ![job[r]] = seen[r] + 1]
  /\ Counted(job[r])
  /\ Close(r)
  /\ UNCHANGED <<delayed, born, stateStatus, store, job, outcome, crashes>>

(* Nothing to claim: the request goes on, the worker sleeps and polls.      *)
NothingDue(f) ==
  /\ f \in FastPaths
  /\ Goto(f, "claim", "idle")
  /\ \A e \in Events : ~Claimable(e)
  /\ UNCHANGED <<events, stateStatus, store, locals, claims, crashes>>

(* Mutant of RecordIfAbsent: the marker is not looked at.                   *)
RecordAlways(e) ==
  /\ marker' = marker \cup {e}
  /\ additions' = [additions EXCEPT ![e] = @ + 1]

(* record_if_absent: SET NX of the marker and the additions to both         *)
(* histories, in one Lua script.                                            *)
RecordIfAbsent(e) ==
  /\ marker' = marker \cup {e}
  /\ additions' = IF e \in marker THEN additions ELSE [additions EXCEPT ![e] = @ + 1]

Apply(r) ==
  /\ Goto(r, "apply", "mark")
  /\ RecordIfAbsent(job[r])
  /\ outcome' = [outcome EXCEPT
                   ![r] = IF job[r] \in marker THEN "already_applied" ELSE "applied"]
  /\ UNCHANGED <<events, stateStatus, job, session, claims, crashes>>

(* Mutants of Except: the failure is recorded as success, or not at all.    *)
ExceptApplied(r, from) ==
  /\ Goto(r, from, "mark")
  /\ outcome' = [outcome EXCEPT ![r] = "applied"]
  /\ Close(r)

ExceptUnmarked(r, from) ==
  /\ Goto(r, from, "defer")
  /\ outcome' = [outcome EXCEPT ![r] = "retrying"]
  /\ Close(r)

(* The except branch starts with mark_state_status("retrying").             *)
Except(r, from) ==
  /\ Goto(r, from, "mark")
  /\ outcome' = [outcome EXCEPT ![r] = "retrying"]
  /\ Close(r)

(* The store is unreachable, or did the work and the reply is lost.         *)
ApplyFails(r) ==
  /\ StoreFaults
  /\ Except(r, "apply")
  /\ RecordIfAbsent(job[r]) \/ UNCHANGED store
  /\ UNCHANGED <<events, stateStatus, job, claims, crashes>>

(* mark_state_status reads the decision ...                                 *)
LoadDecision(r) ==
  /\ Goto(r, "mark", "write_mark")
  /\ Read(r, stateStatus[job[r]], 0)
  /\ UNCHANGED <<events, stateStatus, store, job, outcome, claims, crashes>>

(* The ORM writes a column only when the value assigned to it is not the    *)
(* one that the session has read.                                           *)
Assigned(old, read, new) == IF read = new THEN old ELSE new

MarkState(r) ==
  stateStatus' = [stateStatus EXCEPT ![job[r]] = Assigned(@, loaded[r], outcome[r])]

(* ... and writes its state_update_status.                                  *)
Mark(r) ==
  /\ Goto(r, "write_mark", IF outcome[r] = "retrying" THEN "defer" ELSE "complete")
  /\ MarkState(r)
  /\ Close(r)
  /\ UNCHANGED <<events, store, job, outcome, claims, crashes>>

(* complete_outbox reads the event ...                                      *)
LoadToComplete(r) ==
  /\ Goto(r, "complete", "write_complete")
  /\ Read(r, status[job[r]], 0)
  /\ UNCHANGED <<events, stateStatus, store, job, outcome, claims, crashes>>

SetStatus(r, s) == status' = [status EXCEPT ![job[r]] = Assigned(@, loaded[r], s)]

(* ... and writes it.                                                       *)
Complete(r) ==
  /\ Return(r, "write_complete")
  /\ SetStatus(r, "processed")
  /\ UNCHANGED <<attempts, delayed, born, stateStatus, store, claims, crashes>>

(* A repository call in the try block fails, before or after its commit.    *)
MarkFails(r) ==
  /\ DbFaults
  /\ outcome[r] # "retrying"
  /\ \/ Except(r, "mark") /\ UNCHANGED stateStatus
     \/ Except(r, "write_mark") /\ (MarkState(r) \/ UNCHANGED stateStatus)
  /\ UNCHANGED <<events, store, job, claims, crashes>>

CompleteFails(r) ==
  /\ DbFaults
  /\ \/ Except(r, "complete") /\ UNCHANGED status
     \/ Except(r, "write_complete") /\ (SetStatus(r, "processed") \/ UNCHANGED status)
  /\ UNCHANGED <<attempts, delayed, born, stateStatus, store, job, claims, crashes>>

(* defer_outbox reads the event ...                                         *)
LoadToDefer(r) ==
  /\ Goto(r, "defer", "write_defer")
  /\ Read(r, status[job[r]], attempts[job[r]])
  /\ UNCHANGED <<events, stateStatus, store, job, outcome, claims, crashes>>

(* Mutants of Defer: one attempt too many; the event stays in work.         *)
DeferLate(r) ==
  /\ Return(r, "write_defer")
  /\ IF seen[r] > MaxAttempts
     THEN SetStatus(r, "dead_letter") /\ UNCHANGED delayed
     ELSE SetStatus(r, "pending") /\ delayed' = delayed \cup {job[r]}
  /\ UNCHANGED <<attempts, born, stateStatus, store, claims, crashes>>

DeferInWork(r) ==
  /\ Return(r, "write_defer")
  /\ IF seen[r] >= MaxAttempts
     THEN SetStatus(r, "dead_letter") /\ UNCHANGED delayed
     ELSE UNCHANGED status /\ delayed' = delayed \cup {job[r]}
  /\ UNCHANGED <<attempts, born, stateStatus, store, claims, crashes>>

(* ... and writes it, whatever the status is that it overwrites.  The       *)
(* back-off of 2, 4, ... seconds is some delay.                             *)
Defer(r) ==
  /\ Return(r, "write_defer")
  /\ IF seen[r] >= MaxAttempts
     THEN SetStatus(r, "dead_letter") /\ UNCHANGED delayed
     ELSE SetStatus(r, "pending") /\ delayed' = delayed \cup {job[r]}
  /\ UNCHANGED <<attempts, born, stateStatus, store, claims, crashes>>

Stop(r) == /\ pc' = [pc EXCEPT ![r] = IF r \in Workers THEN "dead" ELSE "idle"]
           /\ Forget(r)
           /\ UNCHANGED <<events, stateStatus, store, claims>>

(* The process dies between two calls.                                      *)
Crash(r) ==
  /\ crashes < MaxCrashes
  /\ pc[r] \notin {"idle", "dead"}
  /\ Stop(r)
  /\ crashes' = crashes + 1

(* A repository call outside the try block raises, at "apply" the claim     *)
(* whose commit succeeded: the request is answered 500; the worker's loop   *)
(* has no handler and ends.                                                 *)
Unhandled(r) ==
  /\ DbFaults
  /\ \/ pc[r] \in {"claim", "write_claim", "apply", "defer", "write_defer"}
     \/ pc[r] \in {"mark", "write_mark"} /\ outcome[r] = "retrying"
  /\ Stop(r)
  /\ UNCHANGED crashes

(* An operator starts the worker again.                                     *)
Restart(w) ==
  /\ Goto(w, "dead", "claim")
  /\ UNCHANGED <<events, stateStatus, store, locals, claims, crashes>>

(* available_at passes.                                                     *)
BackoffElapses(e) ==
  /\ e \in delayed
  /\ delayed' = delayed \ {e}
  /\ UNCHANGED <<status, attempts, born, stateStatus, store, pc, locals, claims, crashes>>
-----------------------------------------------------------------------------
ProcessOutbox(r) ==
  \/ Claim(r) \/ ReadOldest(r) \/ WriteClaim(r) \/ NothingDue(r)
  \/ Apply(r) \/ ApplyFails(r)
  \/ LoadDecision(r) \/ Mark(r) \/ MarkFails(r)
  \/ LoadToComplete(r) \/ Complete(r) \/ CompleteFails(r)
  \/ LoadToDefer(r) \/ Defer(r)

Next ==
  /\ \/ \E f \in FastPaths, e \in Events : Persist(f, e)
     \/ \E r \in Runners : ProcessOutbox(r) \/ Crash(r) \/ Unhandled(r)
     \/ \E w \in Workers : Restart(w)
     \/ \E e \in Events : BackoffElapses(e)
  /\ UNCHANGED database

Spec == Init /\ [][Next]_vars

(* Runners are scheduled and time passes; a dead worker is started again.   *)
FairSpec ==
  /\ Spec
  /\ \A r \in Runners : WF_vars(ProcessOutbox(r) /\ UNCHANGED database)
  /\ \A w \in Workers : WF_vars(Restart(w) /\ UNCHANGED database)
  /\ \A e \in Events : WF_vars(BackoffElapses(e) /\ UNCHANGED database)
-----------------------------------------------------------------------------
Statuses == {"unwritten", "pending", "processing", "processed", "dead_letter"}
StateStatuses == {"pending", "applied", "already_applied", "retrying"}
Working == {"write_claim", "apply", "mark", "write_mark", "complete", "write_complete",
            "defer", "write_defer"}

(* Every row, marker and runner has the shape the code gives it.            *)
TypeOK ==
  /\ database \in Databases
  /\ status \in [Events -> Statuses]
  /\ attempts \in [Events -> Nat] /\ delayed \subseteq Events /\ born \in [Events -> Nat]
  /\ stateStatus \in [Events -> StateStatuses]
  /\ additions \in [Events -> Nat] /\ marker \subseteq Events
  /\ pc \in [Runners -> Working \cup {"idle", "claim", "dead"}]
  /\ job \in [Runners -> Events \cup {NoEvent}]
  /\ \A r \in Runners : pc[r] \in Working <=> job[r] # NoEvent
  /\ loaded \in [Runners -> Statuses \cup StateStatuses \cup {"none"}]
  /\ seen \in [Runners -> Nat]
  /\ outcome \in [Runners -> {"none", "applied", "already_applied", "retrying"}]
  /\ \A r \in Runners :
       /\ pc[r] \in {"mark", "write_mark"} => outcome[r] # "none"
       /\ pc[r] \in {"write_claim", "apply"} \/ pc[r] \notin Working => outcome[r] = "none"
       /\ pc[r] \in {"complete", "write_complete"} => outcome[r] \notin {"none", "retrying"}
  /\ claims \in [Events -> Nat]
  /\ crashes \in 0..MaxCrashes

(* The velocity history counts a decision at most once, whatever replies     *)
(* are lost, whoever claims the event twice and however often it is retried. *)
AppliedAtMostOnce == \A e \in Events : additions[e] <= 1

(* Nothing says the online state was updated when it was not: neither the    *)
(* event's "processed" nor the decision's state_update_status.               *)
NothingReportedUnapplied ==
  \A e \in Events :
    \/ status[e] = "processed"
    \/ stateStatus[e] \in {"applied", "already_applied"}
    => additions[e] = 1

(* With row locks the worker and the requests never work on one event        *)
(* together, and the event they work on is "processing" to everybody else.   *)
OneRunnerPerEvent ==
  \A r, s \in Runners :
    job[r] # NoEvent =>
      /\ r # s => job[r] # job[s]
      /\ outcome[r] # "retrying" => status[job[r]] = "processing"

(* With row locks an event is given up only after max_attempts claims were    *)
(* really made, and none is made beyond them, also where a claim or a         *)
(* completion was committed and its answer lost, or its runner died.          *)
RetriesExhausted ==
  \A e \in Events : /\ claims[e] <= MaxAttempts
                    /\ status[e] = "dead_letter" => claims[e] = MaxAttempts

Unattended(e) == \A r \in Runners : job[r] # e

(* With row locks, what the decision shows agrees with the verdict on its    *)
(* event: applied for a processed one, retrying for a dead letter.           *)
DecisionShowsVerdict ==
  \A e \in Events : RowLocks /\ Unattended(e) =>
    /\ status[e] = "processed" => stateStatus[e] \in {"applied", "already_applied"}
    /\ status[e] = "dead_letter" => stateStatus[e] = "retrying"

(* An event is left "processing" without a runner only by a death or an       *)
(* unhandled exception: else somebody still has to complete or defer it, also *)
(* where two runners claimed it and one of them has long finished.            *)
StrandedByFailureOnly ==
  \A e \in Events : status[e] = "processing" /\ Unattended(e) => crashes > 0 \/ DbFaults

(* Every written event is eventually processed or given up for good: also     *)
(* without row locks, where stale claims and deferrals bring a settled event  *)
(* back, they do so only so often.                                            *)
EventsSettle ==
  \A e \in Events : status[e] = "pending" ~> [](status[e] \in {"processed", "dead_letter"})

(* docs/ADR/0003-transactional-outbox.md:11: "A durable score must not        *)
(* silently lose its velocity-state update after a Redis or process failure." *)
NoUpdateLost ==
  \A e \in Events : status[e] = "pending" ~> additions[e] = 1 \/ status[e] = "dead_letter"
-----------------------------------------------------------------------------
Verdict == [e \in Events |->
              CASE status[e] = "unwritten" -> "none"
                [] status[e] = "processed" /\ Unattended(e) -> "delivered"
                [] status[e] = "dead_letter" /\ Unattended(e) -> "abandoned"
                [] OTHER -> "open"]

Delivery == INSTANCE StateDelivery WITH effect <- {e \in Events : additions[e] > 0},
                                        verdict <- Verdict

(* The outbox with row locks delivers each update at most once and never      *)
(* takes a verdict back.                                                      *)
DeliverySpec == Delivery!Spec
=============================================================================
