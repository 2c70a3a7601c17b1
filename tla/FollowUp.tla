------------------------------- MODULE FollowUp -------------------------------
(***************************************************************************)
(* What analysts record about a decision: DecisionRepository               *)
(* .record_review_action on its case and .record_outcome of what it turned  *)
(* out to be, run by concurrent requests.                                   *)
(*                                                                          *)
(* Every query and every commit is a step.  The ORM compares an assigned    *)
(* attribute with the value it loaded and writes the column only if they    *)
(* differ: CommitAction.  A case is named by its decision.                  *)
(***************************************************************************)
EXTENDS Naturals, FiniteSets

CONSTANTS Requests,
          Decisions, \* decisions of the caller's organization
          Cases,     \* those that were REVIEW or BLOCK
          Strangers, \* ids that no row of the organization has
          Faults     \* whether a database call may fail

ASSUME CasesAssumption == Cases \subseteq Decisions /\ Decisions \cap Strangers = {}
ASSUME FaultsAssumption == Faults \in BOOLEAN

VARIABLES pc,
          target,     \* case_id or transaction_id of the request
          asks,       \* the action, "close" or "keep", or the outcome reported
          seen,       \* RiskCase.status or confirmed_fraud as the session loaded it
          answer,     \* HTTP status and the case status or confirmed_fraud shown
          status,     \* RiskCase.status
          closedAt,   \* cases with a RiskCase.closed_at
          trail,      \* requests with a ReviewAction, CaseEvent and audit row
          confirmed,  \* TransactionDecision.confirmed_fraud
          outcome,    \* Outcome.confirmed_fraud, or "none": no row
          last,       \* history: the action committed last on each case
          read,       \* history: the trail when the request loaded the case
          contended   \* history: cases with an action committed on a stale load

case == <<status, closedAt, trail, last, contended>>
labels == <<confirmed, outcome>>
vars == <<pc, target, asks, seen, answer, case, labels, read>>

Actions == {"close", "keep"}
Labels == {"fraud", "genuine"}
Silent == [code |-> 0, shows |-> "none"]

(* Mutant of StatusAfter: a held case gets a status of its own.             *)
StatusHeld(action) == IF action = "close" THEN "closed" ELSE "held"

(* approve, decline_recommendation and duplicate close a case; escalate,    *)
(* request_information and temporarily_hold do not.                         *)
StatusAfter(action) == IF action = "close" THEN "closed" ELSE "open"

Init ==
  /\ pc = [p \in Requests |-> "idle"]
  /\ target \in [Requests -> Decisions \cup Strangers]
  /\ asks \in [Requests -> Actions \cup Labels]
  /\ seen = [p \in Requests |-> "none"]
  /\ answer = [p \in Requests |-> Silent]
  /\ status = [d \in Cases |-> "open"]
  /\ closedAt = {}
  /\ trail = {}
  /\ confirmed = [d \in Decisions |-> "none"]
  /\ outcome = [d \in Decisions |-> "none"]
  /\ last = [d \in Cases |-> "keep"]
  /\ read = [p \in Requests |-> {}]
  /\ contended = {}

Goto(p, from, to) == pc[p] = from /\ pc' = [pc EXCEPT ![p] = to]
Respond(p, from, code, shows) ==
  /\ Goto(p, from, "done")
  /\ answer' = [answer EXCEPT ![p] = [code |-> code, shows |-> shows]]
Load(p, value) == seen' = [seen EXCEPT ![p] = value]

(* The actions recorded on case d.                                           *)
TrailOf(d) == {p \in trail : target[p] = d}
-----------------------------------------------------------------------------
(* The endpoint calls the repository.                                       *)
Start(p) ==
  /\ Goto(p, "idle", IF asks[p] \in Actions THEN "loadCase" ELSE "loadDecision")
  /\ UNCHANGED <<target, asks, seen, answer, case, labels, read>>

NotFound(p) ==
  /\ \/ pc[p] = "loadCase" /\ target[p] \notin Cases
     \/ pc[p] = "loadDecision" /\ target[p] \notin Decisions
  /\ Respond(p, pc[p], 404, "none")
  /\ UNCHANGED <<target, asks, seen, case, labels, read>>

LoadCase(p) ==
  /\ target[p] \in Cases
  /\ Goto(p, "loadCase", "commitAction")
  /\ Load(p, status[target[p]])
  /\ read' = [read EXCEPT ![p] = TrailOf(target[p])]
  /\ UNCHANGED <<target, asks, answer, case, labels>>

(* Mutants of CommitAction: a closed case is not reopened; the trail has a  *)
(* commit of its own, which may fail.                                       *)
CommitClosing(p) ==
  LET d == target[p]
      closes == StatusAfter(asks[p]) = "closed"
  IN /\ Goto(p, "commitAction", "detail")
     /\ status' = IF closes THEN [status EXCEPT ![d] = "closed"] ELSE status
     /\ closedAt' = IF closes THEN closedAt \cup {d} ELSE closedAt
     /\ trail' = trail \cup {p}
     /\ last' = [last EXCEPT ![d] = asks[p]]
     /\ contended' = IF read[p] # TrailOf(d) THEN contended \cup {d} ELSE contended
     /\ UNCHANGED <<target, asks, seen, answer, labels, read>>

CommitCaseOnly(p) ==
  LET d == target[p]
      new == StatusAfter(asks[p])
  IN /\ Goto(p, "commitAction", "detail")
     /\ status' = IF new # seen[p] THEN [status EXCEPT ![d] = new] ELSE status
     /\ closedAt' = IF new = "closed" THEN closedAt \cup {d} ELSE closedAt
     /\ last' = [last EXCEPT ![d] = asks[p]]
     /\ UNCHANGED <<target, asks, seen, answer, trail, contended, labels, read>>

(* One commit writes the changed columns of the case and inserts the        *)
(* review action, the case event and the audit event.                       *)
CommitAction(p) ==
  LET d == target[p]
      new == StatusAfter(asks[p])
  IN /\ Goto(p, "commitAction", "detail")
     /\ status' = IF new # seen[p] THEN [status EXCEPT ![d] = new] ELSE status
     /\ closedAt' = IF new = "closed" THEN closedAt \cup {d} ELSE closedAt
     /\ trail' = trail \cup {p}
     /\ last' = [last EXCEPT ![d] = asks[p]]
     /\ contended' = IF read[p] # TrailOf(d) THEN contended \cup {d} ELSE contended
     /\ UNCHANGED <<target, asks, seen, answer, labels, read>>

(* case_detail in a session of its own.                                     *)
CaseDetail(p) ==
  /\ Respond(p, "detail", 200, status[target[p]])
  /\ UNCHANGED <<target, asks, seen, case, labels, read>>
-----------------------------------------------------------------------------
LoadDecision(p) ==
  /\ target[p] \in Decisions
  /\ Goto(p, "loadDecision", "findOutcome")
  /\ Load(p, confirmed[target[p]])
  /\ UNCHANGED <<target, asks, answer, case, labels, read>>

NoOutcome(p) ==
  /\ Goto(p, "findOutcome", "commitOutcome")
  /\ outcome[target[p]] = "none"
  /\ UNCHANGED <<target, asks, seen, answer, case, labels, read>>

OutcomeDiffers(p) ==
  /\ Respond(p, "findOutcome", 409, "none")
  /\ outcome[target[p]] \notin {"none", asks[p]}
  /\ UNCHANGED <<target, asks, seen, case, labels, read>>

(* Mutant of OutcomeKnown: any recorded outcome will do.                    *)
OutcomeExists(p) ==
  /\ Respond(p, "findOutcome", 200, seen[p])
  /\ outcome[target[p]] # "none"
  /\ UNCHANGED <<target, asks, seen, case, labels, read>>

(* The decision is shown as it was loaded before the outcome was found.     *)
OutcomeKnown(p) ==
  /\ Respond(p, "findOutcome", 200, seen[p])
  /\ outcome[target[p]] = asks[p]
  /\ UNCHANGED <<target, asks, seen, case, labels, read>>

(* Mutant of CommitOutcome: no unique constraint on the outcomes.            *)
CommitOverwriting(p) ==
  /\ Goto(p, "commitOutcome", "refresh")
  /\ outcome' = [outcome EXCEPT ![target[p]] = asks[p]]
  /\ confirmed' = IF seen[p] # asks[p] THEN [confirmed EXCEPT ![target[p]] = asks[p]]
                  ELSE confirmed
  /\ UNCHANGED <<target, asks, seen, answer, case, read>>

(* The update of the decision and the insert of the outcome commit          *)
(* together; the label differs from the one loaded, so it is written.       *)
CommitOutcome(p) ==
  /\ Goto(p, "commitOutcome", "refresh")
  /\ outcome[target[p]] = "none"
  /\ outcome' = [outcome EXCEPT ![target[p]] = asks[p]]
  /\ confirmed' = IF seen[p] # asks[p] THEN [confirmed EXCEPT ![target[p]] = asks[p]]
                  ELSE confirmed
  /\ UNCHANGED <<target, asks, seen, answer, case, read>>

(* Mutant of OutcomeTaken: the label was committed before the outcome.       *)
OutcomeTakenLate(p) ==
  /\ Respond(p, "commitOutcome", 500, "none")
  /\ outcome[target[p]] # "none"
  /\ confirmed' = [confirmed EXCEPT ![target[p]] = asks[p]]
  /\ UNCHANGED <<target, asks, seen, case, outcome, read>>

(* uq_outcome_transaction: another report was faster; all is rolled back.   *)
OutcomeTaken(p) ==
  /\ Respond(p, "commitOutcome", 500, "none")
  /\ outcome[target[p]] # "none"
  /\ UNCHANGED <<target, asks, seen, case, labels, read>>

Refresh(p) ==
  /\ Respond(p, "refresh", 200, confirmed[target[p]])
  /\ UNCHANGED <<target, asks, seen, case, labels, read>>

(* A database call fails, or its answer is lost after it took effect: 500.  *)
DependencyFails(p) ==
  /\ Faults
  /\ pc[p] \notin {"idle", "done"}
  /\ Respond(p, pc[p], 500, "none")
  /\ UNCHANGED <<target, asks, seen, case, labels, read>>
-----------------------------------------------------------------------------
Handle(p) ==
  \/ Start(p) \/ NotFound(p)
  \/ LoadCase(p) \/ CommitAction(p) \/ CaseDetail(p)
  \/ LoadDecision(p) \/ NoOutcome(p) \/ OutcomeDiffers(p) \/ OutcomeKnown(p)
  \/ CommitOutcome(p) \/ OutcomeTaken(p) \/ Refresh(p)

Next == \E p \in Requests : Handle(p) \/ DependencyFails(p)

Spec == Init /\ [][Next]_vars
-----------------------------------------------------------------------------
Loaded == {"none", "open", "closed"} \cup Labels

(* Every row and request has the shape the code gives it.                   *)
TypeOK ==
  /\ pc \in [Requests -> {"idle", "loadCase", "commitAction", "detail", "loadDecision",
                          "findOutcome", "commitOutcome", "refresh", "done"}]
  /\ target \in [Requests -> Decisions \cup Strangers]
  /\ asks \in [Requests -> Actions \cup Labels]
  /\ seen \in [Requests -> Loaded]
  /\ answer \in [Requests -> [code: {0, 200, 404, 409, 500}, shows: Loaded]]
  /\ status \in [Cases -> {"open", "closed"}]
  /\ closedAt \subseteq Cases /\ contended \subseteq Cases
  /\ trail \subseteq Requests
  /\ confirmed \in [Decisions -> {"none"} \cup Labels]
  /\ outcome \in [Decisions -> {"none"} \cup Labels]
  /\ last \in [Cases -> Actions]
  /\ read \in [Requests -> SUBSET Requests]

(* The label on a decision, which the dashboards and the next training read,  *)
(* is that of its outcome row, whatever reports raced or failed.              *)
LabelIsOutcome == confirmed = outcome

(* Everybody who is told 200 for a report on one transaction reported the     *)
(* same, and it is what is recorded.                                          *)
ReportersAgree ==
  \A p \in Requests :
    asks[p] \in Labels /\ answer[p].code = 200 => outcome[target[p]] = asks[p]

(* As long as no two actions on a case overlap, its status is that of the     *)
(* last action and a closed case has a closing time.                          *)
SerialActionsDecide ==
  \A d \in Cases \ contended : /\ status[d] = StatusAfter(last[d])
                               /\ status[d] = "closed" => d \in closedAt

(* Overlapping actions may settle the status wrongly, but a closed case       *)
(* always has a closing action in its trail and a closing time.               *)
ClosedForAReason ==
  \A d \in Cases : status[d] = "closed" =>
    d \in closedAt /\ \E p \in TrailOf(d) : asks[p] = "close"

(* docs/CASE_WORKFLOW.md:13: "Closing actions close the case; escalation/hold *)
(* keep it open."                                                             *)
LastActionDecides == \A d \in Cases : status[d] = StatusAfter(last[d])
-----------------------------------------------------------------------------
Told(code) ==
  CASE code = 200 -> "recorded" [] code = 409 -> "contradicted"
    [] code = 404 -> "unknown" [] code = 500 -> "failed" [] OTHER -> "none"

Record == INSTANCE ReviewRecord WITH
            verdict <- confirmed,
            closed <- {d \in Cases : status[d] = "closed"},
            told <- [p \in Requests |-> Told(answer[p].code)]

(* The label on a decision, written by two queries and a commit that race,    *)
(* is a verdict given once, and everybody is told the truth about it and      *)
(* about the actions on a case.                                               *)
RecordSpec == Record!Spec
=============================================================================
