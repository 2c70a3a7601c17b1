---------------------------- MODULE FollowUpProofs ----------------------------
(***************************************************************************)
(* Proofs about module FollowUp for any number of requests, decisions and   *)
(* cases, with and without faults.                                          *)
(***************************************************************************)
EXTENDS FollowUp, TLAPS

(* A request under way asks what its handler serves, of a row that exists.  *)
Handled ==
  \A p \in Requests :
    /\ pc[p] = "loadCase" => asks[p] \in Actions
    /\ pc[p] \in {"commitAction", "detail"} => asks[p] \in Actions /\ target[p] \in Cases
    /\ pc[p] = "loadDecision" => asks[p] \in Labels
    /\ pc[p] \in {"findOutcome", "commitOutcome", "refresh"} =>
         asks[p] \in Labels /\ target[p] \in Decisions

(* The label that a report loaded is the recorded one, or none was yet.     *)
LoadedLabels ==
  \A p \in Requests : pc[p] \in {"findOutcome", "commitOutcome"} =>
                        seen[p] \in {"none", outcome[target[p]]}

(* What a report was or will be answered 200 for is recorded.               *)
Reported ==
  \A p \in Requests :
    \/ pc[p] = "refresh"
    \/ asks[p] \in Labels /\ answer[p].code = 200
    => target[p] \in Decisions /\ outcome[target[p]] = asks[p]

(* A request is in the trail once it has committed, and the status it       *)
(* loaded is the current one unless the trail has grown since.              *)
Unread ==
  \A p \in Requests :
    /\ pc[p] \in {"idle", "loadCase", "commitAction"} => p \notin trail
    /\ pc[p] = "commitAction" =>
         /\ read[p] \subseteq TrailOf(target[p])
         /\ read[p] = TrailOf(target[p]) => seen[p] = status[target[p]]

(* Nobody is told anything before the request ends, and the case is shown    *)
(* after the action is in its trail.                                        *)
Underway ==
  \A p \in Requests : /\ pc[p] # "done" => answer[p] = Silent
                      /\ pc[p] = "detail" => p \in trail

IInv ==
  /\ TypeOK
  /\ Handled
  /\ Underway
  /\ LabelIsOutcome
  /\ LoadedLabels
  /\ Reported
  /\ ClosedForAReason
  /\ Unread
  /\ SerialActionsDecide
-----------------------------------------------------------------------------
LEMMA InitInvariant == Init => IInv
<1> SUFFICES ASSUME Init PROVE IInv
  OBVIOUS
<1> USE CasesAssumption DEF Init
<1>1. TypeOK
  BY DEF TypeOK, Loaded, Silent, Actions, Labels
<1>2. Handled /\ Underway /\ LabelIsOutcome /\ LoadedLabels /\ Reported
  BY DEF Handled, Underway, LabelIsOutcome, LoadedLabels, Reported, Silent
<1>3. ClosedForAReason /\ Unread /\ SerialActionsDecide
  BY DEF ClosedForAReason, Unread, SerialActionsDecide, StatusAfter
<1> QED
  BY <1>1, <1>2, <1>3 DEF IInv

(* A step of a request.                                                     *)
Step(p) == Handle(p) \/ DependencyFails(p)

(* The steps that change no row.                                            *)
Looks(p) ==
  \/ Start(p) \/ NotFound(p) \/ LoadCase(p) \/ CaseDetail(p)
  \/ LoadDecision(p) \/ NoOutcome(p) \/ OutcomeDiffers(p) \/ OutcomeKnown(p)
  \/ OutcomeTaken(p) \/ Refresh(p) \/ DependencyFails(p)

LEMMA StepKinds ==
  ASSUME NEW p \in Requests, Step(p)
  PROVE  \/ Looks(p) /\ UNCHANGED <<target, asks, case, labels>>
         \/ CommitAction(p) /\ UNCHANGED <<target, asks, labels>>
         \/ CommitOutcome(p) /\ UNCHANGED <<target, asks, case>>
BY DEF Step, Handle, Looks, Start, NotFound, LoadCase, CommitAction, CaseDetail, LoadDecision,
       NoOutcome, OutcomeDiffers, OutcomeKnown, CommitOutcome, OutcomeTaken, Refresh,
       DependencyFails, Goto

LEMMA TypeCorrect == ASSUME TypeOK, Handled, NEW p \in Requests, Step(p) PROVE TypeOK'
<1> USE CasesAssumption DEF TypeOK, Goto, Loaded, Labels, Actions, case, labels
<1>1. CASE Looks(p)
  <2>1. pc' \in [Requests -> {"idle", "loadCase", "commitAction", "detail", "loadDecision",
                              "findOutcome", "commitOutcome", "refresh", "done"}]
    <3>1. \E to \in {"loadCase", "commitAction", "detail", "loadDecision", "findOutcome",
                     "commitOutcome", "refresh", "done"} : pc' = [pc EXCEPT ![p] = to]
      BY <1>1 DEF Looks, Start, NotFound, LoadCase, CaseDetail, LoadDecision, NoOutcome,
                OutcomeDiffers, OutcomeKnown, OutcomeTaken, Refresh, DependencyFails, Respond
    <3> QED
      BY <3>1
  <2>2. answer' \in [Requests -> [code: {0, 200, 404, 409, 500}, shows: Loaded]]
    <3>1. UNCHANGED answer \/ \E code \in {200, 404, 409, 500} :
            \E shows \in Loaded : Respond(p, pc[p], code, shows)
      BY <1>1 DEF Looks, Start, NotFound, LoadCase, CaseDetail, LoadDecision, NoOutcome, Handled,
                OutcomeDiffers, OutcomeKnown, OutcomeTaken, Refresh, DependencyFails, Respond
    <3>2. CASE UNCHANGED answer
      BY <3>2
    <3>3. ASSUME NEW code \in {200, 404, 409, 500}, NEW shows \in Loaded,
                 Respond(p, pc[p], code, shows)
          PROVE  answer' \in [Requests -> [code: {0, 200, 404, 409, 500}, shows: Loaded]]
      <4>1. [code |-> code, shows |-> shows] \in [code: {0, 200, 404, 409, 500}, shows: Loaded]
        OBVIOUS
      <4>2. answer' = [answer EXCEPT ![p] = [code |-> code, shows |-> shows]]
        BY <3>3 DEF Respond
      <4> HIDE DEF Loaded
      <4> QED
        BY <4>1, <4>2
    <3> QED
      BY <3>1, <3>2, <3>3
  <2>3. seen' \in [Requests -> Loaded]
    BY <1>1, SMTT(30) DEF Looks, Start, NotFound, LoadCase, CaseDetail, LoadDecision, NoOutcome, Load,
                OutcomeDiffers, OutcomeKnown, OutcomeTaken, Refresh, DependencyFails
  <2>4. read' \in [Requests -> SUBSET Requests]
    <3>1. UNCHANGED read \/ read' = [read EXCEPT ![p] = TrailOf(target[p])]
      BY <1>1 DEF Looks, Start, NotFound, LoadCase, CaseDetail, LoadDecision, NoOutcome,
                OutcomeDiffers, OutcomeKnown, OutcomeTaken, Refresh, DependencyFails
    <3>2. TrailOf(target[p]) \in SUBSET Requests
      BY DEF TrailOf
    <3> QED
      BY <3>1, <3>2, SMTT(30)
  <2>5. UNCHANGED <<target, asks, case, labels>>
    BY <1>1 DEF Looks, Start, NotFound, LoadCase, CaseDetail, LoadDecision, NoOutcome,
                OutcomeDiffers, OutcomeKnown, OutcomeTaken, Refresh, DependencyFails
  <2> QED
    BY <2>1, <2>2, <2>3, <2>4, <2>5
<1>2. CASE CommitAction(p)
  <2>1. target[p] \in Cases /\ asks[p] \in Actions
    BY <1>2 DEF CommitAction, Handled
  <2>2. status' \in [Cases -> {"open", "closed"}] /\ last' \in [Cases -> Actions]
    BY <1>2, <2>1 DEF CommitAction, StatusAfter
  <2>3. /\ closedAt' \subseteq Cases
        /\ contended' \subseteq Cases
        /\ trail' \subseteq Requests
    BY <1>2, <2>1 DEF CommitAction
  <2>4. pc' \in [Requests -> {"idle", "loadCase", "commitAction", "detail", "loadDecision",
                              "findOutcome", "commitOutcome", "refresh", "done"}]
    BY <1>2 DEF CommitAction
  <2>5. UNCHANGED <<target, asks, seen, answer, labels, read>>
    BY <1>2 DEF CommitAction
  <2> QED
    BY <2>2, <2>3, <2>4, <2>5
<1>3. CASE CommitOutcome(p)
  BY <1>3 DEF CommitOutcome, Handled
<1> QED
  BY <1>1, <1>2, <1>3, StepKinds
-----------------------------------------------------------------------------
LEMMA StepHandled == ASSUME IInv, NEW p \in Requests, Step(p) PROVE Handled'
<1> USE DEF IInv, TypeOK, Handled, Goto, Respond, case, labels
<1>1. UNCHANGED <<target, asks>> /\ \A q \in Requests \ {p} : pc'[q] = pc[q]
  BY DEF Step, Handle, Start, NotFound, LoadCase, CommitAction, CaseDetail, LoadDecision,
         NoOutcome, OutcomeDiffers, OutcomeKnown, CommitOutcome, OutcomeTaken, Refresh,
         DependencyFails
<1>2. CASE Start(p)
  BY <1>1, <1>2 DEF Start, Actions, Labels
<1>3. CASE ~Start(p)
  BY <1>1, <1>3
     DEF Step, Handle, NotFound, LoadCase, CommitAction, CaseDetail, LoadDecision, NoOutcome,
         OutcomeDiffers, OutcomeKnown, CommitOutcome, OutcomeTaken, Refresh, DependencyFails
<1> QED
  BY <1>2, <1>3

LEMMA StepUnderway == ASSUME IInv, NEW p \in Requests, Step(p) PROVE Underway'
<1> USE DEF IInv, TypeOK, Underway, Goto, Respond, case
<1>1. CASE Looks(p)
  BY <1>1 DEF Looks, Start, NotFound, LoadCase, CaseDetail, LoadDecision, NoOutcome,
              OutcomeDiffers, OutcomeKnown, OutcomeTaken, Refresh, DependencyFails
<1>2. CASE CommitAction(p)
  BY <1>2 DEF CommitAction
<1>3. CASE CommitOutcome(p)
  BY <1>3 DEF CommitOutcome
<1> QED
  BY <1>1, <1>2, <1>3, StepKinds

LEMMA StepLabels ==
  ASSUME IInv, NEW p \in Requests, Step(p) PROVE LabelIsOutcome' /\ LoadedLabels'
<1> USE DEF IInv, TypeOK, LabelIsOutcome, LoadedLabels, Handled, Goto, Respond, Load, Labels,
            case, labels
<1>1. CASE Looks(p)
  BY <1>1 DEF Looks, Start, NotFound, LoadCase, CaseDetail, LoadDecision, NoOutcome,
              OutcomeDiffers, OutcomeKnown, OutcomeTaken, Refresh, DependencyFails
<1>2. CASE CommitAction(p)
  BY <1>2 DEF CommitAction
<1>3. CASE CommitOutcome(p)
  <2>1. /\ target[p] \in Decisions /\ asks[p] # "none" /\ seen[p] = "none"
        /\ outcome' = [outcome EXCEPT ![target[p]] = asks[p]]
    BY <1>3 DEF CommitOutcome
  <2>2. LabelIsOutcome'
    BY <1>3, <2>1 DEF CommitOutcome
  <2>3. LoadedLabels'
    BY <1>3, <2>1 DEF CommitOutcome
  <2> QED
    BY <2>2, <2>3
<1> QED
  BY <1>1, <1>2, <1>3, StepKinds

LEMMA StepReported == ASSUME IInv, NEW p \in Requests, Step(p) PROVE Reported'
<1> USE DEF IInv, TypeOK, Reported, Handled, Goto, Respond, Labels, Actions, case, labels
<1>1. CASE Looks(p)
  BY <1>1 DEF Looks, Start, NotFound, LoadCase, CaseDetail, LoadDecision, NoOutcome,
              OutcomeDiffers, OutcomeKnown, OutcomeTaken, Refresh, DependencyFails
<1>2. CASE CommitAction(p)
  BY <1>2 DEF CommitAction
<1>3. CASE CommitOutcome(p)
  BY <1>3 DEF CommitOutcome
<1> QED
  BY <1>1, <1>2, <1>3, StepKinds
-----------------------------------------------------------------------------
LEMMA StepClosed == ASSUME IInv, NEW p \in Requests, Step(p) PROVE ClosedForAReason'
<1> USE DEF IInv, TypeOK, ClosedForAReason, TrailOf, case
<1>1. CASE CommitAction(p)
  <2>1. UNCHANGED <<target, asks>> /\ trail' = trail \cup {p} /\ closedAt \subseteq closedAt'
    BY <1>1 DEF CommitAction
  <2> SUFFICES ASSUME NEW d \in Cases, status'[d] = "closed"
               PROVE  d \in closedAt' /\ \E q \in trail' : target[q] = d /\ asks[q] = "close"
    BY <2>1
  <2>2. CASE status[d] = "closed"
    BY <2>1, <2>2
  <2>3. CASE status[d] # "closed"
    BY <1>1, <2>1, <2>3 DEF CommitAction, StatusAfter
  <2> QED
    BY <2>2, <2>3
<1>2. CASE UNCHANGED <<target, asks, case>>
  BY <1>2
<1> QED
  BY <1>1, <1>2, StepKinds

LEMMA StepUnread == ASSUME IInv, NEW p \in Requests, Step(p) PROVE Unread'
<1> USE DEF IInv, TypeOK, Handled, Unread, TrailOf, Goto, Respond, Load, case, labels
<1>1. CASE Looks(p)
  BY <1>1 DEF Looks, Start, NotFound, LoadCase, CaseDetail, LoadDecision, NoOutcome,
              OutcomeDiffers, OutcomeKnown, OutcomeTaken, Refresh, DependencyFails
<1>2. CASE CommitAction(p)
  <2>1. target[p] \in Cases /\ p \notin trail
    BY <1>2 DEF CommitAction
  <2>2. /\ UNCHANGED <<target, read, seen>> /\ trail' = trail \cup {p}
        /\ pc' = [pc EXCEPT ![p] = "detail"]
        /\ \A d \in Cases \ {target[p]} : status'[d] = status[d]
    BY <1>2 DEF CommitAction
  <2> QED
    BY <2>1, <2>2
<1>3. CASE CommitOutcome(p)
  BY <1>3 DEF CommitOutcome
<1> QED
  BY <1>1, <1>2, <1>3, StepKinds

LEMMA StepSerial == ASSUME IInv, NEW p \in Requests, Step(p) PROVE SerialActionsDecide'
<1> USE DEF IInv, TypeOK, SerialActionsDecide, case
<1>1. CASE CommitAction(p)
  <2>1. target[p] \in Cases /\ asks[p] \in Actions
    BY <1>1 DEF CommitAction, Handled, Goto
  <2>2. CASE read[p] = TrailOf(target[p])
    <3>1. seen[p] = status[target[p]]
      BY <1>1, <2>2 DEF CommitAction, Unread, Goto
    <3> QED
      BY <1>1, <2>1, <2>2, <3>1 DEF CommitAction, StatusAfter
  <2>3. CASE read[p] # TrailOf(target[p])
    BY <1>1, <2>1, <2>3 DEF CommitAction
  <2> QED
    BY <2>2, <2>3
<1>2. CASE UNCHANGED <<target, asks, case>>
  BY <1>2
<1> QED
  BY <1>1, <1>2, StepKinds
-----------------------------------------------------------------------------
(* Every reachable state satisfies the inductive invariant.                 *)
THEOREM Invariant == Spec => []IInv
<1>1. IInv /\ [Next]_vars => IInv'
  <2>1. ASSUME IInv, Next PROVE IInv'
    <3> PICK p \in Requests : Step(p)
      BY <2>1 DEF Next, Step
    <3>1. TypeOK'
      BY <2>1, TypeCorrect DEF IInv
    <3> QED
      BY <2>1, <3>1, StepHandled, StepUnderway, StepLabels, StepReported,
         StepClosed, StepUnread, StepSerial
         DEF IInv
  <2>2. ASSUME IInv, UNCHANGED vars PROVE IInv'
    BY <2>2
       DEF IInv, TypeOK, Handled, Underway, LabelIsOutcome, LoadedLabels, Reported,
           ClosedForAReason, Unread, SerialActionsDecide, TrailOf, vars, case, labels
  <2> QED
    BY <2>1, <2>2
<1> QED
  BY <1>1, InitInvariant, PTL DEF Spec

(* Rows and requests always have the shapes the code gives them.            *)
THEOREM TypeCorrectness == Spec => []TypeOK
BY Invariant, PTL DEF IInv

(* record_outcome keeps TransactionDecision.confirmed_fraud and the Outcome  *)
(* row equal, whatever reports race or fail.                                *)
THEOREM LabelsMatchOutcomes == Spec => []LabelIsOutcome
BY Invariant, PTL DEF IInv

(* All reports of one transaction that are answered 200 agree.              *)
THEOREM AgreeingReports == Spec => []ReportersAgree
<1>1. IInv => ReportersAgree
  BY DEF IInv, Reported, ReportersAgree
<1> QED
  BY <1>1, Invariant, PTL

(* record_review_action: a closed case has a closing time and action, even  *)
(* if actions overlapped.                                                   *)
THEOREM CasesClosedForAReason == Spec => []ClosedForAReason
BY Invariant, PTL DEF IInv

(* record_review_action: actions that do not overlap decide the status, the *)
(* last one last.                                                           *)
THEOREM SerialActions == Spec => []SerialActionsDecide
BY Invariant, PTL DEF IInv
-----------------------------------------------------------------------------
(* What the abstract record sees of a state.                                *)
ClosedCases == {d \in Cases : status[d] = "closed"}
ToldAll == [p \in Requests |-> Told(answer[p].code)]
recordView == <<target, asks, confirmed, trail, ClosedCases, ToldAll>>

LEMMA ToldByCode ==
  /\ Told(0) = "none" /\ Told(200) = "recorded" /\ Told(409) = "contradicted"
  /\ Told(404) = "unknown" /\ Told(500) = "failed"
BY DEF Told

LEMMA InitSimulated == Init => Record!Init
BY ToldByCode DEF Init, Record!Init, Silent

(* An answer is what the abstract request is told.                          *)
LEMMA RespondTells ==
  ASSUME IInv, NEW p \in Requests, NEW code \in {200, 404, 409, 500}, NEW shows,
         Respond(p, pc[p], code, shows), pc[p] # "done",
         UNCHANGED <<target, asks, confirmed, trail, status>>
  PROVE  Record!Tell(p, Told(code))
<1>1. ToldAll' = [ToldAll EXCEPT ![p] = Told(code)]
  <2>1. answer' = [answer EXCEPT ![p] = [code |-> code, shows |-> shows]]
    BY DEF Respond
  <2>2. \A q \in Requests : answer'[q].code = IF q = p THEN code ELSE answer[q].code
    BY <2>1 DEF IInv, TypeOK
  <2>3. \A q \in Requests : Told(answer'[q].code) = IF q = p THEN Told(code)
                                                   ELSE Told(answer[q].code)
    BY <2>2
  <2>4. /\ ToldAll = [q \in Requests |-> ToldAll[q]]
        /\ ToldAll' = [q \in Requests |-> ToldAll'[q]]
    BY DEF ToldAll
  <2>5. \A q \in Requests : /\ ToldAll[q] = Told(answer[q].code)
                            /\ ToldAll'[q] = Told(answer'[q].code)
    BY DEF ToldAll
  <2>6. \A q \in Requests : ToldAll'[q] = IF q = p THEN Told(code) ELSE ToldAll[q]
    BY <2>3, <2>5
  <2> QED
    BY <2>4, <2>6
<1>2. ToldAll[p] = "none"
  BY ToldByCode DEF IInv, Underway, ToldAll, Silent
<1>3. UNCHANGED <<target, asks, confirmed, trail, ClosedCases>>
  BY DEF ClosedCases
<1> QED
  BY <1>1, <1>2, <1>3 DEF Record!Tell, ToldAll, ClosedCases

(* Every answer is one the abstract record allows.                          *)
LEMMA AnswersSimulated ==
  ASSUME IInv, NEW p \in Requests,
         \/ NotFound(p) \/ CaseDetail(p) \/ OutcomeDiffers(p) \/ OutcomeKnown(p)
         \/ OutcomeTaken(p) \/ Refresh(p) \/ DependencyFails(p)
  PROVE  Record!Next
<1> USE DEF IInv, case, labels
<1>1. CASE NotFound(p)
  <2>1. Record!Tell(p, "unknown")
    BY <1>1, RespondTells, ToldByCode DEF NotFound
  <2>2. ~Record!Reports(p) /\ ~Record!Reviews(p)
    BY <1>1, CasesAssumption
       DEF NotFound, Handled, Record!Reports, Record!Reviews, Actions, Labels
  <2> QED
    BY <2>1, <2>2 DEF Record!Unknown, Record!Next
<1>2. CASE CaseDetail(p)
  <2>. Respond(p, pc[p], 200, status[target[p]]) /\ pc[p] # "done"
    BY <1>2 DEF CaseDetail, Respond, Goto
  <2>1. Record!Tell(p, "recorded")
    BY <1>2, RespondTells, ToldByCode DEF CaseDetail
  <2>2. Record!Reviews(p) /\ p \in trail
    BY <1>2 DEF CaseDetail, Respond, Goto, Handled, Underway, Record!Reviews
  <2> QED
    BY <2>1, <2>2 DEF Record!Confirm, Record!Next
<1>3. CASE OutcomeDiffers(p)
  <2>. Respond(p, pc[p], 409, "none") /\ pc[p] # "done"
    BY <1>3 DEF OutcomeDiffers, Respond, Goto
  <2>1. Record!Tell(p, "contradicted")
    BY <1>3, RespondTells, ToldByCode DEF OutcomeDiffers
  <2>2. Record!Reports(p) /\ confirmed[target[p]] \notin {"none", asks[p]}
    BY <1>3 DEF OutcomeDiffers, Respond, Goto, Handled, LabelIsOutcome, Record!Reports
  <2> QED
    BY <2>1, <2>2 DEF Record!Contradict, Record!Next
<1>4. CASE OutcomeKnown(p) \/ Refresh(p)
  <2>1. Record!Tell(p, "recorded")
    BY <1>4, RespondTells, ToldByCode DEF OutcomeKnown, Refresh, Respond, Goto
  <2>2. Record!Reports(p) /\ confirmed[target[p]] = asks[p]
    BY <1>4 DEF OutcomeKnown, Refresh, Respond, Goto, Handled, Reported, LabelIsOutcome,
                Record!Reports
  <2> QED
    BY <2>1, <2>2 DEF Record!Confirm, Record!Next
<1>5. CASE OutcomeTaken(p) \/ DependencyFails(p)
  <2>1. Record!Tell(p, "failed")
    BY <1>5, RespondTells, ToldByCode DEF OutcomeTaken, DependencyFails, Respond, Goto
  <2> QED
    BY <2>1 DEF Record!Fail, Record!Next
<1> QED
  BY <1>1, <1>2, <1>3, <1>4, <1>5

(* The commit of a report gives the verdict, which nobody gave before.      *)
LEMMA ReportSimulated ==
  ASSUME IInv, NEW p \in Requests, CommitOutcome(p) PROVE Record!Report(p)
<1> USE DEF IInv, CommitOutcome, case, Goto
<1>1. Record!Reports(p) /\ confirmed[target[p]] = "none"
  BY DEF Handled, LabelIsOutcome, Record!Reports
<1>2. confirmed' = [confirmed EXCEPT ![target[p]] = asks[p]]
  BY <1>1 DEF LoadedLabels, LabelIsOutcome, Handled, Labels
<1>3. Told(answer[p].code) = "none"
  BY ToldByCode DEF Underway, Silent
<1> QED
  BY <1>1, <1>2, <1>3 DEF Record!Report

(* The commit of an action closes or reopens its case, or leaves it.        *)
LEMMA ReviewSimulated ==
  ASSUME IInv, NEW p \in Requests, CommitAction(p) PROVE Record!Review(p)
<1> USE DEF IInv, CommitAction, Goto, labels
<1>1. Record!Reviews(p) /\ p \notin trail
  BY DEF Handled, Unread, Record!Reviews
<1>2. Told(answer[p].code) = "none"
  BY ToldByCode DEF Underway, Silent
<1>3. ClosedCases' \in {ClosedCases, IF asks[p] = "close" THEN ClosedCases \cup {target[p]}
                                    ELSE ClosedCases \ {target[p]}}
  BY <1>1 DEF TypeOK, ClosedCases, StatusAfter, Record!Reviews
<1> QED
  BY <1>1, <1>2, <1>3 DEF Record!Review, ClosedCases

LEMMA StepSimulated ==
  ASSUME IInv, NEW p \in Requests, Step(p) PROVE Record!Next \/ UNCHANGED recordView
<1>1. CASE CommitAction(p) \/ CommitOutcome(p)
  BY <1>1, ReportSimulated, ReviewSimulated DEF Record!Next
<1>2. CASE Start(p) \/ LoadCase(p) \/ LoadDecision(p) \/ NoOutcome(p)
  BY <1>2 DEF Start, LoadCase, LoadDecision, NoOutcome, recordView, ClosedCases, ToldAll,
              case, labels
<1> QED
  BY <1>1, <1>2, AnswersSimulated DEF Step, Handle

(* The handlers of reviews and outcomes, whose queries and commits race and  *)
(* fail, implement the abstract record: one verdict per decision, for ever,  *)
(* and answers that are true.                                               *)
THEOREM FollowUpImplementsRecord == Spec => RecordSpec
<1>1. IInv /\ [Next]_vars => [Record!Next]_(Record!recordVars)
  <2> SUFFICES ASSUME IInv, [Next]_vars PROVE Record!Next \/ UNCHANGED recordView
    BY DEF recordView, ClosedCases, ToldAll, Record!recordVars
  <2>1. CASE Next
    <3> PICK p \in Requests : Step(p)
      BY <2>1 DEF Next, Step
    <3> QED
      BY StepSimulated
  <2>2. CASE UNCHANGED vars
    BY <2>2 DEF vars, case, labels, recordView, ClosedCases, ToldAll
  <2> QED
    BY <2>1, <2>2
<1> QED
  BY <1>1, InitSimulated, Invariant, PTL DEF Spec, RecordSpec, Record!Spec
-----------------------------------------------------------------------------
(* What has been recorded or answered, and no later step may take back.      *)
RecordKept ==
  /\ \A d \in Decisions : confirmed[d] # "none" => confirmed'[d] = confirmed[d]
  /\ trail \subseteq trail'
  /\ \A p \in Requests : ToldAll[p] # "none" => ToldAll'[p] = ToldAll[p]

(* The first outcome reported of a decision is its label for ever: reports    *)
(* that were under way when it was committed, and later ones, change nothing. *)
THEOREM VerdictsAreFinal == Spec => [][RecordKept]_recordView
<1>1. TypeOK /\ [Record!Next]_(Record!recordVars) => [RecordKept]_recordView
  <2> SUFFICES ASSUME TypeOK, Record!Next PROVE RecordKept
    BY DEF recordView, ClosedCases, ToldAll, Record!recordVars
  <2>1. confirmed \in [Decisions -> {"none"} \cup Labels] /\ ToldAll = [p \in Requests |-> ToldAll[p]]
    BY DEF TypeOK, ToldAll
  <2>2. ASSUME NEW p \in Requests, NEW what, Record!Tell(p, what) PROVE RecordKept
    <3>1. /\ ToldAll[p] = "none" /\ ToldAll' = [ToldAll EXCEPT ![p] = what]
          /\ UNCHANGED <<confirmed, trail>>
      BY <2>2 DEF Record!Tell, ToldAll
    <3> QED
      BY <2>1, <3>1 DEF RecordKept
  <2>3. ASSUME NEW p \in Requests, Record!Report(p) PROVE RecordKept
    <3>1. /\ confirmed[target[p]] = "none"
          /\ confirmed' = [confirmed EXCEPT ![target[p]] = asks[p]]
          /\ UNCHANGED <<ToldAll, trail>>
      BY <2>3 DEF Record!Report, ToldAll
    <3> QED
      BY <2>1, <3>1 DEF RecordKept
  <2>4. ASSUME NEW p \in Requests, Record!Review(p) PROVE RecordKept
    <3>1. trail' = trail \cup {p} /\ UNCHANGED <<ToldAll, confirmed>>
      BY <2>4 DEF Record!Review, ToldAll
    <3> QED
      BY <3>1 DEF RecordKept
  <2> QED
    BY <2>2, <2>3, <2>4
       DEF Record!Next, Record!Confirm, Record!Contradict, Record!Unknown, Record!Fail
<1> QED
  BY <1>1, TypeCorrectness, FollowUpImplementsRecord, PTL DEF RecordSpec, Record!Spec
=============================================================================
