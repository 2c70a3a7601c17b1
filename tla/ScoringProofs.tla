---------------------------- MODULE ScoringProofs ----------------------------
(***************************************************************************)
(* Proofs about module Scoring, for any number of requests, clients, keys,  *)
(* external ids and bodies, with and without faults.                        *)
(***************************************************************************)
EXTENDS Scoring, TLAPS

(* No two open transactions hold the same unique key, and none holds a key  *)
(* that is already committed.                                               *)
LocksExclusive ==
  /\ \A p, q \in Requests : /\ p # q /\ HoldsTxn(p) /\ HoldsTxn(q) => Txn(p) # Txn(q)
                            /\ p # q /\ HoldsKey(p) /\ HoldsKey(q) => ~SameKey(p, q)
  /\ \A p \in Requests : /\ HoldsTxn(p) => TxnRow(p) = {}
                         /\ HoldsKey(p) => KeyRow(p) = {}

(* What a commit writes, and which requests have committed.                 *)
RowsTogether ==
  /\ idempotency = {d \in decisions : req[d].key # NoKey}
  /\ outbox = decisions
  /\ cases = {d \in decisions : opensCase[d]}
  /\ \A p \in Requests : /\ p \in decisions => pc[p] \in {"fastPath", "refresh", "done"}
                         /\ pc[p] \in {"fastPath", "refresh"} => p \in decisions

(* What a request remembers between two of its steps is still true.         *)
RememberedRows ==
  \A p \in Requests :
    /\ pc[p] = "replayBound" =>
         \E d \in decisions : found[p] = {d} /\ Fingerprint(d) = Fingerprint(p)
    /\ pc[p] = "match" => \E d \in decisions : found[p] = {d} /\ Txn(d) = Txn(p)
    /\ pc[p] = "recover" => KeyRow(p) # {}

AnswersHonest ==
  \A p \in Requests :
    /\ answer[p].status # "none" => pc[p] = "done"
    /\ answer[p].status = "created" => answer[p].decision = {p}

SettledRows ==
  \A p \in Requests : \A d \in settled[p] :
    d \in decisions /\ Fingerprint(d) = Fingerprint(p)

IInv ==
  /\ TypeOK
  /\ DecidedOnce
  /\ LocksExclusive
  /\ RowsTogether
  /\ RememberedRows
  /\ AnswersHonest
  /\ AcknowledgedIsDurable
  /\ ConflictHasCause
  /\ SettledRows
  /\ RetryNeverRescored
  /\ RecoverAlwaysExplains
-----------------------------------------------------------------------------
LEMMA InitInvariant == Init => IInv
BY
   DEF Init, IInv, TypeOK, Answers, Silent, Steps, DecidedOnce, LocksExclusive,
       HoldsTxn, HoldsKey, RowsTogether, RememberedRows, AnswersHonest,
       AcknowledgedIsDurable, Accepted, ConflictHasCause, SettledRows,
       RetryNeverRescored, RecoverAlwaysExplains

LEMMA TypeCorrect == TypeOK /\ [Next]_vars => TypeOK'
<1> SUFFICES ASSUME TypeOK, Next PROVE TypeOK'
  BY DEF vars, TypeOK
<1> USE DEF TypeOK, Steps, Goto, Respond, tables
<1>1. PICK p \in Requests : \/ \E r \in Asks : Submit(p, r)
                            \/ Score(p) \/ DependencyFails(p) \/ Crash(p)
  BY DEF Next
<1>2. ASSUME NEW r \in Asks, Submit(p, r) PROVE TypeOK'
  BY <1>2, NoRequestAssumption DEF Submit, Asks
<1>3. CASE RefuseWithoutModel(p)
  BY <1>3 DEF RefuseWithoutModel, Problem, Answers, ProblemCodes
<1>4. CASE KeyUnused(p)
  BY <1>4 DEF KeyUnused
<1>5. CASE KeyTaken(p)
  BY <1>5 DEF KeyTaken, Problem, Answers, ProblemCodes
<1>6. CASE KeyBound(p)
  BY <1>6 DEF KeyBound, KeyRow
<1>7. CASE ReplayBound(p)
  BY <1>7 DEF ReplayBound, Replay, Answers
<1>8. CASE GetExisting(p)
  BY <1>8 DEF GetExisting, TxnRow
<1>9. CASE MatchFingerprint(p)
  BY <1>9 DEF MatchFingerprint, Replay, Problem, Answers, ProblemCodes
<1>10. CASE ReadContext(p)
  BY <1>10 DEF ReadContext
<1>11. CASE InsertDecision(p)
  BY <1>11 DEF InsertDecision
<1>12. CASE InsertDuplicate(p)
  BY <1>12 DEF InsertDuplicate, Problem, Answers, ProblemCodes
<1>13. CASE FlushCase(p)
  BY <1>13 DEF FlushCase
<1>14. CASE FlushCaseDuplicateKey(p)
  BY <1>14 DEF FlushCaseDuplicateKey, Problem, Answers, ProblemCodes
<1>15. CASE CommitWithCase(p)
  BY <1>15 DEF CommitWithCase, CommitRows
<1>16. CASE CommitAllow(p)
  BY <1>16 DEF CommitAllow, CommitRows
<1>17. CASE CommitDuplicateKey(p)
  BY <1>17 DEF CommitDuplicateKey
<1>18. CASE Recover(p)
  <2>1. CASE UNCHANGED answer
    BY <1>18, <2>1 DEF Recover
  <2>2. ASSUME NEW d \in TxnRow(p),
               Respond(p, IF Fingerprint(d) = Fingerprint(p) THEN Replay(d)
                          ELSE Problem("EXTERNAL_TRANSACTION_CONFLICT"))
        PROVE  answer' \in [Requests -> Answers] /\ pc' \in [Requests -> Steps]
    BY <2>2 DEF TxnRow, Replay, Problem, Answers, ProblemCodes
  <2> QED
    BY <1>18, <2>1, <2>2 DEF Recover
<1>19. CASE RecoverKey(p)
  BY <1>19 DEF RecoverKey, Problem, Answers, ProblemCodes
<1>20. CASE FastPath(p)
  BY <1>20 DEF FastPath
<1>21. CASE Refresh(p)
  <2>1. PICK d \in Requests : Respond(p, Created(d))
    BY <1>21 DEF Refresh, TxnRow
  <2>2. Created(d) \in Answers
    BY DEF Created, Answers
  <2> QED
    BY <1>21, <2>1, <2>2 DEF Refresh
<1>22. CASE DependencyFails(p)
  BY <1>22 DEF DependencyFails, Problem, Answers, ProblemCodes, Awaiting
<1>23. CASE Crash(p)
  BY <1>23 DEF Crash, Awaiting
<1> QED
  BY <1>1, <1>2, <1>3, <1>4, <1>5, <1>6, <1>7, <1>8, <1>9, <1>10, <1>11, <1>12,
     <1>13, <1>14, <1>15, <1>16, <1>17, <1>18, <1>19, <1>20, <1>21, <1>22, <1>23
     DEF Score
-----------------------------------------------------------------------------
(* A step of a request that has started.                                    *)
Step(p) == Score(p) \/ DependencyFails(p) \/ Crash(p)

(* What such a step leaves alone, and the only way it can touch the tables. *)
Frame(p) ==
  /\ pc[p] \notin {"idle", "done"} /\ pc'[p] # "idle"
  /\ req' = req /\ settled' = settled
  /\ \A q \in Requests \ {p} : /\ pc'[q] = pc[q] /\ answer'[q] = answer[q]
                               /\ found'[q] = found[q]
                               /\ opensCase'[q] = opensCase[q]
  /\ pc[p] # "context" => opensCase' = opensCase
  /\ pc[p] = "fastPath" => pc'[p] \in {"refresh", "done"}
  /\ pc[p] = "refresh" => pc'[p] = "done"
  /\ pc'[p] = "refresh" => pc[p] = "fastPath"
  /\ \/ UNCHANGED tables /\ pc'[p] # "fastPath"
     \/ /\ CommitWithCase(p) \/ CommitAllow(p)
        /\ pc[p] \in {"insertKey", "commit"} /\ pc'[p] = "fastPath"
        /\ UNCHANGED <<answer, opensCase, found>>

LEMMA StepFrame ==
  ASSUME TypeOK, NEW p \in Requests, Step(p)
  PROVE  Frame(p)
<1> USE DEF TypeOK, Goto, Respond, tables, Frame
<1>1. CASE \/ RefuseWithoutModel(p) \/ KeyUnused(p) \/ KeyTaken(p) \/ KeyBound(p)
           \/ ReplayBound(p) \/ GetExisting(p) \/ MatchFingerprint(p) \/ ReadContext(p)
  BY <1>1 DEF RefuseWithoutModel, KeyUnused, KeyTaken, KeyBound, ReplayBound,
              GetExisting, MatchFingerprint, ReadContext
<1>2. CASE \/ InsertDecision(p) \/ InsertDuplicate(p) \/ FlushCase(p)
           \/ FlushCaseDuplicateKey(p) \/ CommitDuplicateKey(p) \/ Recover(p)
           \/ RecoverKey(p) \/ FastPath(p) \/ Refresh(p)
  BY <1>2 DEF InsertDecision, InsertDuplicate, FlushCase, FlushCaseDuplicateKey,
              CommitDuplicateKey, Recover, RecoverKey, FastPath, Refresh
<1>3. CASE CommitWithCase(p) \/ CommitAllow(p)
  BY <1>3 DEF CommitWithCase, CommitAllow
<1>4. CASE DependencyFails(p) \/ Crash(p)
  BY <1>4 DEF DependencyFails, Crash, Awaiting
<1> QED
  BY <1>1, <1>2, <1>3, <1>4 DEF Step, Score

(* A commit takes the unique keys of its rows from nobody.                  *)
LEMMA CommitFrame ==
  ASSUME IInv, NEW p \in Requests, CommitWithCase(p) \/ CommitAllow(p)
  PROVE  /\ TxnRow(p) = {} /\ KeyRow(p) = {}
         /\ \A q \in Requests \ {p} : /\ HoldsTxn(q) => Txn(q) # Txn(p)
                                      /\ HoldsKey(q) => ~SameKey(q, p)
         /\ p \notin decisions /\ CommitRows(p) /\ pc'[p] = "fastPath"
<1> USE DEF IInv, LocksExclusive, RowsTogether, TypeOK
<1>1. CASE CommitWithCase(p)
  BY <1>1 DEF CommitWithCase, Goto, HoldsTxn, HoldsKey, KeyRow, SameKey
<1>2. CASE CommitAllow(p)
  BY <1>2 DEF CommitAllow, Goto, HoldsTxn, KeyFree
<1> QED
  BY <1>1, <1>2

(* Committed rows stay, and so does what every request asked.               *)
RowsStay ==
  /\ decisions \subseteq decisions' /\ idempotency \subseteq idempotency'
  /\ \A q, r : /\ Txn(q)' = Txn(q)
               /\ Fingerprint(q)' = Fingerprint(q)
               /\ SameKey(q, r)' = SameKey(q, r)

LEMMA StepKeepsRows ==
  ASSUME IInv, NEW p \in Requests, Step(p)
  PROVE  RowsStay
<1>1. Frame(p)
  BY StepFrame DEF IInv
<1>2. decisions \subseteq decisions' /\ idempotency \subseteq idempotency'
  BY <1>1, CommitFrame DEF Frame, CommitRows, tables
<1> QED
  BY <1>1, <1>2 DEF Frame, RowsStay, Txn, Fingerprint, SameKey

LEMMA DecidedOnceStep ==
  ASSUME IInv, NEW p \in Requests, Step(p) PROVE DecidedOnce'
<1>f. Frame(p) /\ RowsStay
  BY StepFrame, StepKeepsRows DEF IInv
<1> USE <1>f DEF Frame, RowsStay, IInv
<1>1. CASE UNCHANGED tables
  BY <1>1 DEF DecidedOnce, tables
<1>2. CASE CommitWithCase(p) \/ CommitAllow(p)
  <2>1. /\ \A d \in decisions : Txn(d) # Txn(p)
        /\ \A d \in idempotency : ~SameKey(d, p) /\ ~SameKey(p, d)
    BY <1>2, CommitFrame DEF TxnRow, KeyRow, SameKey
  <2>2. /\ decisions' = decisions \cup {p}
        /\ idempotency' \subseteq idempotency \cup {p}
    BY <1>2, CommitFrame DEF CommitRows
  <2> QED
    BY <2>1, <2>2 DEF DecidedOnce
<1> QED
  BY <1>1, <1>2

LEMMA RowsTogetherStep ==
  ASSUME IInv, NEW p \in Requests, Step(p) PROVE RowsTogether'
<1>f. Frame(p)
  BY StepFrame DEF IInv
<1> USE <1>f DEF Frame, IInv, RowsTogether
<1>1. CASE UNCHANGED tables /\ pc'[p] # "fastPath"
  <2>1. p \in decisions => pc[p] # "context"
    OBVIOUS
  <2>2. \A d \in decisions : opensCase'[d] = opensCase[d]
    BY <2>1 DEF TypeOK
  <2> QED
    BY <1>1, <2>2 DEF tables, TypeOK
<1>2. CASE CommitWithCase(p) \/ CommitAllow(p)
  <2> USE CommitFrame, <1>2 DEF CommitRows
  <2>1. req' = req /\ opensCase' = opensCase /\ pc'[p] = "fastPath"
    BY DEF CommitWithCase, CommitAllow, Goto, TypeOK
  <2>2. idempotency' = {d \in decisions' : req'[d].key # NoKey}
    BY <2>1
  <2>3. cases' = {d \in decisions' : opensCase'[d]}
    BY <2>1
  <2>4. outbox' = decisions'
    OBVIOUS
  <2>5. \A q \in Requests : /\ q \in decisions' => pc'[q] \in {"fastPath", "refresh", "done"}
                            /\ pc'[q] \in {"fastPath", "refresh"} => q \in decisions'
    BY <2>1
  <2> QED
    BY <2>2, <2>3, <2>4, <2>5
<1> QED
  BY <1>1, <1>2

LEMMA LocksExclusiveStep ==
  ASSUME IInv, NEW p \in Requests, Step(p) PROVE LocksExclusive'
<1>f. Frame(p) /\ RowsStay /\ LocksExclusive /\ TypeOK
  BY StepFrame, StepKeepsRows DEF IInv
<1> USE <1>f DEF Frame, RowsStay, LocksExclusive
<1>1. CASE InsertDecision(p)
  BY <1>1 DEF InsertDecision, Goto, HoldsTxn, HoldsKey, TxnRow, KeyRow, tables, TypeOK
<1>2. CASE FlushCase(p)
  <2>1. /\ UNCHANGED <<tables, req>> /\ pc[p] = "insertKey" /\ pc'[p] = "commit"
        /\ KeyFree(p) /\ KeyRow(p) = {}
    BY <1>2 DEF FlushCase, Goto, TypeOK
  <2>2. \A q \in Requests : /\ HoldsTxn(q)' <=> HoldsTxn(q)
                            /\ q # p => (HoldsKey(q)' <=> HoldsKey(q))
                            /\ TxnRow(q)' = TxnRow(q) /\ KeyRow(q)' = KeyRow(q)
    BY <2>1 DEF HoldsTxn, HoldsKey, TxnRow, KeyRow, tables
  <2>3. \A q \in Requests \ {p} : HoldsKey(q) => ~SameKey(q, p) /\ ~SameKey(p, q)
    BY <2>1 DEF KeyFree, SameKey
  <2> QED
    BY <2>1, <2>2, <2>3
<1>3. CASE CommitWithCase(p) \/ CommitAllow(p)
  <2> USE <1>3, CommitFrame
  <2>1. \A q \in Requests : /\ HoldsTxn(q)' => q # p /\ HoldsTxn(q)
                            /\ HoldsKey(q)' => q # p /\ HoldsKey(q)
    BY DEF HoldsTxn, HoldsKey
  <2>2. \A q \in Requests : HoldsTxn(q)' => TxnRow(q)' = {}
    BY <2>1 DEF CommitRows, TxnRow
  <2>3. \A q \in Requests : HoldsKey(q)' => KeyRow(q)' = {}
    BY <2>1 DEF CommitRows, KeyRow, SameKey
  <2> QED
    BY <2>1, <2>2, <2>3
<1>4. CASE /\ ~InsertDecision(p) /\ ~FlushCase(p)
           /\ ~CommitWithCase(p) /\ ~CommitAllow(p)
  <2>1. pc'[p] \notin {"insertKey", "commit"}
    <3>1. CASE Score(p)
      BY <1>4, <3>1
         DEF Score, TypeOK, Goto, Respond, RefuseWithoutModel, KeyUnused, KeyTaken,
             KeyBound, ReplayBound, GetExisting, MatchFingerprint, ReadContext,
             InsertDuplicate, FlushCaseDuplicateKey, CommitDuplicateKey, Recover,
             RecoverKey, FastPath, Refresh
    <3>2. CASE DependencyFails(p) \/ Crash(p)
      BY <3>2 DEF DependencyFails, Crash, Respond, Goto, TypeOK
    <3> QED
      BY <3>1, <3>2 DEF Step
  <2>2. UNCHANGED <<tables, req>>
    BY <1>4
  <2>3. \A q \in Requests : /\ HoldsTxn(q)' => HoldsTxn(q)
                            /\ HoldsKey(q)' => HoldsKey(q)
                            /\ TxnRow(q)' = TxnRow(q) /\ KeyRow(q)' = KeyRow(q)
    BY <2>1, <2>2 DEF HoldsTxn, HoldsKey, TxnRow, KeyRow, tables
  <2> QED
    BY <2>3
<1> QED
  BY <1>1, <1>2, <1>3, <1>4

LEMMA RememberedRowsStep ==
  ASSUME IInv, NEW p \in Requests, Step(p) PROVE RememberedRows'
<1>f. Frame(p) /\ RowsStay /\ RememberedRows /\ TypeOK /\ DecidedOnce /\ RowsTogether
  BY StepFrame, StepKeepsRows DEF IInv
<1>1. \A q \in Requests \ {p} :
        /\ pc'[q] = "replayBound" =>
             \E d \in decisions' : found'[q] = {d} /\ Fingerprint(d)' = Fingerprint(q)'
        /\ pc'[q] = "match" => \E d \in decisions' : found'[q] = {d} /\ Txn(d)' = Txn(q)'
        /\ pc'[q] = "recover" => KeyRow(q)' # {}
  BY <1>f DEF Frame, RowsStay, RememberedRows, KeyRow
<1>2. CASE KeyBound(p)
  <2>1. \E d \in decisions : found'[p] = {d} /\ Fingerprint(d) = Fingerprint(p)
    BY <1>2, <1>f DEF KeyBound, KeyRow, RowsTogether, TypeOK
  <2>2. pc'[p] = "replayBound"
    BY <1>2, <1>f DEF KeyBound, Goto, TypeOK
  <2> QED
    BY <1>1, <2>1, <2>2, <1>f DEF RememberedRows, RowsStay
<1>3. CASE GetExisting(p)
  <2>1. /\ pc'[p] = IF TxnRow(p) = {} THEN "context" ELSE "match"
        /\ found'[p] = TxnRow(p)
    BY <1>3, <1>f DEF GetExisting, Goto, TypeOK
  <2>2. TxnRow(p) # {} => \E d \in decisions : TxnRow(p) = {d} /\ Txn(d) = Txn(p)
    BY <1>f DEF TxnRow, DecidedOnce
  <2> QED
    BY <1>1, <2>1, <2>2, <1>f DEF RememberedRows, RowsStay
<1>4. CASE CommitDuplicateKey(p)
  <2>1. pc'[p] = "recover" /\ KeyRow(p) # {}
    BY <1>4, <1>f DEF CommitDuplicateKey, Goto, TypeOK
  <2> QED
    BY <1>1, <2>1, <1>f DEF RememberedRows, RowsStay, KeyRow
<1>5. CASE ~KeyBound(p) /\ ~GetExisting(p) /\ ~CommitDuplicateKey(p)
  <2>1. pc'[p] \notin {"replayBound", "match", "recover"}
    <3>1. CASE Score(p)
      BY <1>5, <3>1, <1>f
         DEF Score, TypeOK, Goto, Respond, RefuseWithoutModel, KeyUnused, KeyTaken,
             ReplayBound, MatchFingerprint, ReadContext, InsertDecision,
             InsertDuplicate, FlushCase, FlushCaseDuplicateKey, CommitWithCase,
             CommitAllow, Recover, RecoverKey, FastPath, Refresh
    <3>2. CASE DependencyFails(p) \/ Crash(p)
      BY <3>2, <1>f DEF DependencyFails, Crash, Respond, Goto, TypeOK
    <3> QED
      BY <3>1, <3>2 DEF Step
  <2> QED
    BY <1>1, <2>1 DEF RememberedRows
<1> QED
  BY <1>2, <1>3, <1>4, <1>5

(* The answers a step can give, each with what makes it true.               *)
Justified(p, a) ==
  \/ a \in {Problem("INTERNAL_ERROR"), Problem("SCORING_DEPENDENCY_UNAVAILABLE")}
  \/ \E d \in decisions : a = Replay(d) /\ Fingerprint(d) = Fingerprint(p)
  \/ p \in decisions /\ a = Created(p) /\ pc[p] = "refresh"
  \/ /\ a = Problem("IDEMPOTENCY_CONFLICT")
     /\ \E d \in idempotency : SameKey(d, p) /\ Fingerprint(d) # Fingerprint(p)
  \/ /\ a = Problem("EXTERNAL_TRANSACTION_CONFLICT")
     /\ \E d \in decisions : Txn(d) = Txn(p) /\ Fingerprint(d) # Fingerprint(p)

LEMMA SameFingerprintSameTxn ==
  \A p, q : Fingerprint(p) = Fingerprint(q) => Txn(p) = Txn(q)
BY DEF Fingerprint, Txn

LEMMA AnswersJustified ==
  ASSUME IInv, NEW p \in Requests, Step(p)
  PROVE  \/ answer' = answer
         \/ /\ answer' = [answer EXCEPT ![p] = answer'[p]]
            /\ pc'[p] = "done" /\ UNCHANGED tables
            /\ Justified(p, answer'[p])
<1>t. TypeOK /\ DecidedOnce /\ RememberedRows /\ RecoverAlwaysExplains /\ RowsTogether
  BY DEF IInv
<1> USE <1>t DEF Respond, tables, TypeOK
<1>1. CASE RefuseWithoutModel(p) \/ InsertDuplicate(p) \/ FlushCaseDuplicateKey(p)
           \/ DependencyFails(p)
  BY <1>1 DEF RefuseWithoutModel, InsertDuplicate, FlushCaseDuplicateKey,
              DependencyFails, Justified
<1>2. CASE KeyTaken(p)
  BY <1>2 DEF KeyTaken, KeyRow, Justified
<1>3. CASE ReplayBound(p)
  BY <1>3, SameFingerprintSameTxn DEF ReplayBound, RememberedRows, DecidedOnce, Justified
<1>4. CASE MatchFingerprint(p)
  BY <1>4 DEF MatchFingerprint, RememberedRows, DecidedOnce, TxnRow, Justified
<1>5. CASE Recover(p)
  BY <1>5 DEF Recover, TxnRow, Justified
<1>6. CASE RecoverKey(p)
  BY <1>6 DEF RecoverKey, RecoverAlwaysExplains, KeyRow, Justified
<1>7. CASE Refresh(p)
  <2>1. PICK d \in decisions : /\ Txn(d) = Txn(p)
                               /\ Respond(p, Created(d))
    BY <1>7 DEF Refresh, TxnRow
  <2>2. pc[p] = "refresh" /\ p \in decisions
    BY <1>7 DEF Refresh, RowsTogether
  <2>3. d = p
    BY <2>1, <2>2 DEF DecidedOnce
  <2>4. Justified(p, Created(p))
    BY <2>2 DEF Justified
  <2>5. answer' = [answer EXCEPT ![p] = Created(p)] /\ pc'[p] = "done"
    BY <2>1, <2>3
  <2>6. UNCHANGED tables
    BY <1>7 DEF Refresh
  <2> QED
    BY <2>4, <2>5, <2>6
<1>8. CASE \/ KeyUnused(p) \/ KeyBound(p) \/ GetExisting(p) \/ ReadContext(p)
           \/ InsertDecision(p) \/ FlushCase(p) \/ CommitWithCase(p) \/ CommitAllow(p)
           \/ CommitDuplicateKey(p) \/ FastPath(p) \/ Crash(p)
  BY <1>8 DEF KeyUnused, KeyBound, GetExisting, ReadContext, InsertDecision,
              FlushCase, CommitWithCase, CommitAllow, CommitDuplicateKey, FastPath, Crash
<1> QED
  BY <1>1, <1>2, <1>3, <1>4, <1>5, <1>6, <1>7, <1>8 DEF Step, Score

LEMMA JustifiedByStatus ==
  ASSUME NEW p, NEW a, Justified(p, a)
  PROVE  /\ a.status # "none"
         /\ a.status = "created" => a.decision = {p} /\ p \in decisions /\ pc[p] = "refresh"
         /\ a.status = "replay" =>
              \E d \in decisions : a.decision = {d} /\ Fingerprint(d) = Fingerprint(p)
         /\ a.status = "IDEMPOTENCY_CONFLICT" =>
              \E d \in idempotency : SameKey(d, p) /\ Fingerprint(d) # Fingerprint(p)
         /\ a.status = "EXTERNAL_TRANSACTION_CONFLICT" =>
              \E d \in decisions : Txn(d) = Txn(p) /\ Fingerprint(d) # Fingerprint(p)
<1>1. ASSUME NEW code \in ProblemCodes, a = Problem(code) PROVE a.status = code
  BY <1>1 DEF Problem
<1>2. ASSUME NEW d, a = Replay(d) PROVE a.status = "replay" /\ a.decision = {d}
  BY <1>2 DEF Replay
<1>3. CASE a = Created(p) /\ p \in decisions /\ pc[p] = "refresh"
  BY <1>3 DEF Created
<1>4. CASE \E d \in decisions : a = Replay(d) /\ Fingerprint(d) = Fingerprint(p)
  BY <1>2, <1>4
<1>5. CASE \E code \in ProblemCodes : a = Problem(code)
  <2>1. a.status \in ProblemCodes
    BY <1>1, <1>5
  <2>2. ~(\E d \in decisions : a = Replay(d)) /\ a # Created(p)
    BY <2>1 DEF Replay, Created, ProblemCodes
  <2> QED
    BY <1>1, <2>1, <2>2 DEF Justified, ProblemCodes
<1> QED
  BY <1>3, <1>4, <1>5 DEF Justified, ProblemCodes

LEMMA AnswersStep ==
  ASSUME IInv, NEW p \in Requests, Step(p)
  PROVE  AnswersHonest' /\ AcknowledgedIsDurable' /\ ConflictHasCause'
<1>f. /\ Frame(p) /\ RowsStay /\ TypeOK /\ AnswersHonest
      /\ AcknowledgedIsDurable /\ ConflictHasCause /\ RowsTogether /\ RowsTogether'
  BY StepFrame, StepKeepsRows, RowsTogetherStep DEF IInv
<1>1. \A d \in decisions : opensCase'[d] = opensCase[d]
  BY <1>f DEF Frame, RowsTogether, TypeOK
<1>2. \A q \in Requests : answer'[q] = answer[q] =>
        /\ Accepted(q)' =>
             \E d \in decisions' : /\ answer'[q].decision = {d}
                                   /\ Fingerprint(d)' = Fingerprint(q)'
                                   /\ d \in outbox'
                                   /\ opensCase'[d] => d \in cases'
        /\ answer'[q].status = "IDEMPOTENCY_CONFLICT" =>
             \E d \in idempotency' : /\ SameKey(d, q)'
                                     /\ Fingerprint(d)' # Fingerprint(q)'
        /\ answer'[q].status = "EXTERNAL_TRANSACTION_CONFLICT" =>
             \E d \in decisions' : /\ Txn(d)' = Txn(q)'
                                   /\ Fingerprint(d)' # Fingerprint(q)'
  BY <1>f, <1>1
     DEF RowsStay, AcknowledgedIsDurable, ConflictHasCause, Accepted, RowsTogether
<1>3. CASE answer' = answer
  <2>1. AnswersHonest'
    BY <1>3, <1>f DEF AnswersHonest, Frame
  <2> QED
    BY <1>2, <1>3, <2>1 DEF AcknowledgedIsDurable, ConflictHasCause
<1>4. CASE /\ answer' = [answer EXCEPT ![p] = answer'[p]]
           /\ pc'[p] = "done" /\ UNCHANGED tables
           /\ Justified(p, answer'[p])
  <2>1. \A q \in Requests \ {p} : answer'[q] = answer[q]
    BY <1>4, <1>f DEF Frame
  <2>2. AnswersHonest'
    BY <1>4, <1>f, <2>1, JustifiedByStatus DEF AnswersHonest, Frame
  <2>3. Accepted(p)' =>
          \E d \in decisions' : /\ answer'[p].decision = {d}
                                /\ Fingerprint(d)' = Fingerprint(p)'
                                /\ d \in outbox'
                                /\ opensCase'[d] => d \in cases'
    BY <1>4, <1>f, JustifiedByStatus DEF Accepted, RowsTogether, RowsStay
  <2>4. /\ answer'[p].status = "IDEMPOTENCY_CONFLICT" =>
             \E d \in idempotency' : /\ SameKey(d, p)'
                                     /\ Fingerprint(d)' # Fingerprint(p)'
        /\ answer'[p].status = "EXTERNAL_TRANSACTION_CONFLICT" =>
             \E d \in decisions' : /\ Txn(d)' = Txn(p)'
                                   /\ Fingerprint(d)' # Fingerprint(p)'
    BY <1>4, <1>f, JustifiedByStatus DEF RowsStay
  <2> QED
    BY <1>2, <2>1, <2>2, <2>3, <2>4 DEF AcknowledgedIsDurable, ConflictHasCause
<1> QED
  BY <1>3, <1>4, AnswersJustified

LEMMA SettledRowsStep ==
  ASSUME IInv, NEW p \in Requests, Step(p) PROVE SettledRows'
<1>1. Frame(p) /\ RowsStay /\ SettledRows
  BY StepFrame, StepKeepsRows DEF IInv
<1> QED
  BY <1>1 DEF Frame, RowsStay, SettledRows

LEMMA RetryNeverRescoredStep ==
  ASSUME IInv, NEW p \in Requests, Step(p) PROVE RetryNeverRescored'
<1>f. /\ Frame(p) /\ RowsStay /\ TypeOK /\ DecidedOnce /\ SettledRows
      /\ RetryNeverRescored /\ AnswersHonest
  BY StepFrame, StepKeepsRows DEF IInv
<1>1. \A q \in Requests \ {p} : settled'[q] # {} =>
        /\ pc'[q] \in {"noModel", "findKey", "replayBound", "getExisting", "match", "done"}
        /\ answer'[q].status \notin {"created", "EXTERNAL_TRANSACTION_CONFLICT"}
        /\ answer'[q].status = "replay" => answer'[q].decision = settled'[q]
  BY <1>f DEF Frame, RetryNeverRescored
<1>2. ASSUME settled[p] # {}
      PROVE  /\ pc'[p] \in {"noModel", "findKey", "replayBound", "getExisting", "match", "done"}
             /\ answer'[p].status \notin {"created", "EXTERNAL_TRANSACTION_CONFLICT"}
             /\ answer'[p].status = "replay" => answer'[p].decision = settled[p]
  <2>1. PICK d \in decisions : settled[p] = {d} /\ Fingerprint(d) = Fingerprint(p)
    BY <1>2, <1>f, SameFingerprintSameTxn DEF SettledRows, DecidedOnce, TypeOK
  <2>2. pc[p] \in {"noModel", "findKey", "replayBound", "getExisting", "match"}
    BY <1>2, <1>f DEF RetryNeverRescored, Frame
  <2>3. TxnRow(p) = {d}
    BY <2>1, <1>f, SameFingerprintSameTxn DEF TxnRow, DecidedOnce
  <2>4. pc'[p] \in {"getExisting", "replayBound", "match", "done"}
    <3>1. CASE Score(p)
      BY <2>2, <2>3, <3>1, <1>f
         DEF Score, TypeOK, Goto, Respond, RefuseWithoutModel, KeyUnused, KeyTaken,
             KeyBound, ReplayBound, GetExisting, MatchFingerprint, ReadContext,
             InsertDecision, InsertDuplicate, FlushCase, FlushCaseDuplicateKey,
             CommitWithCase, CommitAllow, CommitDuplicateKey, Recover, RecoverKey,
             FastPath, Refresh
    <3>2. CASE DependencyFails(p) \/ Crash(p)
      BY <3>2, <1>f DEF DependencyFails, Crash, Respond, Goto, TypeOK
    <3> QED
      BY <3>1, <3>2 DEF Step
  <2>5. CASE answer' = answer
    BY <2>4, <2>5, <1>2, <1>f DEF RetryNeverRescored
  <2>6. CASE Justified(p, answer'[p])
    <3>1. \A e \in decisions : Txn(e) = Txn(p) => e = d
      BY <2>3 DEF TxnRow
    <3>2. answer'[p].status \notin {"created", "EXTERNAL_TRANSACTION_CONFLICT"}
      BY <2>1, <2>2, <2>6, <3>1, JustifiedByStatus
    <3>3. answer'[p].status = "replay" => answer'[p].decision = {d}
      BY <2>6, <3>1, SameFingerprintSameTxn, JustifiedByStatus
    <3> QED
      BY <2>1, <2>4, <3>2, <3>3
  <2> QED
    BY <2>5, <2>6, AnswersJustified
<1> QED
  BY <1>1, <1>2, <1>f DEF Frame, RetryNeverRescored

LEMMA RecoverAlwaysExplainsStep ==
  ASSUME IInv, NEW p \in Requests, Step(p) PROVE RecoverAlwaysExplains'
<1>f. /\ Frame(p) /\ RowsStay /\ TypeOK /\ RememberedRows /\ RowsTogether
      /\ RecoverAlwaysExplains
  BY StepFrame, StepKeepsRows DEF IInv
<1>1. \A q \in Requests \ {p} : pc'[q] = "recoverKey" =>
        \E d \in KeyRow(q)' : Fingerprint(d)' # Fingerprint(q)'
  BY <1>f DEF Frame, RowsStay, RecoverAlwaysExplains, KeyRow
<1>2. ASSUME pc'[p] = "recoverKey"
      PROVE  \E d \in KeyRow(p)' : Fingerprint(d)' # Fingerprint(p)'
  <2>1. Recover(p) /\ TxnRow(p) = {} /\ pc[p] = "recover"
    <3>1. CASE Score(p)
      BY <1>2, <3>1, <1>f
         DEF Score, TypeOK, Goto, Respond, RefuseWithoutModel, KeyUnused, KeyTaken,
             KeyBound, ReplayBound, GetExisting, MatchFingerprint, ReadContext,
             InsertDecision, InsertDuplicate, FlushCase, FlushCaseDuplicateKey,
             CommitWithCase, CommitAllow, CommitDuplicateKey, Recover, RecoverKey,
             FastPath, Refresh
    <3>2. CASE DependencyFails(p) \/ Crash(p)
      BY <1>2, <3>2, <1>f DEF DependencyFails, Crash, Respond, Goto, TypeOK
    <3> QED
      BY <3>1, <3>2 DEF Step
  <2>2. PICK d \in KeyRow(p) : TRUE
    BY <2>1, <1>f DEF RememberedRows
  <2>3. Fingerprint(d) # Fingerprint(p)
    BY <2>1, <2>2, <1>f, SameFingerprintSameTxn DEF KeyRow, RowsTogether, TxnRow
  <2> QED
    BY <2>2, <2>3, <1>f DEF RowsStay, KeyRow
<1> QED
  BY <1>1, <1>2 DEF RecoverAlwaysExplains
-----------------------------------------------------------------------------
(* A request that arrives knows nothing, holds nothing and changes no row.   *)
LEMMA SubmitInvariant ==
  ASSUME IInv, NEW p \in Requests, NEW r \in Asks, Submit(p, r)
  PROVE  IInv'
<1> DEFINE Ask == <<OrgOf[r.client], r.ext, r.body>>
<1>t. TypeOK /\ RowsTogether /\ SettledRows /\ AnswersHonest /\ LocksExclusive
  BY DEF IInv
<1>1. /\ pc[p] = "idle" /\ pc'[p] \in {"noModel", "findKey", "getExisting"}
      /\ settled'[p] = {d \in decisions : Fingerprint(d) = Ask}
      /\ req'[p] = r
      /\ UNCHANGED <<opensCase, found, answer, decisions, idempotency, cases, outbox>>
      /\ \A q \in Requests \ {p} : /\ pc'[q] = pc[q] /\ req'[q] = req[q]
                                   /\ settled'[q] = settled[q]
  BY <1>t DEF Submit, TypeOK, tables
<1>2. p \notin decisions /\ p \notin idempotency
  BY <1>1, <1>t DEF RowsTogether
<1>3. \A q \in Requests \ {p} : /\ Txn(q)' = Txn(q) /\ Fingerprint(q)' = Fingerprint(q)
                                /\ \A s \in Requests \ {p} : SameKey(q, s)' = SameKey(q, s)
                                /\ HoldsTxn(q)' = HoldsTxn(q) /\ HoldsKey(q)' = HoldsKey(q)
  BY <1>1 DEF Txn, Fingerprint, SameKey, HoldsTxn, HoldsKey
<1>4. \A q \in Requests \ {p} : TxnRow(q)' = TxnRow(q) /\ KeyRow(q)' = KeyRow(q)
  BY <1>1, <1>2, <1>3, <1>t DEF TxnRow, KeyRow, TypeOK
<1>5. ~HoldsTxn(p)' /\ ~HoldsKey(p)' /\ Fingerprint(p)' = Ask
  <2>1. ~HoldsTxn(p)' /\ ~HoldsKey(p)'
    BY <1>1 DEF HoldsTxn, HoldsKey
  <2>2. Fingerprint(p)' = Ask
    BY <1>1 DEF Fingerprint
  <2> QED
    BY <2>1, <2>2
<1>6. answer[p].status = "none"
  BY <1>1, <1>t DEF AnswersHonest
<1>7. decisions \subseteq Requests \ {p} /\ idempotency \subseteq Requests \ {p}
  BY <1>2, <1>t DEF TypeOK
<1>8. TypeOK'
  BY TypeCorrect, <1>t DEF Next
<1>9. DecidedOnce'
  BY <1>1, <1>3, <1>7 DEF DecidedOnce, IInv
<1>10. LocksExclusive'
  BY <1>3, <1>4, <1>5, <1>t DEF LocksExclusive
<1>11. RowsTogether'
  BY <1>1, <1>7, <1>t DEF RowsTogether
<1>12. RememberedRows'
  BY <1>1, <1>3, <1>4, <1>7 DEF RememberedRows, IInv
<1>13. AnswersHonest'
  BY <1>1, <1>6, <1>t DEF AnswersHonest
<1>14. AcknowledgedIsDurable'
  BY <1>1, <1>3, <1>6, <1>7 DEF AcknowledgedIsDurable, Accepted, IInv
<1>15. ConflictHasCause'
  BY <1>1, <1>3, <1>6, <1>7 DEF ConflictHasCause, IInv
<1>16. SettledRows'
  BY <1>1, <1>3, <1>5, <1>7, <1>t DEF SettledRows
<1>17. RetryNeverRescored'
  BY <1>1, <1>6 DEF RetryNeverRescored, IInv
<1>18. RecoverAlwaysExplains'
  BY <1>1, <1>3, <1>4, <1>7, <1>t DEF RecoverAlwaysExplains, IInv, KeyRow
<1> QED
  BY <1>8, <1>9, <1>10, <1>11, <1>12, <1>13, <1>14, <1>15, <1>16, <1>17, <1>18 DEF IInv
-----------------------------------------------------------------------------
LEMMA NextInvariant == IInv /\ [Next]_vars => IInv'
<1> SUFFICES ASSUME IInv, [Next]_vars PROVE IInv'
  OBVIOUS
<1>1. ASSUME NEW p \in Requests, NEW r \in Asks, Submit(p, r) PROVE IInv'
  BY <1>1, SubmitInvariant
<1>2. ASSUME NEW p \in Requests, Step(p) PROVE IInv'
  <2>1. TypeOK'
    BY <1>2, TypeCorrect DEF IInv, Step, Next
  <2> QED
    BY <1>2, <2>1, DecidedOnceStep, RowsTogetherStep, LocksExclusiveStep,
       RememberedRowsStep, AnswersStep, SettledRowsStep, RetryNeverRescoredStep,
       RecoverAlwaysExplainsStep
       DEF IInv
<1>3. CASE UNCHANGED vars
  BY <1>3
     DEF vars, tables, IInv, TypeOK, DecidedOnce, LocksExclusive, RowsTogether,
         RememberedRows, AnswersHonest, AcknowledgedIsDurable, ConflictHasCause,
         SettledRows, RetryNeverRescored, RecoverAlwaysExplains, HoldsTxn, HoldsKey,
         TxnRow, KeyRow, Txn, Fingerprint, SameKey, Accepted
<1> QED
  BY <1>1, <1>2, <1>3 DEF Next, Step

(* The inductive invariant holds in every reachable state.                    *)
THEOREM Invariant == Spec => []IInv
<1>1. Init => IInv
  BY InitInvariant
<1>2. IInv /\ [Next]_vars => IInv'
  BY NextInvariant
<1> QED
  BY <1>1, <1>2, PTL DEF Spec

(* The state of every request and table keeps the shape the code gives it.   *)
THEOREM TypeCorrectness == Spec => []TypeOK
BY Invariant, PTL DEF IInv

(* However many requests race, retry and fail, a transaction is decided once  *)
(* and a scoped key records one request.                                      *)
THEOREM UniqueDecisions == Spec => []DecidedOnce
BY Invariant, PTL DEF IInv

(* Every 200 answer, fresh or replayed, names a committed decision of exactly *)
(* the data that was sent, with its outbox event and its case.                *)
THEOREM DurableAcknowledgement == Spec => []AcknowledgedIsDurable
BY Invariant, PTL DEF IInv

(* Equal canonical requests are never told of different decisions, and only   *)
(* one of them is told it created it.                                         *)
THEOREM IdempotentAnswers == Spec => []SameRequestSameDecision
<1>1. IInv => SameRequestSameDecision
  <2> SUFFICES ASSUME IInv, NEW p \in Requests, NEW q \in Requests,
                      Accepted(p), Accepted(q), Fingerprint(p) = Fingerprint(q)
               PROVE  /\ answer[p].decision = answer[q].decision
                      /\ p # q => ~(answer[p].status = "created" /\ answer[q].status = "created")
    BY DEF SameRequestSameDecision
  <2>1. PICK d \in decisions : answer[p].decision = {d} /\ Fingerprint(d) = Fingerprint(p)
    BY DEF IInv, AcknowledgedIsDurable
  <2>2. PICK e \in decisions : answer[q].decision = {e} /\ Fingerprint(e) = Fingerprint(q)
    BY DEF IInv, AcknowledgedIsDurable
  <2>3. d = e
    BY <2>1, <2>2, SameFingerprintSameTxn DEF IInv, DecidedOnce
  <2>4. /\ answer[p].status = "created" => answer[p].decision = {p}
        /\ answer[q].status = "created" => answer[q].decision = {q}
    BY DEF IInv, AnswersHonest
  <2> QED
    BY <2>1, <2>2, <2>3, <2>4
<1> QED
  BY <1>1, Invariant, PTL

(* A 409 always has a committed row that contradicts the request.             *)
THEOREM HonestConflicts == Spec => []ConflictHasCause
BY Invariant, PTL DEF IInv

(* A request that arrives after its decision was committed is never scored     *)
(* again.                                                                      *)
THEOREM SafeRetries == Spec => []RetryNeverRescored
BY Invariant, PTL DEF IInv

(* persist's final re-raise is unreachable.                                    *)
THEOREM RecoveryIsComplete == Spec => []RecoverAlwaysExplains
BY Invariant, PTL DEF IInv
-----------------------------------------------------------------------------
(* Why a request is shown a decision or refused: for a row of its own tenant. *)
HomeMade ==
  \A p \in Requests :
    /\ ~Accepted(p) => answer[p].decision = {}
    /\ answer[p].status = "replay" => p \notin answer[p].decision
    /\ ~Faults /\ answer[p].status = "INTERNAL_ERROR" =>
         \E d \in decisions \ {p} : Txn(d) = Txn(p) \/ SameKey(d, p)

(* A request that is not answered from its own row has not committed one, so   *)
(* the row that stands in its way is another's.                                *)
LEMMA AnswerHomeMade ==
  ASSUME IInv, NEW p \in Requests, Step(p), answer' # answer
  PROVE  /\ answer'[p].status \notin {"created", "replay"} => answer'[p].decision = {}
         /\ answer'[p].status = "replay" => p \notin answer'[p].decision
         /\ ~Faults /\ answer'[p].status = "INTERNAL_ERROR" =>
              \E d \in decisions \ {p} : Txn(d) = Txn(p) \/ SameKey(d, p)
<1>t. TypeOK /\ RowsTogether /\ RememberedRows /\ RecoverAlwaysExplains
  BY DEF IInv
<1> USE <1>t DEF Respond, TypeOK
<1>1. CASE RefuseWithoutModel(p) \/ KeyTaken(p)
  BY <1>1 DEF RefuseWithoutModel, KeyTaken, Problem
<1>2. CASE ReplayBound(p)
  <2>1. PICK d \in decisions : Respond(p, Replay(d))
    BY <1>2 DEF ReplayBound
  <2>2. p \notin decisions
    BY <1>2 DEF ReplayBound, RowsTogether
  <2> QED
    BY <2>1, <2>2 DEF Replay
<1>3. CASE MatchFingerprint(p)
  <2>1. p \notin found[p]
    BY <1>3 DEF MatchFingerprint, RowsTogether, RememberedRows
  <2> QED
    BY <1>3, <2>1 DEF MatchFingerprint, Replay, Problem
<1>4. CASE InsertDuplicate(p)
  <2>1. p \notin decisions
    BY <1>4 DEF InsertDuplicate, RowsTogether
  <2>2. \E d \in decisions \ {p} : Txn(d) = Txn(p)
    BY <1>4, <2>1 DEF InsertDuplicate, TxnRow
  <2> QED
    BY <1>4, <2>2 DEF InsertDuplicate, Problem
<1>5. CASE FlushCaseDuplicateKey(p)
  <2>1. p \notin decisions
    BY <1>5 DEF FlushCaseDuplicateKey, RowsTogether
  <2>2. \E d \in decisions \ {p} : SameKey(d, p)
    BY <1>5, <2>1 DEF FlushCaseDuplicateKey, KeyRow, RowsTogether
  <2> QED
    BY <1>5, <2>2 DEF FlushCaseDuplicateKey, Problem
<1>6. CASE Recover(p)
  <2>1. PICK d \in TxnRow(p) :
          Respond(p, IF Fingerprint(d) = Fingerprint(p) THEN Replay(d)
                     ELSE Problem("EXTERNAL_TRANSACTION_CONFLICT"))
    BY <1>6 DEF Recover
  <2>2. d # p
    BY <1>6 DEF Recover, RowsTogether, TxnRow
  <2> QED
    BY <2>1, <2>2 DEF Replay, Problem
<1>7. CASE RecoverKey(p)
  BY <1>7 DEF RecoverKey, RecoverAlwaysExplains, Problem
<1>8. CASE Refresh(p)
  BY <1>8 DEF Refresh, Created
<1>9. CASE DependencyFails(p)
  BY <1>9 DEF DependencyFails, Problem
<1>10. CASE \/ KeyUnused(p) \/ KeyBound(p) \/ GetExisting(p) \/ ReadContext(p)
            \/ InsertDecision(p) \/ FlushCase(p) \/ CommitWithCase(p) \/ CommitAllow(p)
            \/ CommitDuplicateKey(p) \/ FastPath(p) \/ Crash(p)
  BY <1>10 DEF KeyUnused, KeyBound, GetExisting, ReadContext, InsertDecision,
               FlushCase, CommitWithCase, CommitAllow, CommitDuplicateKey, FastPath, Crash
<1> QED
  BY <1>1, <1>2, <1>3, <1>4, <1>5, <1>6, <1>7, <1>8, <1>9, <1>10 DEF Step, Score

LEMMA HomeMadeNext == IInv /\ HomeMade /\ [Next]_vars => HomeMade'
<1> SUFFICES ASSUME IInv, HomeMade, [Next]_vars PROVE HomeMade'
  OBVIOUS
<1>1. ASSUME NEW p \in Requests, NEW r \in Asks, Submit(p, r) PROVE HomeMade'
  <2>1. /\ answer' = answer /\ decisions' = decisions
        /\ pc[p] = "idle" /\ req' = [req EXCEPT ![p] = r]
    BY <1>1 DEF Submit, tables
  <2>2. p \notin decisions /\ answer[p].status = "none"
    BY <2>1 DEF IInv, RowsTogether, AnswersHonest
  <2>3. decisions \subseteq Requests /\ req \in [Requests -> Asks \cup {NoRequest}]
    BY DEF IInv, TypeOK
  <2>4. \A q \in Requests \ {p}, d \in decisions :
          Txn(d)' = Txn(d) /\ Txn(q)' = Txn(q) /\ SameKey(d, q)' = SameKey(d, q)
    BY <2>1, <2>2, <2>3 DEF Txn, SameKey
  <2> QED
    BY <2>1, <2>2, <2>4 DEF HomeMade, Accepted
<1>2. ASSUME NEW p \in Requests, Step(p) PROVE HomeMade'
  <2>1. Frame(p) /\ RowsStay
    BY <1>2, StepFrame, StepKeepsRows DEF IInv
  <2>2. \A q \in Requests : answer'[q] = answer[q] =>
          /\ ~Accepted(q)' => answer'[q].decision = {}
          /\ answer'[q].status = "replay" => q \notin answer'[q].decision
          /\ ~Faults /\ answer'[q].status = "INTERNAL_ERROR" =>
               \E d \in decisions' \ {q} : Txn(d)' = Txn(q)' \/ SameKey(d, q)'
    BY <2>1 DEF HomeMade, RowsStay, Accepted
  <2>3. CASE answer' = answer
    BY <2>2, <2>3 DEF HomeMade
  <2>4. CASE answer' # answer
    <3>1. /\ ~Accepted(p)' => answer'[p].decision = {}
          /\ answer'[p].status = "replay" => p \notin answer'[p].decision
          /\ ~Faults /\ answer'[p].status = "INTERNAL_ERROR" =>
               \E d \in decisions' \ {p} : Txn(d)' = Txn(p)' \/ SameKey(d, p)'
      BY <1>2, <2>1, <2>4, AnswerHomeMade DEF RowsStay, Accepted
    <3> QED
      BY <2>1, <2>2, <3>1 DEF HomeMade, Frame
  <2> QED
    BY <2>3, <2>4
<1>3. CASE UNCHANGED vars
  BY <1>3 DEF vars, tables, HomeMade, Accepted, Txn, SameKey
<1> QED
  BY <1>1, <1>2, <1>3 DEF Next, Step

(* No request is refused, fails or is shown a decision for what a client of    *)
(* another organization sent, although they choose the same ids and keys.      *)
THEOREM TenantsApart == Spec => []TenantsAreSeparate
<1>1. Init => HomeMade
  BY DEF Init, HomeMade, Silent, Accepted
<1>2. IInv /\ HomeMade => TenantsAreSeparate
  <2> SUFFICES ASSUME IInv, HomeMade, NEW p \in Requests, req[p] # NoRequest
               PROVE
    LET Tenant(q) == OrgOf[req[q].client]
        others == {q \in Requests \ {p} : req[q] # NoRequest /\ Tenant(q) = Tenant(p)}
    IN /\ \A d \in answer[p].decision : Tenant(d) = Tenant(p)
       /\ others = {} => answer[p].status \in
            {"none", "created", "SCORING_DEPENDENCY_UNAVAILABLE"}
              \cup IF Faults THEN {"INTERNAL_ERROR"} ELSE {}
    BY DEF TenantsAreSeparate
  <2> DEFINE Tenant(q) == OrgOf[req[q].client]
             Other(q) == q \in Requests \ {p} /\ req[q] # NoRequest /\ Tenant(q) = Tenant(p)
  <2>t. /\ TypeOK /\ RowsTogether /\ AcknowledgedIsDurable /\ ConflictHasCause
    BY DEF IInv
  <2>1. ASSUME NEW d \in answer[p].decision PROVE Tenant(d) = Tenant(p)
    BY <2>t DEF HomeMade, AcknowledgedIsDurable, Fingerprint
  <2>2. ASSUME NEW d \in decisions \ {p}, Txn(d) = Txn(p) \/ SameKey(d, p)
        PROVE  Other(d)
    <3>1. d \in Requests /\ req[d] # NoRequest
      BY <2>t DEF TypeOK, RowsTogether
    <3>2. Tenant(d) = Tenant(p)
      BY <2>2 DEF Txn, SameKey
    <3> QED
      BY <3>1, <3>2
  <2>3. answer[p].status \in {"IDEMPOTENCY_CONFLICT", "EXTERNAL_TRANSACTION_CONFLICT"}
          => \E q : Other(q)
    BY <2>2, <2>t DEF ConflictHasCause, RowsTogether
  <2>4. answer[p].status = "replay" => \E q : Other(q)
    <3>1. SUFFICES ASSUME answer[p].status = "replay" PROVE \E q : Other(q)
      OBVIOUS
    <3>2. PICK d \in decisions : answer[p].decision = {d} /\ Fingerprint(d) = Fingerprint(p)
      BY <3>1, <2>t DEF AcknowledgedIsDurable, Accepted
    <3>3. d # p
      BY <3>1, <3>2 DEF HomeMade
    <3> QED
      BY <2>2, <3>2, <3>3, SameFingerprintSameTxn
  <2>5. ~Faults /\ answer[p].status = "INTERNAL_ERROR" => \E q : Other(q)
    BY <2>2 DEF HomeMade
  <2>6. answer[p].status \in {"none", "created", "replay"} \cup ProblemCodes
    BY <2>t DEF TypeOK, Answers
  <2> QED
    BY <2>1, <2>3, <2>4, <2>5, <2>6 DEF ProblemCodes
<1> QED
  BY <1>1, <1>2, HomeMadeNext, InitInvariant, NextInvariant, PTL DEF Spec
-----------------------------------------------------------------------------
(* Without faults, a request answered 500 lost a race: another request of the  *)
(* same transaction or key was committed, and not before this one arrived if   *)
(* it asked the same.                                                          *)
ErrorsOnlyOfRaces ==
  ~Faults =>
    \A p \in Requests : answer[p].status = "INTERNAL_ERROR" =>
      /\ settled[p] = {}
      /\ \E d \in decisions \ {p} : Txn(d) = Txn(p) \/ SameKey(d, p)

(* The steps that answer 500 come after the look-ups, which a request whose    *)
(* decision was there on arrival never passes.                                 *)
LEMMA ErrorsAreUnsettled ==
  ASSUME ~Faults, IInv, NEW p \in Requests, Step(p), answer' # answer,
         answer'[p].status = "INTERNAL_ERROR"
  PROVE  settled[p] = {}
<1>1. pc[p] \in {"insert", "insertKey", "recover", "recoverKey"}
  BY DEF IInv, TypeOK, Respond, Problem, Replay, Created, Step, Score, RefuseWithoutModel,
         KeyUnused, KeyTaken, KeyBound, ReplayBound, GetExisting, MatchFingerprint,
         ReadContext, InsertDecision, InsertDuplicate, FlushCase, FlushCaseDuplicateKey,
         CommitWithCase, CommitAllow, CommitDuplicateKey, Recover, RecoverKey, FastPath,
         Refresh, DependencyFails, Crash, Goto
<1> QED
  BY <1>1 DEF IInv, RetryNeverRescored

(* What remains of docs/API.md:28 for concurrent duplicates: persist's flushes *)
(* let the loser of a race fail, and nobody else.                              *)
THEOREM OnlyRacesFail == Spec => []ErrorsOnlyOfRaces
<1> DEFINE Unsettled == ~Faults => \A p \in Requests :
                          answer[p].status = "INTERNAL_ERROR" => settled[p] = {}
<1>1. Init => Unsettled /\ HomeMade
  BY DEF Init, HomeMade, Silent, Accepted
<1>2. IInv /\ Unsettled /\ [Next]_vars => Unsettled'
  <2> SUFFICES ASSUME ~Faults, IInv, Unsettled, Next PROVE Unsettled'
    BY DEF vars
  <2>1. ASSUME NEW p \in Requests, NEW r \in Asks, Submit(p, r) PROVE Unsettled'
    <3>1. answer[p].status = "none"
      BY <2>1 DEF Submit, IInv, AnswersHonest
    <3> QED
      BY <2>1, <3>1 DEF Submit
  <2>2. ASSUME NEW p \in Requests, Step(p) PROVE Unsettled'
    <3>1. Frame(p)
      BY <2>2, StepFrame DEF IInv
    <3>2. answer' # answer /\ answer'[p].status = "INTERNAL_ERROR" => settled[p] = {}
      BY <2>2, ErrorsAreUnsettled
    <3> QED
      BY <3>1, <3>2 DEF Frame
  <2> QED
    BY <2>1, <2>2 DEF Next, Step
<1>3. HomeMade /\ Unsettled => ErrorsOnlyOfRaces
  BY DEF HomeMade, ErrorsOnlyOfRaces
<1> QED
  BY <1>1, <1>2, <1>3, HomeMadeNext, InitInvariant, NextInvariant, PTL DEF Spec
-----------------------------------------------------------------------------
(* A key that has been recorded.  Request q uses it for other data.            *)
Misuses(q, p) == SameKey(q, p) /\ Fingerprint(q) # Fingerprint(p)

(* Key row p is committed, and q has not come yet, or not past its look-up.    *)
Bound(q, p) ==
  /\ p \in idempotency
  /\ \/ pc[q] = "idle"
     \/ Misuses(q, p) => pc[q] \in {"noModel", "findKey", "done"} /\ ~Accepted(q)

LEMMA BoundStep ==
  ASSUME IInv, NEW p \in Requests, NEW q \in Requests, Bound(q, p), Next
  PROVE  Bound(q, p)'
<1>t. TypeOK /\ DecidedOnce /\ RowsTogether /\ AnswersHonest
  BY DEF IInv
<1>1. ASSUME NEW x \in Requests, NEW r \in Asks, Submit(x, r) PROVE Bound(q, p)'
  <2>1. p \in idempotency' /\ x # p /\ req'[p] = req[p]
    BY <1>1, <1>t DEF Submit, tables, Bound, RowsTogether, TypeOK
  <2>2. CASE x = q
    <3>1. req'[q] = r /\ pc'[q] \in {"noModel", "findKey", "getExisting"} /\ ~Accepted(q)'
      BY <1>1, <1>t, <2>2 DEF Submit, TypeOK, AnswersHonest, Accepted
    <3>2. pc'[q] = "getExisting" => r.key = NoKey
      BY <1>1, <1>t, <2>2 DEF Submit, TypeOK
    <3> QED
      BY <2>1, <3>1, <3>2 DEF Bound, Misuses, SameKey
  <2>3. CASE x # q
    <3>1. req'[q] = req[q] /\ pc'[q] = pc[q] /\ answer'[q] = answer[q]
      BY <1>1, <1>t, <2>3 DEF Submit, TypeOK
    <3> QED
      BY <2>1, <3>1 DEF Bound, Misuses, SameKey, Fingerprint, Accepted
  <2> QED
    BY <2>2, <2>3
<1>2. ASSUME NEW x \in Requests, Step(x) PROVE Bound(q, p)'
  <2>1. Frame(x) /\ RowsStay
    BY <1>2, <1>t, StepFrame, StepKeepsRows
  <2>2. p \in idempotency' /\ (Misuses(q, p)' <=> Misuses(q, p))
    BY <2>1 DEF Bound, RowsStay, Misuses
  <2>3. CASE x # q \/ ~Misuses(q, p)
    BY <2>1, <2>2, <2>3 DEF Frame, Bound, Accepted
  <2>4. CASE x = q /\ Misuses(q, p)
    <3>1. pc[q] \in {"noModel", "findKey"} /\ ~Accepted(q)
      BY <2>1, <2>4 DEF Frame, Bound
    <3>2. p \in KeyRow(q) /\ \A d \in KeyRow(q) : d = p
      BY <1>t, <2>4 DEF Bound, Misuses, KeyRow, SameKey, DecidedOnce
    <3>3. pc'[q] = "done" /\ ~Accepted(q)'
      BY <1>2, <1>t, <2>4, <3>1, <3>2
         DEF Misuses, Accepted, TypeOK, Step, Score, Goto, Respond, Problem, RefuseWithoutModel,
             KeyUnused, KeyTaken, KeyBound, ReplayBound, GetExisting, MatchFingerprint,
             ReadContext, InsertDecision, InsertDuplicate, FlushCase, FlushCaseDuplicateKey,
             CommitWithCase, CommitAllow, CommitDuplicateKey, Recover, RecoverKey, FastPath,
             Refresh, DependencyFails, Crash
    <3> QED
      BY <2>2, <3>3 DEF Bound
  <2> QED
    BY <2>3, <2>4
<1> QED
  BY <1>1, <1>2 DEF Next, Step

(* What remains of docs/API.md:28-29 although a replay leaves its key          *)
(* unrecorded: once a decision was created under a key, no request that comes  *)
(* later with that key and another payload is ever accepted.                   *)
THEOREM RecordedKeysBind ==
  ASSUME NEW p \in Requests, NEW q \in Requests
  PROVE  Spec => [](p \in idempotency /\ pc[q] = "idle" => [](Misuses(q, p) => ~Accepted(q)))
<1>1. p \in idempotency /\ pc[q] = "idle" => Bound(q, p)
  BY DEF Bound
<1>2. IInv /\ Bound(q, p) /\ [Next]_vars => Bound(q, p)'
  <2>1. UNCHANGED vars /\ Bound(q, p) => Bound(q, p)'
    BY DEF vars, tables, Bound, Misuses, SameKey, Fingerprint, Accepted
  <2> QED
    BY <2>1, BoundStep
<1>3. IInv /\ Bound(q, p) => (Misuses(q, p) => ~Accepted(q))
  BY DEF IInv, AnswersHonest, Accepted, Bound
<1> QED
  BY <1>1, <1>2, <1>3, Invariant, PTL DEF Spec
-----------------------------------------------------------------------------
(* The order of the inserts: a decision's row waits for a transaction that     *)
(* holds one, whose key row may wait for a transaction that only has to        *)
(* commit, which waits for nobody.                                             *)
LEMMA WaitsAreOrdered ==
  ASSUME NEW p \in Requests, NEW q \in Requests, WaitsFor(p, q)
  PROVE  /\ pc[p] \in {"insert", "insertKey"}
         /\ pc[q] \in {"insertKey", "commit"}
         /\ pc[p] = "insertKey" => pc[q] = "commit"
BY DEF WaitsFor, HoldsTxn, HoldsKey

(* What a request read earlier is still there when a later step needs it.      *)
LEMMA RowsAtHand ==
  ASSUME IInv, NEW p \in Requests
  PROVE  /\ pc[p] = "replayBound" => \E d \in decisions, k \in found[p] : Txn(d) = Txn(k)
         /\ pc[p] = "match" => TxnRow(p) # {} /\ found[p] # {}
         /\ pc[p] = "refresh" => TxnRow(p) # {}
<1> USE DEF IInv
<1>1. ASSUME pc[p] = "replayBound"
      PROVE  \E d \in decisions, k \in found[p] : Txn(d) = Txn(k)
  BY <1>1 DEF RememberedRows
<1>2. ASSUME pc[p] = "match" PROVE TxnRow(p) # {} /\ found[p] # {}
  BY <1>2 DEF RememberedRows, TxnRow
<1>3. ASSUME pc[p] = "refresh" PROVE TxnRow(p) # {}
  BY <1>3 DEF RowsTogether, TxnRow
<1> QED
  BY <1>1, <1>2, <1>3

(* A request that waits for nobody can go on.                                  *)
LEMMA UnhinderedSteps ==
  ASSUME IInv, NEW p \in Requests, pc[p] \notin {"idle", "done"},
         \A q \in Requests : ~WaitsFor(p, q)
  PROVE  CanStep(p)
BY RowsAtHand DEF CanStep

(* persist inserts the decision before the key, in every request, so the       *)
(* transactions never wait in a circle; and no row that was read goes away.    *)
THEOREM NoCircularWait == Spec => []NobodyStuck
<1>1. IInv => NobodyStuck
  <2> SUFFICES ASSUME IInv, NEW p \in Requests, pc[p] \notin {"idle", "done"}
               PROVE  \/ CanStep(p)
                      \/ \E q \in Requests :
                           /\ WaitsFor(p, q)
                           /\ CanStep(q) \/ \E r \in Requests : WaitsFor(q, r) /\ CanStep(r)
    BY DEF NobodyStuck
  <2>1. CASE \A q \in Requests : ~WaitsFor(p, q)
    BY <2>1, UnhinderedSteps
  <2>2. ASSUME NEW q \in Requests, WaitsFor(p, q)
        PROVE  CanStep(q) \/ \E r \in Requests : WaitsFor(q, r) /\ CanStep(r)
    <3>1. pc[q] \in {"insertKey", "commit"}
      BY <2>2, WaitsAreOrdered
    <3>2. CASE \A r \in Requests : ~WaitsFor(q, r)
      BY <3>1, <3>2, UnhinderedSteps
    <3>3. ASSUME NEW r \in Requests, WaitsFor(q, r) PROVE CanStep(r)
      <4>1. pc[r] = "commit"
        BY <3>1, <3>3, WaitsAreOrdered
      <4>2. \A s \in Requests : ~WaitsFor(r, s)
        BY <4>1, WaitsAreOrdered
      <4> QED
        BY <4>1, <4>2, UnhinderedSteps
    <3> QED
      BY <3>2, <3>3
  <2> QED
    BY <2>1, <2>2
<1> QED
  BY <1>1, Invariant, PTL
-----------------------------------------------------------------------------
(* What the callers see of one answer.                                         *)
LEMMA ReplyOf ==
  ASSUME IInv, NEW p \in Requests
  PROVE  /\ LedgerReply[p] = Ledger!Unanswered <=> answer[p].status = "none"
         /\ \A d \in decisions : Accepted(p) /\ answer[p].decision = {d}
              => LedgerReply[p] = Ledger!Accepted(d)
         /\ answer[p].status \in {"IDEMPOTENCY_CONFLICT", "EXTERNAL_TRANSACTION_CONFLICT"}
              => LedgerReply[p] = Ledger!Refused
         /\ answer[p].status \in {"SCORING_DEPENDENCY_UNAVAILABLE", "INTERNAL_ERROR"}
              => LedgerReply[p] = Ledger!Failed
<1>1. answer[p].status \in {"none", "created", "replay"} \cup ProblemCodes
  BY DEF IInv, TypeOK, Answers
<1>2. CASE Accepted(p)
  <2>1. PICK d \in decisions : answer[p].decision = {d}
    BY <1>2 DEF IInv, AcknowledgedIsDurable
  <2>2. DecisionOf(answer[p]) = d
    BY <2>1 DEF IInv, TypeOK, DecisionOf
  <2>3. LedgerReply[p] = [kind |-> "accepted", decision |-> d]
    BY <1>2, <2>2 DEF LedgerReply, Accepted
  <2>4. LedgerReply[p].kind = "accepted"
    BY <2>3
  <2> QED
    BY <1>2, <2>1, <2>3, <2>4 DEF Ledger!Unanswered, Ledger!Accepted, Accepted
<1>3. CASE ~Accepted(p)
  BY <1>1, <1>3
     DEF LedgerReply, Accepted, ProblemCodes, Ledger!Unanswered, Ledger!Refused, Ledger!Failed
<1> QED
  BY <1>2, <1>3

LEMMA LedgerInit == Init => Ledger!Init
<1> SUFFICES ASSUME Init PROVE Ledger!Init
  OBVIOUS
<1>1. \A p \in Requests : LedgerReply[p] = Ledger!Unanswered
  BY InitInvariant, ReplyOf DEF Init, Silent
<1>2. LedgerReply = [p \in Requests |-> Ledger!Unanswered]
  BY <1>1 DEF LedgerReply
<1> QED
  BY <1>2 DEF Init, Ledger!Init, Ledger!Unanswered

(* A request arrives.                                                          *)
LEMMA LedgerAsk ==
  ASSUME IInv, NEW p \in Requests, NEW r \in Asks, Submit(p, r)
  PROVE  Ledger!Ask(p, r)
<1>1. /\ req[p] = NoRequest /\ req' = [req EXCEPT ![p] = r]
      /\ UNCHANGED <<decisions, answer>>
  BY DEF Submit, IInv, TypeOK, tables
<1>2. LedgerReply' = LedgerReply
  BY <1>1 DEF LedgerReply, Accepted
<1> QED
  BY <1>1, <1>2 DEF Ledger!Ask

(* A step that answers nobody commits at most the request's own decision.      *)
LEMMA LedgerDecide ==
  ASSUME IInv, NEW p \in Requests, Step(p), answer' = answer
  PROVE  Ledger!Decide(p) \/ UNCHANGED Ledger!ledgerVars
<1>f. Frame(p) /\ TypeOK /\ AnswersHonest /\ RowsTogether
  BY StepFrame DEF IInv
<1>1. LedgerReply' = LedgerReply
  BY DEF LedgerReply, Accepted
<1>2. CASE UNCHANGED tables
  BY <1>1, <1>2, <1>f DEF Frame, tables, Ledger!ledgerVars
<1>3. CASE CommitWithCase(p) \/ CommitAllow(p)
  <2>1. Ledger!Open(p)
    <3>1. req[p] # NoRequest /\ answer[p].status = "none"
      BY <1>f DEF Frame, TypeOK, AnswersHonest
    <3> QED
      BY <3>1, ReplyOf DEF Ledger!Open
  <2>2. ASSUME NEW d \in decisions
        PROVE  /\ Ledger!Txn(req[d]) # Ledger!Txn(req[p])
               /\ ~Ledger!SameKey(req[d], req[p])
    <3>1. Txn(d) # Txn(p) /\ (d \in idempotency => ~SameKey(d, p))
      BY <1>3, CommitFrame DEF TxnRow, KeyRow
    <3>2. req[d].key # NoKey => d \in idempotency
      BY <1>f DEF RowsTogether
    <3> QED
      BY <3>1, <3>2 DEF Txn, SameKey, Ledger!Txn, Ledger!SameKey
  <2>3. decisions' = decisions \cup {p} /\ req' = req
    BY <1>3, <1>f, CommitFrame DEF CommitRows, Frame
  <2> QED
    BY <1>1, <2>1, <2>2, <2>3 DEF Ledger!Decide
<1> QED
  BY <1>2, <1>3, <1>f DEF Frame

(* A step that answers is an answer the ledger allows.                         *)
LEMMA LedgerAnswer ==
  ASSUME IInv, IInv', NEW p \in Requests, Step(p),
         answer' = [answer EXCEPT ![p] = answer'[p]], UNCHANGED tables,
         Justified(p, answer'[p])
  PROVE  \E d \in Requests :
           \/ d \in decisions /\ (Ledger!Accept(p, d) \/ Ledger!Refuse(p, d))
           \/ Ledger!Fail(p)
<1>f. Frame(p) /\ TypeOK /\ TypeOK' /\ AnswersHonest /\ RowsTogether /\ RowsStay
  BY StepFrame, StepKeepsRows DEF IInv
<1>1. Ledger!Open(p)
  <2>1. req[p] # NoRequest /\ answer[p].status = "none"
    BY <1>f DEF Frame, TypeOK, AnswersHonest
  <2> QED
    BY <2>1, ReplyOf DEF Ledger!Open
<1>2. LedgerReply' = [LedgerReply EXCEPT ![p] = LedgerReply'[p]]
  <2>1. \A q \in Requests \ {p} : LedgerReply'[q] = LedgerReply[q]
    BY <1>f DEF LedgerReply, Accepted, TypeOK
  <2>2. LedgerReply = [q \in Requests |-> LedgerReply[q]]
    BY DEF LedgerReply
  <2>3. LedgerReply' = [q \in Requests |-> LedgerReply'[q]]
    BY DEF LedgerReply
  <2> QED
    BY <2>1, <2>2, <2>3
<1>3. req' = req /\ decisions' = decisions
  BY <1>f DEF Frame, tables
<1>4. ASSUME NEW d \in decisions, Accepted(p)', answer'[p].decision = {d},
             Fingerprint(d) = Fingerprint(p)
      PROVE  Ledger!Accept(p, d)
  <2>1. LedgerReply'[p] = Ledger!Accepted(d)
    <3>1. DecisionOf(answer'[p]) = d
      BY <1>4, <1>f DEF DecisionOf, TypeOK
    <3> QED
      BY <1>4, <3>1 DEF LedgerReply, Accepted, Ledger!Accepted
  <2> QED
    BY <1>1, <1>2, <1>3, <1>4, <2>1 DEF Ledger!Accept, Fingerprint, Ledger!Fingerprint
<1>5. ASSUME NEW d \in decisions, Txn(d) = Txn(p) \/ SameKey(d, p),
             Fingerprint(d) # Fingerprint(p),
             answer'[p].status \in {"IDEMPOTENCY_CONFLICT", "EXTERNAL_TRANSACTION_CONFLICT"}
      PROVE  Ledger!Refuse(p, d)
  <2>1. LedgerReply'[p] = Ledger!Refused
    BY <1>5 DEF LedgerReply, Accepted, Ledger!Refused
  <2> QED
    BY <1>1, <1>2, <1>3, <1>5, <2>1
       DEF Ledger!Refuse, Fingerprint, Ledger!Fingerprint, Txn, Ledger!Txn,
           SameKey, Ledger!SameKey
<1>6. ASSUME answer'[p].status \in {"SCORING_DEPENDENCY_UNAVAILABLE", "INTERNAL_ERROR"}
      PROVE  Ledger!Fail(p)
  <2>1. LedgerReply'[p] = Ledger!Failed
    BY <1>6 DEF LedgerReply, Accepted, Ledger!Failed
  <2> QED
    BY <1>1, <1>2, <1>3, <2>1 DEF Ledger!Fail
<1>7. answer'[p].status \in {"none", "created", "replay"} \cup ProblemCodes
  BY <1>f DEF TypeOK, Answers
<1>8. decisions \subseteq Requests /\ idempotency \subseteq decisions
  BY <1>f DEF TypeOK, RowsTogether
<1>9. CASE answer'[p].status = "created"
  <2>1. p \in decisions /\ answer'[p].decision = {p}
    BY <1>9, JustifiedByStatus
  <2> QED
    BY <1>4, <1>8, <1>9, <2>1 DEF Accepted
<1>10. CASE answer'[p].status = "replay"
  BY <1>4, <1>8, <1>10, JustifiedByStatus DEF Accepted
<1>11. CASE answer'[p].status \in {"IDEMPOTENCY_CONFLICT", "EXTERNAL_TRANSACTION_CONFLICT"}
  BY <1>5, <1>8, <1>11, JustifiedByStatus
<1> QED
  BY <1>6, <1>7, <1>9, <1>10, <1>11, JustifiedByStatus DEF ProblemCodes

(* What a caller can see of scoring, whatever its interleavings and failures,  *)
(* is a ledger that decides each transaction at most once.                     *)
THEOREM ScoringImplementsLedger == Spec => LedgerSpec
<1>1. Init => Ledger!Init
  BY LedgerInit
<1>2. IInv /\ IInv' /\ [Next]_vars => [Ledger!Next]_(Ledger!ledgerVars)
  <2> SUFFICES ASSUME IInv, IInv', [Next]_vars
               PROVE  Ledger!Next \/ UNCHANGED Ledger!ledgerVars
    OBVIOUS
  <2>1. ASSUME NEW p \in Requests, NEW r \in Asks, Submit(p, r) PROVE Ledger!Next
    BY <2>1, LedgerAsk DEF Ledger!Next, Asks, Ledger!Asks
  <2>2. ASSUME NEW p \in Requests, Step(p)
        PROVE  Ledger!Next \/ UNCHANGED Ledger!ledgerVars
    <3>1. CASE answer' = answer
      BY <2>2, <3>1, LedgerDecide DEF Ledger!Next
    <3>2. CASE /\ answer' = [answer EXCEPT ![p] = answer'[p]]
               /\ UNCHANGED tables /\ Justified(p, answer'[p])
      BY <2>2, <3>2, LedgerAnswer DEF Ledger!Next
    <3> QED
      BY <2>2, <3>1, <3>2, AnswersJustified
  <2>3. CASE UNCHANGED vars
    BY <2>3 DEF vars, tables, Ledger!ledgerVars, LedgerReply, Accepted
  <2> QED
    BY <2>1, <2>2, <2>3 DEF Next, Step
<1> QED
  BY <1>1, <1>2, Invariant, PTL DEF Spec, LedgerSpec, Ledger!Spec
-----------------------------------------------------------------------------
(* What has been decided or answered, and no later step may take back.         *)
LedgerKept ==
  /\ decisions \subseteq decisions' /\ idempotency \subseteq idempotency'
  /\ \A d \in decisions : Fingerprint(d)' = Fingerprint(d) /\ opensCase'[d] = opensCase[d]
  /\ \A p \in Requests : answer[p].status # "none" => answer'[p] = answer[p]

(* A decision and its key are never dropped or changed, whichever transaction  *)
(* rolls back, and no request is answered twice.                               *)
THEOREM DecisionsAreFinal == Spec => [][LedgerKept]_vars
<1>1. IInv /\ [Next]_vars => [LedgerKept]_vars
  <2> SUFFICES ASSUME IInv, Next PROVE LedgerKept
    OBVIOUS
  <2>t. TypeOK /\ RowsTogether /\ AnswersHonest
    BY DEF IInv
  <2>1. ASSUME NEW p \in Requests, NEW r \in Asks, Submit(p, r) PROVE LedgerKept
    <3>1. p \notin decisions /\ \A d \in decisions : req'[d] = req[d]
      BY <2>1, <2>t DEF Submit, RowsTogether, TypeOK
    <3> QED
      BY <2>1, <3>1 DEF Submit, tables, LedgerKept, Fingerprint
  <2>2. ASSUME NEW p \in Requests, Step(p) PROVE LedgerKept
    <3>1. Frame(p) /\ RowsStay
      BY <2>2, <2>t, StepFrame, StepKeepsRows
    <3>2. answer[p].status = "none"
      BY <2>t, <3>1 DEF Frame, AnswersHonest
    <3>3. \A d \in decisions : opensCase'[d] = opensCase[d]
      BY <2>t, <3>1 DEF Frame, RowsTogether, TypeOK
    <3> QED
      BY <2>t, <3>1, <3>2, <3>3 DEF LedgerKept, RowsStay, Frame, TypeOK
  <2> QED
    BY <2>1, <2>2 DEF Next, Step
<1> QED
  BY <1>1, Invariant, PTL DEF Spec
=============================================================================
