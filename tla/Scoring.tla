------------------------------- MODULE Scoring -------------------------------
(***************************************************************************)
(* Idempotent scoring: FraudScoringService.score and                        *)
(* DecisionRepository.persist as run by concurrent HTTP requests of one or  *)
(* more API processes against one PostgreSQL database.                      *)
(*                                                                          *)
(* A request is a process; every await that reads or writes the database or *)
(* the feature store is a step of its own.  A request creates at most one   *)
(* decision, so a decision is named by the request that created it and the  *)
(* content of its rows is what that request asked.  Rows that are inserted  *)
(* but not committed are implied by pc (HoldsTxn, HoldsKey): another insert *)
(* of the same unique key waits for them, as in PostgreSQL.                 *)
(***************************************************************************)
EXTENDS Naturals, FiniteSets

CONSTANTS Requests, Clients, Keys, NoKey, ExternalIds, Bodies, OrgOf, NoRequest,
          Faults     \* whether a call to the database or to Redis may fail

ASSUME NoKeyAssumption == NoKey \notin Keys
ASSUME NoRequestAssumption ==
  NoRequest \notin [client: Clients, key: Keys \cup {NoKey},
                    ext: ExternalIds, body: Bodies]
ASSUME FaultsAssumption == Faults \in BOOLEAN

VARIABLES pc,          \* where each request is in score / persist
          req,         \* the request body, key and authenticated client
          opensCase,   \* the recommendation is REVIEW or BLOCK, not ALLOW
          found,       \* row read earlier and used by a later step, {} or {d}
          answer,      \* HTTP answer
          decisions,   \* committed TransactionDecision rows
          idempotency, \* committed IdempotencyRecord rows
          cases,       \* committed RiskCase rows
          outbox,      \* committed OutboxEvent rows
          bundle,      \* whether the model artifact was loaded at start-up
          settled      \* history: decisions of the same fingerprint, on arrival

vars == <<pc, req, opensCase, found, answer, decisions, idempotency, cases, outbox,
          bundle, settled>>
tables == <<decisions, idempotency, cases, outbox>>

Asks == [client: Clients, key: Keys \cup {NoKey}, ext: ExternalIds, body: Bodies]
Steps == {"idle", "noModel", "findKey", "replayBound", "getExisting", "match",
          "context", "insert", "insertKey", "commit", "recover", "recoverKey",
          "fastPath", "refresh", "done"}

(* Mutant of Txn: the unique constraint forgets the organization.           *)
TxnOfAnyTenant(p) == <<req[p].ext>>

(* The unique key of TransactionDecision, request_fingerprint, and the      *)
(* unique key of IdempotencyRecord.                                         *)
Txn(p) == <<OrgOf[req[p].client], req[p].ext>>
Fingerprint(p) == <<OrgOf[req[p].client], req[p].ext, req[p].body>>
SameKey(p, q) == /\ req[p].key # NoKey
                 /\ req[p].key = req[q].key
                 /\ req[p].client = req[q].client

Silent == [status |-> "none", decision |-> {}]
Created(p) == [status |-> "created", decision |-> {p}]
Replay(d) == [status |-> "replay", decision |-> {d}]
Problem(code) == [status |-> code, decision |-> {}]
ProblemCodes == {"IDEMPOTENCY_CONFLICT", "EXTERNAL_TRANSACTION_CONFLICT",
                 "SCORING_DEPENDENCY_UNAVAILABLE", "INTERNAL_ERROR"}

Init ==
  /\ pc = [p \in Requests |-> "idle"]
  /\ req = [p \in Requests |-> NoRequest]
  /\ opensCase = [p \in Requests |-> FALSE]
  /\ found = [p \in Requests |-> {}]
  /\ answer = [p \in Requests |-> Silent]
  /\ decisions = {} /\ idempotency = {} /\ cases = {} /\ outbox = {}
  /\ bundle \in BOOLEAN
  /\ settled = [p \in Requests |-> {}]

Goto(p, from, to) == pc[p] = from /\ pc' = [pc EXCEPT ![p] = to]
Respond(p, a) == /\ pc' = [pc EXCEPT ![p] = "done"]
                 /\ answer' = [answer EXCEPT ![p] = a]

(* Mutant of HoldsTxn: the decision's row is not held until the commit.     *)
HoldsTxnBriefly(p) == pc[p] = "insertKey"

(* Mutant of HoldsKey: the key row is inserted before the decision.         *)
HoldsKeyFirst(p) == pc[p] \in {"insert", "insertKey", "commit"} /\ req[p].key # NoKey

(* Row locks of a transaction that is open in persist.  The key row of an   *)
(* ALLOW decision is inserted by the flush inside commit, so it is never    *)
(* visible uncommitted; REVIEW and BLOCK flush it with the case row.        *)
HoldsTxn(p) == pc[p] \in {"insertKey", "commit"}
HoldsKey(p) == pc[p] = "commit" /\ req[p].key # NoKey

TxnRow(p) == {d \in decisions : Txn(d) = Txn(p)}
KeyRow(p) == {d \in idempotency : SameKey(d, p)}
-----------------------------------------------------------------------------
(* score_transaction: the body is validated, the client is authenticated    *)
(* and score starts.                                                        *)
Submit(p, r) ==
  /\ pc[p] = "idle"
  /\ req' = [req EXCEPT ![p] = r]
  /\ pc' = [pc EXCEPT ![p] = IF ~bundle THEN "noModel"
                             ELSE IF r.key # NoKey THEN "findKey" ELSE "getExisting"]
  /\ settled' = [settled EXCEPT ![p] =
                   {d \in decisions : Fingerprint(d) = <<OrgOf[r.client], r.ext, r.body>>}]
  /\ UNCHANGED <<opensCase, found, answer, tables, bundle>>

(* No model artifact: RuntimeError before anything is read, answered 503.   *)
RefuseWithoutModel(p) ==
  /\ pc[p] = "noModel"
  /\ Respond(p, Problem("SCORING_DEPENDENCY_UNAVAILABLE"))
  /\ UNCHANGED <<req, opensCase, found, tables, bundle, settled>>

(* find_idempotency and the test of the fingerprint it returns.             *)
KeyUnused(p) ==
  /\ Goto(p, "findKey", "getExisting")
  /\ KeyRow(p) = {}
  /\ UNCHANGED <<req, opensCase, found, answer, tables, bundle, settled>>

(* Mutant of KeyTaken: any use of a known key is a conflict.                *)
KeyTakenByAny(p) ==
  /\ pc[p] = "findKey"
  /\ KeyRow(p) # {}
  /\ Respond(p, Problem("IDEMPOTENCY_CONFLICT"))
  /\ UNCHANGED <<req, opensCase, found, tables, bundle, settled>>

KeyTaken(p) ==
  /\ pc[p] = "findKey"
  /\ \E d \in KeyRow(p) : Fingerprint(d) # Fingerprint(p)
  /\ Respond(p, Problem("IDEMPOTENCY_CONFLICT"))
  /\ UNCHANGED <<req, opensCase, found, tables, bundle, settled>>

KeyBound(p) ==
  /\ Goto(p, "findKey", "replayBound")
  /\ \E d \in KeyRow(p) : /\ Fingerprint(d) = Fingerprint(p)
                          /\ found' = [found EXCEPT ![p] = {d}]
  /\ UNCHANGED <<req, opensCase, answer, tables, bundle, settled>>

(* The decision the key is bound to is read again by external id and        *)
(* returned; decision rows are never deleted, so the read finds it.         *)
ReplayBound(p) ==
  /\ pc[p] = "replayBound"
  /\ \E d \in decisions : /\ \E k \in found[p] : Txn(d) = Txn(k)
                          /\ Respond(p, Replay(d))
  /\ UNCHANGED <<req, opensCase, found, tables, bundle, settled>>

(* Mutant of GetExisting: a key makes the look-up by external id needless.  *)
GetExistingUnlessKeyed(p) ==
  /\ Goto(p, "getExisting",
          IF TxnRow(p) = {} \/ req[p].key # NoKey THEN "context" ELSE "match")
  /\ found' = [found EXCEPT ![p] = TxnRow(p)]
  /\ UNCHANGED <<req, opensCase, answer, tables, bundle, settled>>

(* repository.get by external id ...                                        *)
GetExisting(p) ==
  /\ Goto(p, "getExisting", IF TxnRow(p) = {} THEN "context" ELSE "match")
  /\ found' = [found EXCEPT ![p] = TxnRow(p)]
  /\ UNCHANGED <<req, opensCase, answer, tables, bundle, settled>>

(* Mutant of MatchFingerprint: the existing decision is returned unseen.    *)
MatchNothing(p) ==
  /\ pc[p] = "match"
  /\ \E existing \in found[p] : Respond(p, Replay(existing))
  /\ UNCHANGED <<req, opensCase, found, tables, bundle, settled>>

(* ... and _fingerprint_matches in a session of its own.  The replay does   *)
(* not record the request's own key.                                        *)
MatchFingerprint(p) ==
  /\ pc[p] = "match"
  /\ \E d \in TxnRow(p), existing \in found[p] :
        Respond(p, IF Fingerprint(d) = Fingerprint(p) THEN Replay(existing)
                            ELSE Problem("EXTERNAL_TRANSACTION_CONFLICT"))
  /\ UNCHANGED <<req, opensCase, found, tables, bundle, settled>>

(* store.context, the features and policy.decide.  What the model says      *)
(* depends on the history read, so any recommendation is possible.          *)
ReadContext(p) ==
  /\ Goto(p, "context", "insert")
  /\ \E b \in BOOLEAN : opensCase' = [opensCase EXCEPT ![p] = b]
  /\ UNCHANGED <<req, found, answer, tables, bundle, settled>>
-----------------------------------------------------------------------------
(* Mutant of InsertDecision: no unique constraint on the transaction.       *)
InsertUnconstrained(p) ==
  /\ Goto(p, "insert", "insertKey")
  /\ UNCHANGED <<req, opensCase, found, answer, tables, bundle, settled>>

(* Mutant of InsertDuplicate: the database error is the answer.             *)
InsertDuplicateLeaks(p) ==
  /\ pc[p] = "insert"
  /\ TxnRow(p) # {}
  /\ Respond(p, Problem("IntegrityError"))
  /\ UNCHANGED <<req, opensCase, found, tables, bundle, settled>>

(* persist: insert the decision and flush.  The flush waits for an          *)
(* uncommitted row of the same transaction.  It is outside the try block,   *)
(* so a violation escapes as an unhandled IntegrityError: 500.              *)
InsertDecision(p) ==
  /\ Goto(p, "insert", "insertKey")
  /\ \A q \in Requests : HoldsTxn(q) => Txn(q) # Txn(p)
  /\ TxnRow(p) = {}
  /\ UNCHANGED <<req, opensCase, found, answer, tables, bundle, settled>>

InsertDuplicate(p) ==
  /\ pc[p] = "insert"
  /\ TxnRow(p) # {}
  /\ Respond(p, Problem("INTERNAL_ERROR"))
  /\ UNCHANGED <<req, opensCase, found, tables, bundle, settled>>

(* Mutant of KeyFree: an insert does not wait for an uncommitted key row.   *)
KeyAlwaysFree(p) == TRUE

KeyFree(p) == \A q \in Requests \ {p} : HoldsKey(q) => ~SameKey(q, p)

(* REVIEW and BLOCK: the case row is flushed, and with it the idempotency,  *)
(* outbox and audit rows, again outside the try block.                      *)
FlushCase(p) ==
  /\ Goto(p, "insertKey", "commit")
  /\ opensCase[p]
  /\ KeyFree(p) /\ KeyRow(p) = {}
  /\ UNCHANGED <<req, opensCase, found, answer, tables, bundle, settled>>

FlushCaseDuplicateKey(p) ==
  /\ pc[p] = "insertKey"
  /\ opensCase[p]
  /\ KeyRow(p) # {}
  /\ Respond(p, Problem("INTERNAL_ERROR"))
  /\ UNCHANGED <<req, opensCase, found, tables, bundle, settled>>

CommitRows(p) ==
  /\ decisions' = decisions \cup {p}
  /\ idempotency' = IF req[p].key # NoKey THEN idempotency \cup {p} ELSE idempotency
  /\ outbox' = outbox \cup {p}
  /\ cases' = IF opensCase[p] THEN cases \cup {p} ELSE cases

CommitWithCase(p) ==
  /\ Goto(p, "commit", "fastPath")
  /\ CommitRows(p)
  /\ UNCHANGED <<req, opensCase, found, answer, bundle, settled>>

(* ALLOW: commit flushes the idempotency, outbox and audit rows itself,     *)
(* inside the try block.                                                    *)
CommitAllow(p) ==
  /\ Goto(p, "insertKey", "fastPath")
  /\ ~opensCase[p]
  /\ KeyFree(p) /\ KeyRow(p) = {}
  /\ CommitRows(p)
  /\ UNCHANGED <<req, opensCase, found, answer, bundle, settled>>

(* Mutant of CommitDuplicateKey: an uncommitted key row already violates.   *)
CommitKeyInUse(p) ==
  /\ Goto(p, "insertKey", "recover")
  /\ ~opensCase[p]
  /\ KeyRow(p) # {} \/ ~KeyFree(p)
  /\ UNCHANGED <<req, opensCase, found, answer, tables, bundle, settled>>

CommitDuplicateKey(p) ==
  /\ Goto(p, "insertKey", "recover")
  /\ ~opensCase[p]
  /\ KeyRow(p) # {}
  /\ UNCHANGED <<req, opensCase, found, answer, tables, bundle, settled>>

(* except IntegrityError: after the rollback the transaction is looked up   *)
(* again: another request may have decided it meanwhile.                    *)
Recover(p) ==
  /\ pc[p] = "recover"
  /\ \/ /\ TxnRow(p) = {}
        /\ Goto(p, "recover", "recoverKey")
        /\ UNCHANGED answer
     \/ \E d \in TxnRow(p) :
           Respond(p, IF Fingerprint(d) = Fingerprint(p) THEN Replay(d)
                                 ELSE Problem("EXTERNAL_TRANSACTION_CONFLICT"))
  /\ UNCHANGED <<req, opensCase, found, tables, bundle, settled>>

(* ... then the key; if it does not explain the violation, it is re-raised. *)
RecoverKey(p) ==
  /\ pc[p] = "recoverKey"
  /\ Respond(p,
             IF \E d \in KeyRow(p) : Fingerprint(d) # Fingerprint(p)
             THEN Problem("IDEMPOTENCY_CONFLICT") ELSE Problem("INTERNAL_ERROR"))
  /\ UNCHANGED <<req, opensCase, found, tables, bundle, settled>>
-----------------------------------------------------------------------------
(* score after persist: process_outbox(limit=1), which works on the oldest  *)
(* event whoever wrote it (module Outbox), and the record is read again.    *)
FastPath(p) ==
  /\ Goto(p, "fastPath", "refresh")
  /\ UNCHANGED <<req, opensCase, found, answer, tables, bundle, settled>>

Refresh(p) ==
  /\ pc[p] = "refresh"
  /\ \E d \in TxnRow(p) : Respond(p, Created(d))
  /\ UNCHANGED <<req, opensCase, found, tables, bundle, settled>>

Awaiting == Steps \ {"idle", "noModel", "done"}

(* An awaited call raises anything but the two conflicts and RuntimeError:  *)
(* the session rolls back and the middleware answers 500.  A COMMIT that    *)
(* took effect but lost its answer is a commit followed by this step.       *)
DependencyFails(p) ==
  /\ Faults
  /\ pc[p] \in Awaiting
  /\ Respond(p, Problem("INTERNAL_ERROR"))
  /\ UNCHANGED <<req, opensCase, found, tables, bundle, settled>>

(* The API process dies, or the client is gone: no answer arrives, and the  *)
(* database rolls back what was not committed.                              *)
Crash(p) ==
  /\ Faults
  /\ pc[p] \in Awaiting
  /\ Goto(p, pc[p], "done")
  /\ UNCHANGED <<req, opensCase, found, answer, tables, bundle, settled>>
-----------------------------------------------------------------------------
Score(p) ==
  \/ RefuseWithoutModel(p)
  \/ KeyUnused(p) \/ KeyTaken(p) \/ KeyBound(p) \/ ReplayBound(p)
  \/ GetExisting(p) \/ MatchFingerprint(p)
  \/ ReadContext(p)
  \/ InsertDecision(p) \/ InsertDuplicate(p)
  \/ FlushCase(p) \/ FlushCaseDuplicateKey(p) \/ CommitWithCase(p)
  \/ CommitAllow(p) \/ CommitDuplicateKey(p)
  \/ Recover(p) \/ RecoverKey(p)
  \/ FastPath(p) \/ Refresh(p)

Next ==
  \E p \in Requests :
     \/ \E r \in Asks : Submit(p, r)
     \/ Score(p)
     \/ DependencyFails(p)
     \/ Crash(p)

Spec == Init /\ [][Next]_vars

(* The event loop and the database run every started request; nothing       *)
(* makes a client send one, and nothing makes a fault happen.               *)
FairSpec == Spec /\ \A p \in Requests : WF_vars(Score(p))
-----------------------------------------------------------------------------
Answers ==
  [status: {"none", "created", "replay"} \cup ProblemCodes,
   decision: {{}} \cup {{d} : d \in Requests}]

(* The state of every request and table has the shape the code gives it.    *)
TypeOK ==
  /\ pc \in [Requests -> Steps]
  /\ req \in [Requests -> Asks \cup {NoRequest}]
  /\ \A p \in Requests : req[p] = NoRequest <=> pc[p] = "idle"
  /\ opensCase \in [Requests -> BOOLEAN]
  /\ found \in [Requests -> SUBSET Requests]
  /\ answer \in [Requests -> Answers]
  /\ decisions \subseteq Requests /\ idempotency \subseteq Requests
  /\ cases \subseteq Requests /\ outbox \subseteq Requests
  /\ bundle \in BOOLEAN
  /\ settled \in [Requests -> SUBSET Requests]

Accepted(p) == answer[p].status \in {"created", "replay"}

(* Two 200 answers for the same canonical request name the same decision,   *)
(* however the requests raced, whatever keys they carried and whatever       *)
(* failed in between; at most one of them says it was created.               *)
SameRequestSameDecision ==
  \A p, q \in Requests :
    /\ Accepted(p) /\ Accepted(q) /\ Fingerprint(p) = Fingerprint(q)
    => /\ answer[p].decision = answer[q].decision
       /\ p # q => ~(answer[p].status = "created" /\ answer[q].status = "created")

(* A 200 answer names a committed decision of exactly the data the caller   *)
(* sent, with its outbox event and, unless allowed, its case: an             *)
(* acknowledged score is durable and complete.                               *)
AcknowledgedIsDurable ==
  \A p \in Requests : Accepted(p) =>
    \E d \in decisions : /\ answer[p].decision = {d}
                         /\ Fingerprint(d) = Fingerprint(p)
                         /\ d \in outbox
                         /\ opensCase[d] => d \in cases

(* A transaction is decided once and a key records one request: the two      *)
(* unique constraints hold between what the racing transactions commit.      *)
DecidedOnce ==
  /\ \A d, e \in decisions : d # e => Txn(d) # Txn(e)
  /\ \A d, e \in idempotency : d # e => ~SameKey(d, e)

(* A 409 is never spurious: something committed contradicts the request.     *)
ConflictHasCause ==
  \A p \in Requests :
    /\ answer[p].status = "IDEMPOTENCY_CONFLICT" =>
         \E d \in idempotency : SameKey(d, p) /\ Fingerprint(d) # Fingerprint(p)
    /\ answer[p].status = "EXTERNAL_TRANSACTION_CONFLICT" =>
         \E d \in decisions : Txn(d) = Txn(p) /\ Fingerprint(d) # Fingerprint(p)

(* A request that arrives after its decision was committed, e.g. a retry      *)
(* after a lost answer or a 500, is never scored again: it is answered with   *)
(* that decision, unless its key already belongs to other data.               *)
RetryNeverRescored ==
  \A p \in Requests : settled[p] # {} =>
    /\ pc[p] \in {"noModel", "findKey", "replayBound", "getExisting", "match", "done"}
    /\ answer[p].status \notin {"created", "EXTERNAL_TRANSACTION_CONFLICT"}
    /\ answer[p].status = "replay" => answer[p].decision = settled[p]

(* The violation caught in persist's except block is always explained by the  *)
(* transaction or by the key: the final re-raise is never reached.            *)
RecoverAlwaysExplains ==
  \A p \in Requests : pc[p] = "recoverKey" =>
    \E d \in KeyRow(p) : Fingerprint(d) # Fingerprint(p)

(* A tenant is never refused, and never shown a decision, because of what     *)
(* another tenant submitted under the same external ids and keys.             *)
TenantsAreSeparate ==
  \A p \in Requests : req[p] # NoRequest =>
    LET Tenant(q) == OrgOf[req[q].client]
        others == {q \in Requests \ {p} : req[q] # NoRequest /\ Tenant(q) = Tenant(p)}
    IN /\ \A d \in answer[p].decision : Tenant(d) = Tenant(p)
       /\ others = {} => answer[p].status \in
            {"none", "created", "SCORING_DEPENDENCY_UNAVAILABLE"}
              \cup IF Faults THEN {"INTERNAL_ERROR"} ELSE {}

(* The insert of p waits for the end of the transaction of q.                 *)
WaitsFor(p, q) ==
  \/ /\ pc[p] = "insert" /\ TxnRow(p) = {}
     /\ HoldsTxn(q) /\ Txn(q) = Txn(p)
  \/ /\ pc[p] = "insertKey" /\ KeyRow(p) = {}
     /\ q # p /\ HoldsKey(q) /\ SameKey(q, p)

(* The rows the next step of p needs are there, and no insert is in its way.  *)
CanStep(p) ==
  /\ pc[p] \notin {"idle", "done"}
  /\ pc[p] = "replayBound" => \E d \in decisions, k \in found[p] : Txn(d) = Txn(k)
  /\ pc[p] = "match" => TxnRow(p) # {} /\ found[p] # {}
  /\ pc[p] = "refresh" => TxnRow(p) # {}
  /\ \A q \in Requests : ~WaitsFor(p, q)

(* No transactions wait for each other in a circle, which PostgreSQL would    *)
(* break with an error, and nobody waits for a row that cannot come: whoever  *)
(* waits, waits for one that can go on, or whose own wait ends at such a one. *)
NobodyStuck ==
  \A p \in Requests : pc[p] \notin {"idle", "done"} =>
    \/ CanStep(p)
    \/ \E q \in Requests : /\ WaitsFor(p, q)
                           /\ CanStep(q) \/ \E r \in Requests : WaitsFor(q, r) /\ CanStep(r)

(* Every request that starts is answered or lost, however it waits for the    *)
(* uncommitted rows of others: the order of the inserts excludes deadlock.    *)
EveryRequestEnds ==
  \A p \in Requests : pc[p] # "idle" ~> pc[p] = "done"

(* docs/API.md:28: "The same scoped key and payload returns the original      *)
(* decision": without a failing dependency no duplicate gets a 500.           *)
DuplicatesGetAnAnswer ==
  \A p \in Requests : answer[p].status # "INTERNAL_ERROR"

(* docs/API.md:28: "the same key with a different payload returns 409          *)
(* IDEMPOTENCY_CONFLICT": two 200 answers under one scoped key are for the     *)
(* same payload.                                                               *)
KeyAcceptsOnePayload ==
  \A p, q \in Requests :
    Accepted(p) /\ Accepted(q) /\ SameKey(p, q) => Fingerprint(p) = Fingerprint(q)
-----------------------------------------------------------------------------
(* What the callers see is the ledger of module ScoreLedger.                  *)
DecisionOf(a) == CHOOSE d \in Requests : a.decision = {d}

LedgerReply ==
  [p \in Requests |->
     CASE Accepted(p) -> [kind |-> "accepted", decision |-> DecisionOf(answer[p])]
       [] answer[p].status \in {"IDEMPOTENCY_CONFLICT",
                                "EXTERNAL_TRANSACTION_CONFLICT"} -> [kind |-> "refused"]
       [] answer[p].status \in {"SCORING_DEPENDENCY_UNAVAILABLE",
                                "INTERNAL_ERROR"} -> [kind |-> "failed"]
       [] OTHER -> [kind |-> "none"]]

Ledger == INSTANCE ScoreLedger WITH asked <- req, decided <- decisions,
                                    reply <- LedgerReply

(* Scoring implements the ledger: every step of score and persist is a step    *)
(* of the ledger or changes nothing a caller can see.                          *)
LedgerSpec == Ledger!Spec
=============================================================================
