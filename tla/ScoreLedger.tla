----------------------------- MODULE ScoreLedger -----------------------------
(***************************************************************************)
(* What POST /api/v1/transactions/score promises its callers, with none of  *)
(* the steps it takes: a ledger in which the transaction named by an        *)
(* (organization, external id) pair is decided at most once, in which an    *)
(* idempotency key decides at most one request, and whose only answers are  *)
(* "here is the decision of exactly this request", "this conflicts with     *)
(* something already decided" and "no answer".  Module Scoring implements   *)
(* it (Scoring!LedgerSpec).                                                 *)
(***************************************************************************)
CONSTANTS Requests,    \* the HTTP requests, each answered at most once
          Clients,     \* api_key_id or subject of the caller
          Keys,        \* values of the Idempotency-Key header
          NoKey,       \* the header is absent or empty
          ExternalIds, \* transaction_id values chosen by the customer
          Bodies,      \* the other meaningful fields of a transaction
          OrgOf,       \* the organization a client is authenticated for
          NoRequest    \* no request has arrived

VARIABLES asked,    \* what each request asks, or NoRequest
          decided,  \* the requests that decided their transaction
          reply     \* what each request was answered

ledgerVars == <<asked, decided, reply>>

Asks == [client: Clients, key: Keys \cup {NoKey}, ext: ExternalIds, body: Bodies]

Txn(r) == <<OrgOf[r.client], r.ext>>
Fingerprint(r) == <<OrgOf[r.client], r.ext, r.body>>
SameKey(r, s) == r.key # NoKey /\ r.key = s.key /\ r.client = s.client

Unanswered == [kind |-> "none"]
Accepted(d) == [kind |-> "accepted", decision |-> d]
Refused == [kind |-> "refused"]
Failed == [kind |-> "failed"]

Init ==
  /\ asked = [p \in Requests |-> NoRequest]
  /\ decided = {}
  /\ reply = [p \in Requests |-> Unanswered]

Ask(p, r) ==
  /\ asked[p] = NoRequest
  /\ asked' = [asked EXCEPT ![p] = r]
  /\ UNCHANGED <<decided, reply>>

Open(p) == asked[p] # NoRequest /\ reply[p] = Unanswered

(* A request decides its transaction only if nothing has decided it, and    *)
(* only under a key that has decided nothing.                               *)
Decide(p) ==
  /\ Open(p)
  /\ \A d \in decided : /\ Txn(asked[d]) # Txn(asked[p])
                        /\ ~SameKey(asked[d], asked[p])
  /\ decided' = decided \cup {p}
  /\ UNCHANGED <<asked, reply>>

Accept(p, d) ==
  /\ Open(p)
  /\ Fingerprint(asked[d]) = Fingerprint(asked[p])
  /\ reply' = [reply EXCEPT ![p] = Accepted(d)]
  /\ UNCHANGED <<asked, decided>>

(* A request is refused only for a decision it really contradicts.          *)
Refuse(p, d) ==
  /\ Open(p)
  /\ Fingerprint(asked[d]) # Fingerprint(asked[p])
  /\ Txn(asked[d]) = Txn(asked[p]) \/ SameKey(asked[d], asked[p])
  /\ reply' = [reply EXCEPT ![p] = Refused]
  /\ UNCHANGED <<asked, decided>>

(* The promise does not exclude failure: a failed request may or may not    *)
(* have decided its transaction.                                            *)
Fail(p) ==
  /\ Open(p)
  /\ reply' = [reply EXCEPT ![p] = Failed]
  /\ UNCHANGED <<asked, decided>>

Next ==
  \E p \in Requests :
     \/ \E r \in Asks : Ask(p, r)
     \/ Decide(p)
     \/ \E d \in decided : Accept(p, d) \/ Refuse(p, d)
     \/ Fail(p)

Spec == Init /\ [][Next]_ledgerVars
=============================================================================
