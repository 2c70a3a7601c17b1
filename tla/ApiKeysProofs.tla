----------------------------- MODULE ApiKeysProofs -----------------------------
(***************************************************************************)
(* Proofs about module ApiKeys for any number of requests, keys and         *)
(* organizations, any roles and scopes, and any time.                       *)
(***************************************************************************)
EXTENDS ApiKeys, TLAPS

Exists(k) == keys[k] # Nobody

(* A revoked key is in the audit trail, and only existing keys are revoked. *)
Revocations ==
  /\ \A k \in Prefixes : Exists(k) /\ keys[k].revoked => k \in audit
  /\ \A k \in acknowledged : Exists(k) /\ keys[k].revoked /\ k \in audit
  /\ \A k \in Prefixes : /\ revokers[k] # {} => Exists(k)
                         /\ \A o \in revokers[k] : o = keys[k].organization

(* A key created with a key is of its organization and within its scopes.   *)
Descent ==
  \A k \in Prefixes : Exists(k) /\ parent[k] # NoKey =>
    /\ Exists(parent[k])
    /\ keys[k].organization = keys[parent[k]].organization
    /\ keys[k].permissions \subseteq keys[parent[k]].permissions

(* The key that a request presents was alive when the request came.         *)
Alive(p) ==
  /\ Exists(via[p])
  /\ via[p] \notin arrival[p].revoked
  /\ keys[via[p]].expires > arrival[p].time

(* What a request read of its key is still so, but for its revocation.      *)
Looking(p) ==
  /\ pc[p] \in {"lookup", "check", "touch"} => /\ via[p] \in Prefixes
                                               /\ arrival[p].time <= now
                                               /\ arrival[p].revoked \subseteq acknowledged
  /\ pc[p] \in {"check", "touch"} /\ record[p] # Nobody =>
       /\ Exists(via[p])
       /\ record[p].organization = keys[via[p]].organization
       /\ record[p].permissions = keys[via[p]].permissions
       /\ record[p].expires = keys[via[p]].expires
       /\ ~record[p].revoked => via[p] \notin arrival[p].revoked
  /\ pc[p] = "touch" => record[p] # Nobody /\ Alive(p)

Acting(p) ==
  /\ pc[p] = "idle" => via[p] = NoKey
  /\ pc[p] \in Identified /\ via[p] # NoKey =>
       /\ Alive(p)
       /\ principal[p].organization = keys[via[p]].organization
       /\ principal[p].permissions = keys[via[p]].permissions
  /\ pc[p] = "commitRevoke" =>
       /\ target[p] \in Prefixes /\ Exists(target[p])
       /\ keys[target[p]].organization = principal[p].organization
  /\ pc[p] \in {"create", "revoke", "commitRevoke"} => Allows(p, "integration.manage")

IInv ==
  /\ TypeOK
  /\ Revocations
  /\ Descent
  /\ \A p \in Requests : Looking(p) /\ Acting(p)
-----------------------------------------------------------------------------
Step(p) == Handle(p) \/ DependencyFails(p)

(* What one step may do to one key: create it, or revoke it.                *)
Kept(k) == /\ keys'[k] # Nobody
           /\ keys'[k].organization = keys[k].organization
           /\ keys'[k].permissions = keys[k].permissions
           /\ keys'[k].expires = keys[k].expires
           /\ keys[k].revoked => keys'[k].revoked
           /\ parent'[k] = parent[k]

LEMMA InitInvariant == Init => IInv
<1> SUFFICES ASSUME Init PROVE IInv
  OBVIOUS
<1> USE BoundsAssumption, NobodyAssumption, NamesAssumption DEF Init
<1>1. TypeOK
  BY DEF TypeOK, Times, Start, Identified, Admitted
<1>2. Revocations /\ Descent
  BY DEF Revocations, Descent, Exists
<1>3. \A p \in Requests : Looking(p) /\ Acting(p)
  BY DEF Looking, Acting, Identified, Admitted
<1> QED
  BY <1>1, <1>2, <1>3 DEF IInv

(* The steps that touch no table.                                           *)
Reads(p) ==
  \/ OidcPrincipal(p) \/ PresentKey(p) \/ ApiKeyByPrefix(p) \/ Unauthenticated(p)
  \/ Authenticated(p) \/ Touch(p) \/ Authorized(p) \/ PermissionDenied(p) \/ Serve(p)
  \/ KeyNotCreated(p) \/ KeyNotFound(p) \/ AlreadyRevoked(p) \/ LoadKey(p)
  \/ \E from \in {"lookup", "touch", "create", "revoke", "commitRevoke"} :
       Respond(p, from) /\ UNCHANGED <<now, tables, acknowledged>>

LEMMA StepKinds ==
  ASSUME NEW p \in Requests, Step(p)
  PROVE  \/ Reads(p) /\ UNCHANGED <<now, tables>>
         \/ CreateApiKey(p)
         \/ /\ Respond(p, "commitRevoke") /\ Revoke(p) /\ UNCHANGED now
            /\ acknowledged' \in {acknowledged, acknowledged \cup {target[p]}}
<1>1. CASE DependencyFails(p)
  <2>1. PICK from \in {"lookup", "touch", "create", "revoke", "commitRevoke"} : Respond(p, from)
    BY <1>1 DEF DependencyFails
  <2>2. UNCHANGED <<now, acknowledged>>
    BY <1>1 DEF DependencyFails
  <2>3. CASE UNCHANGED tables
    BY <2>1, <2>2, <2>3 DEF Reads
  <2>4. CASE pc[p] = "commitRevoke" /\ Revoke(p)
    <3>1. from = "commitRevoke"
      BY <2>1, <2>4 DEF Respond, Goto
    <3> QED
      BY <2>1, <2>2, <2>4, <3>1
  <2>5. CASE pc[p] = "create" /\ InsertKey(p)
    <3>1. from = "create"
      BY <2>1, <2>5 DEF Respond, Goto
    <3> QED
      BY <2>1, <2>2, <2>5, <3>1 DEF CreateApiKey
  <2> QED
    BY <1>1, <2>3, <2>4, <2>5 DEF DependencyFails
<1>2. CASE RevokeApiKey(p)
  BY <1>2 DEF RevokeApiKey
<1>3. CASE Handle(p) /\ ~RevokeApiKey(p) /\ ~CreateApiKey(p)
  <2>1. Reads(p)
    BY <1>3 DEF Handle, Authenticate, Reads
  <2> QED
    BY <1>3, <2>1
       DEF Handle, Authenticate, OidcPrincipal, PresentKey, ApiKeyByPrefix, Unauthenticated,
           Authenticated, Touch, Authorized, PermissionDenied, Serve, KeyNotCreated,
           KeyNotFound, AlreadyRevoked, LoadKey
<1> QED
  BY <1>1, <1>2, <1>3 DEF Step

(* A step of a request leaves the others alone.                             *)
LEMMA OthersUntouched ==
  ASSUME TypeOK, NEW p \in Requests, Step(p), NEW q \in Requests, q # p
  PROVE  /\ pc'[q] = pc[q] /\ via'[q] = via[q] /\ record'[q] = record[q]
         /\ principal'[q] = principal[q] /\ target'[q] = target[q] /\ arrival'[q] = arrival[q]
<1> USE DEF TypeOK, Goto, Respond, locals
<1>1. CASE Reads(p)
  BY <1>1 DEF Reads, OidcPrincipal, PresentKey, ApiKeyByPrefix, Unauthenticated, Authenticated,
              Touch, Authorized, PermissionDenied, Serve, KeyNotCreated, KeyNotFound,
              AlreadyRevoked, LoadKey
<1>2. CASE CreateApiKey(p)
  BY <1>2 DEF CreateApiKey
<1>3. CASE Respond(p, "commitRevoke")
  BY <1>3
<1> QED
  BY <1>1, <1>2, <1>3, StepKinds

(* A step on the table of keys: which row, and how.                         *)
LEMMA CreateEffect ==
  ASSUME TypeOK, NEW p \in Requests, CreateApiKey(p)
  PROVE  \E k \in Prefixes, r \in Keys :
           /\ ~Exists(k) /\ r.organization = principal[p].organization
           /\ r.permissions \subseteq principal[p].permissions /\ ~r.revoked
           /\ keys' = [keys EXCEPT ![k] = r]
           /\ parent' = [parent EXCEPT ![k] = via[p]]
           /\ UNCHANGED <<now, audit, revokers, acknowledged>>
           /\ pc[p] = "create" /\ pc'[p] = "idle"
<1>1. PICK k \in Prefixes, scopes \in SUBSET Scopes, expires \in 0..Never :
        /\ keys[k] = Nobody
        /\ MayGrant(p, scopes)
        /\ keys' = [keys EXCEPT ![k] = [organization |-> principal[p].organization,
                                        permissions |-> scopes,
                                        expires |-> expires, revoked |-> FALSE]]
        /\ parent' = [parent EXCEPT ![k] = via[p]]
  BY DEF CreateApiKey, InsertKey
<1>2. pc[p] = "create" /\ pc'[p] = "idle" /\ UNCHANGED <<now, audit, revokers, acknowledged>>
  BY DEF CreateApiKey, InsertKey, Respond, Goto, TypeOK
<1>3. principal[p].organization \in Organizations
  BY <1>2 DEF TypeOK, Identified, Admitted, Principals
<1> DEFINE r == [organization |-> principal[p].organization, permissions |-> scopes,
                 expires |-> expires, revoked |-> FALSE]
<1>4. r \in Keys
  BY <1>3, RolesAssumption DEF Keys
<1>5. r.permissions \subseteq principal[p].permissions
  BY <1>1 DEF MayGrant
<1> QED
  BY <1>1, <1>2, <1>4, <1>5 DEF Exists

(* A committed revocation changes one column of one row.                    *)
RevokedKey(p, k) ==
  /\ k = target[p] /\ Exists(k) /\ keys[k].organization = principal[p].organization
  /\ principal[p].organization \in Organizations
  /\ keys' \in [Prefixes -> Keys \cup {Nobody}]
  /\ keys'[k] # Nobody /\ keys'[k].revoked
  /\ keys'[k].organization = keys[k].organization
  /\ keys'[k].permissions = keys[k].permissions
  /\ keys'[k].expires = keys[k].expires
  /\ \A x \in Prefixes \ {k} : keys'[x] = keys[x] /\ revokers'[x] = revokers[x]
  /\ audit' = audit \cup {k}
  /\ revokers' \in [Prefixes -> SUBSET Organizations]
  /\ revokers'[k] = revokers[k] \cup {principal[p].organization}
  /\ UNCHANGED parent

LEMMA RevokeEffect ==
  ASSUME IInv, NEW p \in Requests, Respond(p, "commitRevoke"), Revoke(p)
  PROVE  \E k \in Prefixes : RevokedKey(p, k)
<1> DEFINE k == target[p]
<1> DEFINE r == [keys[k] EXCEPT !.revoked = TRUE]
<1>1. pc[p] = "commitRevoke"
  BY DEF Respond, Goto
<1>2. k \in Prefixes /\ Exists(k) /\ keys[k].organization = principal[p].organization
  BY <1>1 DEF IInv, Acting
<1>3. keys[k] \in Keys /\ keys \in [Prefixes -> Keys \cup {Nobody}]
  BY <1>2 DEF IInv, TypeOK, Exists
<1>4. principal[p].organization \in Organizations
  BY <1>2, <1>3 DEF Keys
<1>5. /\ r \in Keys /\ r.revoked /\ r.organization = keys[k].organization
      /\ r.permissions = keys[k].permissions /\ r.expires = keys[k].expires
  BY <1>3 DEF Keys
<1>6. /\ keys' = [keys EXCEPT ![k] = r]
      /\ audit' = audit \cup {k}
      /\ revokers' = [revokers EXCEPT ![k] = @ \cup {principal[p].organization}]
      /\ UNCHANGED parent
  BY DEF Revoke
<1>7. /\ keys' \in [Prefixes -> Keys \cup {Nobody}] /\ keys'[k] = r
      /\ \A x \in Prefixes \ {k} : keys'[x] = keys[x]
  <2> HIDE DEF r
  <2> QED
    BY <1>2, <1>3, <1>5, <1>6
<1>8. /\ revokers' \in [Prefixes -> SUBSET Organizations]
      /\ revokers'[k] = revokers[k] \cup {principal[p].organization}
      /\ \A x \in Prefixes \ {k} : revokers'[x] = revokers[x]
  <2>1. revokers \in [Prefixes -> SUBSET Organizations]
    BY DEF IInv, TypeOK
  <2> HIDE DEF k
  <2> QED
    BY <1>2, <1>4, <1>6, <2>1
<1>9. keys'[k] # Nobody
  <2> HIDE DEF r
  <2> QED
    BY <1>5, <1>7, NobodyAssumption
<1> HIDE DEF r
<1>10. RevokedKey(p, k)
  BY <1>2, <1>4, <1>5, <1>6, <1>7, <1>8, <1>9 DEF RevokedKey
<1> QED
  BY <1>2, <1>10

(* Keys are never changed or deleted, only created and revoked.             *)
LEMMA KeysKept ==
  ASSUME IInv, NEW p \in Requests, Step(p)
  PROVE  /\ \A k \in Prefixes : Exists(k) => Kept(k)
         /\ acknowledged \subseteq acknowledged'
         /\ now' = now
<1> USE NobodyAssumption DEF IInv, TypeOK, Exists, Kept
<1>1. CASE Reads(p) /\ UNCHANGED <<now, tables>>
  <2>1. acknowledged \subseteq acknowledged'
    BY <1>1 DEF Reads, OidcPrincipal, PresentKey, ApiKeyByPrefix, Unauthenticated,
                Authenticated, Touch, Authorized, PermissionDenied, Serve, KeyNotCreated,
                KeyNotFound, AlreadyRevoked, LoadKey
  <2> QED
    BY <1>1, <2>1 DEF tables
<1>2. CASE CreateApiKey(p)
  BY <1>2, CreateEffect
<1>3. CASE /\ Respond(p, "commitRevoke") /\ Revoke(p) /\ UNCHANGED now
           /\ acknowledged' \in {acknowledged, acknowledged \cup {target[p]}}
  <2>1. PICK k \in Prefixes : RevokedKey(p, k)
    BY <1>3, RevokeEffect
  <2> QED
    BY <1>3, <2>1 DEF RevokedKey
<1> QED
  BY <1>1, <1>2, <1>3, StepKinds
-----------------------------------------------------------------------------
LEMMA RespondType ==
  ASSUME TypeOK, NEW p \in Requests, NEW from, Respond(p, from)
  PROVE  /\ pc' \in [Requests -> Identified \cup {"idle", "lookup", "check", "touch"}]
         /\ via' \in [Requests -> Prefixes \cup {NoKey}]
         /\ record' \in [Requests -> Keys \cup {Nobody}]
         /\ principal' \in [Requests -> Principals \cup {Nobody}]
         /\ \A q \in Requests : principal'[q] # Nobody <=> pc'[q] \in Identified
         /\ target' \in [Requests -> Prefixes \cup {NoKey}]
         /\ arrival' \in [Requests -> [time: Times, revoked: SUBSET Prefixes]]
         /\ pc'[p] = "idle" /\ pc[p] = from /\ via'[p] = NoKey
<1>1. Start \in [time: Times, revoked: SUBSET Prefixes]
  BY BoundsAssumption DEF Start, Times
<1> QED
  BY <1>1 DEF TypeOK, Respond, Goto, Identified, Admitted

LEMMA TypeCorrect == ASSUME IInv, NEW p \in Requests, Step(p) PROVE TypeOK'
<1> USE NamesAssumption, NobodyAssumption, BoundsAssumption, RolesAssumption
<1>t. TypeOK
  BY DEF IInv
<1>1. CASE Reads(p) /\ UNCHANGED <<now, tables>>
  <2>1. CASE \E from : Respond(p, from) /\ acknowledged' \in SUBSET Prefixes
    BY <1>1, <1>t, <2>1, RespondType DEF TypeOK, tables
  <2>2. CASE OidcPrincipal(p)
    <3>1. \A o \in Organizations, r \in Roles :
            [organization |-> o, permissions |-> RolePermissions[r]] \in Principals
      BY DEF Principals, RolePermissions, Permissions
    <3> QED
      BY <1>1, <1>t, <2>2, <3>1 DEF OidcPrincipal, Goto, TypeOK, tables, Identified, Admitted
  <2>3. CASE PresentKey(p)
    <3>1. [time |-> now, revoked |-> acknowledged] \in [time: Times, revoked: SUBSET Prefixes]
      BY <1>t DEF TypeOK
    <3> QED
      BY <1>1, <1>t, <2>3, <3>1 DEF PresentKey, Goto, TypeOK, tables, Identified, Admitted
  <2>4. CASE ApiKeyByPrefix(p)
    <3>1. via[p] \in Prefixes
      BY <2>4 DEF ApiKeyByPrefix, Goto, IInv, Looking
    <3> QED
      BY <1>1, <1>t, <2>4, <3>1, SMTT(20)
         DEF ApiKeyByPrefix, Goto, TypeOK, tables, Identified, Admitted
  <2>5. CASE Authenticated(p) \/ Authorized(p)
    <3>1. UNCHANGED <<now, tables, locals, acknowledged>>
      BY <2>5 DEF Authenticated, Authorized
    <3>2. \/ pc[p] = "check" /\ pc' = [pc EXCEPT ![p] = "touch"]
          \/ pc[p] = "authorize" /\ \E to \in {"score", "create", "revoke"} :
                                      pc' = [pc EXCEPT ![p] = to]
      BY <2>5 DEF Authenticated, Authorized, Goto
    <3>3. /\ pc' \in [Requests -> Identified \cup {"idle", "lookup", "check", "touch"}]
          /\ \A q \in Requests : pc'[q] \in Identified <=> pc[q] \in Identified
      BY <1>t, <3>2 DEF TypeOK, Identified, Admitted
    <3> QED
      BY <1>t, <3>1, <3>3 DEF TypeOK, tables, locals
  <2>6. CASE Touch(p)
    <3>1. record[p] \in Keys
      BY <1>t, <2>6 DEF Touch, Goto, IInv, Looking, TypeOK
    <3>2. [organization |-> record[p].organization, permissions |-> record[p].permissions]
            \in Principals
      BY <3>1 DEF Keys, Principals
    <3> QED
      BY <1>1, <1>t, <2>6, <3>2 DEF Touch, Goto, TypeOK, tables, Identified, Admitted
  <2>7. CASE LoadKey(p)
    BY <1>1, <1>t, <2>7 DEF LoadKey, Goto, TypeOK, tables, Identified, Admitted
  <2> QED
    BY <1>1, <1>t, <2>1, <2>2, <2>3, <2>4, <2>5, <2>6, <2>7
       DEF Reads, Unauthenticated, PermissionDenied, Serve, KeyNotCreated, KeyNotFound,
           AlreadyRevoked, TypeOK
<1>2. CASE CreateApiKey(p)
  <2>1. Respond(p, "create")
    BY <1>2 DEF CreateApiKey
  <2>2. /\ keys' \in [Prefixes -> Keys \cup {Nobody}]
        /\ parent' \in [Prefixes -> Prefixes \cup {NoKey}]
        /\ UNCHANGED <<now, audit, revokers, acknowledged>>
    <3>1. PICK k \in Prefixes, r \in Keys :
            /\ keys' = [keys EXCEPT ![k] = r]
            /\ parent' = [parent EXCEPT ![k] = via[p]]
            /\ UNCHANGED <<now, audit, revokers, acknowledged>>
      BY <1>2, <1>t, CreateEffect
    <3> QED
      BY <1>t, <3>1 DEF TypeOK
  <2> QED
    BY <1>t, <2>1, <2>2, RespondType DEF TypeOK
<1>3. CASE /\ Respond(p, "commitRevoke") /\ Revoke(p) /\ UNCHANGED now
           /\ acknowledged' \in {acknowledged, acknowledged \cup {target[p]}}
  <2>1. /\ keys' \in [Prefixes -> Keys \cup {Nobody}]
        /\ audit' \subseteq Prefixes /\ parent' = parent
        /\ revokers' \in [Prefixes -> SUBSET Organizations]
        /\ acknowledged' \subseteq Prefixes
    <3>1. PICK k \in Prefixes : RevokedKey(p, k)
      BY <1>3, RevokeEffect
    <3>2. audit' \subseteq Prefixes /\ acknowledged' \subseteq Prefixes
      BY <1>t, <1>3, <3>1 DEF TypeOK, RevokedKey
    <3> QED
      BY <3>1, <3>2 DEF RevokedKey
  <2> QED
    BY <1>3, <1>t, <2>1, RespondType DEF TypeOK
<1> QED
  BY <1>1, <1>2, <1>3, StepKinds
-----------------------------------------------------------------------------
LEMMA StepRevocations == ASSUME IInv, NEW p \in Requests, Step(p) PROVE Revocations'
<1> USE NobodyAssumption DEF Exists
<1>r. Revocations /\ TypeOK
  BY DEF IInv
<1>1. CASE Reads(p) /\ UNCHANGED <<now, tables>>
  <2>1. UNCHANGED <<keys, audit, revokers>>
    BY <1>1 DEF tables
  <2>2. \A k \in acknowledged' : \/ k \in acknowledged
                                 \/ k \in Prefixes /\ Exists(k) /\ keys[k].revoked
    BY <1>1 DEF Reads, OidcPrincipal, PresentKey, ApiKeyByPrefix, Unauthenticated,
                Authenticated, Touch, Authorized, PermissionDenied, Serve, KeyNotCreated,
                KeyNotFound, AlreadyRevoked, LoadKey, Owned
  <2> QED
    BY <1>r, <2>1, <2>2 DEF Revocations
<1>2. CASE CreateApiKey(p)
  <2>1. PICK k \in Prefixes, r \in Keys :
          /\ ~Exists(k) /\ ~r.revoked /\ keys' = [keys EXCEPT ![k] = r]
          /\ UNCHANGED <<audit, revokers, acknowledged>>
    BY <1>2, <1>r, CreateEffect
  <2>2. keys'[k] = r /\ \A x \in Prefixes \ {k} : keys'[x] = keys[x]
    BY <1>r, <2>1 DEF TypeOK
  <2>3. acknowledged \subseteq Prefixes
    BY <1>r DEF TypeOK
  <2> QED
    BY <1>r, <2>1, <2>2, <2>3 DEF Revocations
<1>3. CASE /\ Respond(p, "commitRevoke") /\ Revoke(p) /\ UNCHANGED now
           /\ acknowledged' \in {acknowledged, acknowledged \cup {target[p]}}
  <2>1. PICK k \in Prefixes : RevokedKey(p, k)
    BY <1>3, RevokeEffect
  <2>6. acknowledged \subseteq Prefixes /\ acknowledged' \subseteq acknowledged \cup {k}
    BY <1>r, <1>3, <2>1 DEF TypeOK, RevokedKey
  <2>7. Revocations /\ k \in Prefixes
    BY <1>r
  <2>8. \A x \in Prefixes : Exists(x)' /\ keys'[x].revoked => x \in audit'
    BY <2>1, <2>7 DEF Revocations, RevokedKey
  <2>9. \A x \in acknowledged' : Exists(x)' /\ keys'[x].revoked /\ x \in audit'
    BY <2>1, <2>6, <2>7 DEF Revocations, RevokedKey
  <2>10. \A x \in Prefixes : /\ revokers'[x] # {} => Exists(x)'
                            /\ \A o \in revokers'[x] : o = keys'[x].organization
    BY <2>1, <2>7 DEF Revocations, RevokedKey
  <2> QED
    BY <2>8, <2>9, <2>10 DEF Revocations
<1> QED
  BY <1>1, <1>2, <1>3, StepKinds

LEMMA StepDescent == ASSUME IInv, NEW p \in Requests, Step(p) PROVE Descent'
<1> USE NobodyAssumption
<1>d. Descent /\ TypeOK
  BY DEF IInv
<1>k. \A k \in Prefixes : Exists(k) => Kept(k)
  BY KeysKept
<1>1. \A k \in Prefixes : Exists(k) /\ parent[k] # NoKey =>
        /\ parent'[k] = parent[k] /\ parent[k] \in Prefixes /\ Exists(parent[k])
        /\ Kept(k) /\ Kept(parent[k])
  <2> SUFFICES ASSUME NEW k \in Prefixes, Exists(k), parent[k] # NoKey
               PROVE  /\ parent'[k] = parent[k] /\ parent[k] \in Prefixes
                      /\ Exists(parent[k]) /\ Kept(k) /\ Kept(parent[k])
    OBVIOUS
  <2>1. parent[k] \in Prefixes /\ Exists(parent[k])
    BY <1>d DEF Descent, TypeOK
  <2>2. Kept(k) /\ Kept(parent[k])
    BY <1>k, <2>1
  <2> QED
    BY <2>1, <2>2 DEF Kept
<1>2. \A k \in Prefixes : Exists(k)' /\ ~Exists(k) /\ parent'[k] # NoKey =>
        /\ via[p] \in Prefixes /\ parent'[k] = via[p] /\ Exists(via[p])
        /\ keys'[k].organization = keys[via[p]].organization
        /\ keys'[k].permissions \subseteq keys[via[p]].permissions
  <2>1. CASE UNCHANGED tables
    BY <2>1 DEF tables, Exists
  <2>2. CASE CreateApiKey(p)
    <3>1. PICK k \in Prefixes, r \in Keys :
           /\ ~Exists(k) /\ r.organization = principal[p].organization
           /\ r.permissions \subseteq principal[p].permissions
           /\ keys' = [keys EXCEPT ![k] = r]
           /\ parent' = [parent EXCEPT ![k] = via[p]]
           /\ pc[p] = "create"
      BY <1>d, <2>2, CreateEffect
    <3>2. keys'[k] = r /\ parent'[k] = via[p] /\ \A x \in Prefixes \ {k} : keys'[x] = keys[x]
      BY <1>d, <3>1 DEF TypeOK
    <3>3. via[p] # NoKey =>
            /\ via[p] \in Prefixes /\ Exists(via[p])
            /\ principal[p].organization = keys[via[p]].organization
            /\ principal[p].permissions = keys[via[p]].permissions
      BY <1>d, <3>1 DEF IInv, Acting, Alive, Identified, Admitted, TypeOK
    <3> QED
      BY <3>1, <3>2, <3>3 DEF Exists
  <2>3. CASE Respond(p, "commitRevoke") /\ Revoke(p)
    <3>1. PICK k \in Prefixes : RevokedKey(p, k)
      BY <2>3, RevokeEffect
    <3> QED
      BY <3>1 DEF RevokedKey, Exists
  <2> QED
    BY <2>1, <2>2, <2>3, StepKinds
<1>3. \A k \in Prefixes : Exists(k)' /\ ~Exists(k) /\ parent'[k] # NoKey =>
        Kept(via[p])
  BY <1>2, <1>k
<1> SUFFICES ASSUME NEW k \in Prefixes, Exists(k)', parent'[k] # NoKey
             PROVE  /\ keys'[parent'[k]] # Nobody
                    /\ keys'[k].organization = keys'[parent'[k]].organization
                    /\ keys'[k].permissions \subseteq keys'[parent'[k]].permissions
  BY DEF Descent, Exists
<1>4. CASE Exists(k)
  <2>1. parent[k] # NoKey
    BY <1>4, <1>k DEF Kept
  <2>2. Kept(k) /\ Kept(parent[k]) /\ parent'[k] = parent[k]
    BY <1>1, <1>4, <2>1
  <2>3. /\ keys[k].organization = keys[parent[k]].organization
        /\ keys[k].permissions \subseteq keys[parent[k]].permissions
    BY <1>d, <1>4, <2>1 DEF Descent
  <2> QED
    BY <2>2, <2>3 DEF Kept, Exists
<1>5. CASE ~Exists(k)
  <2>1. /\ parent'[k] = via[p]
        /\ keys'[k].organization = keys[via[p]].organization
        /\ keys'[k].permissions \subseteq keys[via[p]].permissions
    BY <1>2, <1>5
  <2>2. Kept(via[p])
    BY <1>3, <1>5
  <2>3. /\ keys'[via[p]] # Nobody
        /\ keys'[via[p]].organization = keys[via[p]].organization
        /\ keys'[via[p]].permissions = keys[via[p]].permissions
    BY <2>2 DEF Kept, Exists
  <2> QED
    BY <2>1, <2>3
<1> QED
  BY <1>4, <1>5
-----------------------------------------------------------------------------
(* What is true of a request stays true while the others go on.             *)
LEMMA OtherRequests ==
  ASSUME IInv, NEW p \in Requests, Step(p), NEW q \in Requests, q # p
  PROVE  Looking(q)' /\ Acting(q)'
<1> USE NobodyAssumption
<1>1. /\ pc'[q] = pc[q] /\ via'[q] = via[q] /\ record'[q] = record[q]
      /\ principal'[q] = principal[q] /\ target'[q] = target[q] /\ arrival'[q] = arrival[q]
  BY OthersUntouched DEF IInv
<1>2. /\ \A k \in Prefixes : Exists(k) => Kept(k)
      /\ acknowledged \subseteq acknowledged' /\ now' = now
  BY KeysKept
<1>3. Looking(q) /\ Acting(q)
  BY DEF IInv
<1>4. via[q] \in Prefixes \cup {NoKey}
  BY DEF IInv, TypeOK
<1>5. Looking(q)'
  <2>1. CASE pc[q] \notin {"lookup", "check", "touch"}
    BY <1>1, <2>1 DEF Looking
  <2>2. CASE pc[q] \in {"lookup", "check", "touch"}
    <3>1. via[q] \in Prefixes
      BY <1>3, <2>2 DEF Looking
    <3>2. Exists(via[q]) => Kept(via[q])
      BY <1>2, <3>1
    <3> QED
      BY <1>1, <1>2, <1>3, <2>2, <3>1, <3>2 DEF Looking, Alive, Kept, Exists
  <2> QED
    BY <2>1, <2>2
<1>6. Acting(q)'
  <2>1. pc[q] \in Identified /\ via[q] # NoKey => Kept(via[q])
    BY <1>2, <1>3, <1>4 DEF Acting, Alive
  <2>2. pc[q] = "commitRevoke" => Kept(target[q])
    BY <1>2, <1>3 DEF Acting
  <2> QED
    BY <1>1, <1>3, <2>1, <2>2 DEF Acting, Allows, Alive, Kept, Exists
<1> QED
  BY <1>5, <1>6

LEMMA OwnRequest ==
  ASSUME IInv, NEW p \in Requests, Step(p)
  PROVE  Looking(p)' /\ Acting(p)'
<1> USE NobodyAssumption, NamesAssumption
<1>t. TypeOK /\ Looking(p) /\ Acting(p)
  BY DEF IInv
<1>1. CASE \E from : Respond(p, from)
  <2>1. pc'[p] = "idle" /\ via'[p] = NoKey
    BY <1>1, <1>t, RespondType
  <2> QED
    BY <2>1 DEF Looking, Acting, Identified, Admitted
<1>2. CASE Reads(p) /\ UNCHANGED <<now, tables>> /\ ~\E from : Respond(p, from)
  <2> USE <1>t DEF TypeOK, Goto
  <2>0. UNCHANGED <<now, keys>>
    BY <1>2 DEF tables
  <2>1. CASE OidcPrincipal(p)
    <3>1. pc[p] = "idle" /\ pc'[p] = "authorize" /\ via'[p] = via[p]
      BY <2>1 DEF OidcPrincipal
    <3> QED
      BY <3>1 DEF Looking, Acting, Identified, Admitted
  <2>2. CASE PresentKey(p)
    <3>1. /\ pc'[p] = "lookup" /\ via'[p] \in Prefixes /\ acknowledged' = acknowledged
          /\ arrival'[p] = [time |-> now, revoked |-> acknowledged]
      BY <2>2 DEF PresentKey
    <3>2. arrival'[p].time <= now' /\ arrival'[p].revoked = acknowledged'
      BY <2>0, <3>1, BoundsAssumption DEF Times
    <3> QED
      BY <3>1, <3>2 DEF Looking, Acting, Identified, Admitted
  <2>3. CASE ApiKeyByPrefix(p)
    <3>1. /\ pc[p] = "lookup" /\ pc'[p] = "check" /\ record'[p] = keys[via[p]]
          /\ via'[p] = via[p] /\ arrival'[p] = arrival[p] /\ acknowledged' = acknowledged
      BY <2>3 DEF ApiKeyByPrefix
    <3>2. via[p] \in acknowledged => keys[via[p]].revoked
      BY DEF IInv, Revocations
    <3> QED
      BY <2>0, <3>1, <3>2 DEF Looking, Acting, Identified, Admitted, Exists
  <2>4. CASE Authenticated(p)
    <3>1. /\ pc[p] = "check" /\ pc'[p] = "touch" /\ Valid(record[p])
          /\ UNCHANGED <<locals, acknowledged>>
      BY <2>4 DEF Authenticated
    <3>2. arrival[p].time \in Nat /\ now \in Nat /\ arrival[p].time <= now
      BY <3>1, BoundsAssumption DEF Looking, Times
    <3>3. record[p] # Nobody /\ record[p].expires > now /\ ~record[p].revoked
      BY <3>1 DEF Valid
    <3>4. record[p].expires \in Nat
      BY <3>3, BoundsAssumption DEF Keys, Never
    <3>5. Exists(via[p]) /\ record[p].expires = keys[via[p]].expires
      BY <3>1, <3>3 DEF Looking
    <3>6. Alive(p)
      BY <3>1, <3>2, <3>3, <3>4, <3>5 DEF Looking, Alive
    <3> QED
      BY <2>0, <3>1, <3>3, <3>6
         DEF Looking, Acting, Alive, Identified, Admitted, Exists, locals
  <2>5. CASE Touch(p)
    <3>1. /\ pc[p] = "touch" /\ pc'[p] = "authorize"
          /\ principal'[p] = [organization |-> record[p].organization,
                             permissions |-> record[p].permissions]
          /\ via'[p] = via[p] /\ arrival'[p] = arrival[p]
      BY <2>5 DEF Touch
    <3> QED
      BY <2>0, <3>1 DEF Looking, Acting, Alive, Identified, Admitted, Exists
  <2>6. CASE Authorized(p)
    <3>1. /\ pc[p] = "authorize" /\ pc'[p] \in {"score", "create", "revoke"}
          /\ pc'[p] # "score" => Allows(p, "integration.manage")
          /\ UNCHANGED locals
      BY <2>6 DEF Authorized
    <3> QED
      BY <2>0, <3>1 DEF Allows, Looking, Acting, Alive, Identified, Admitted, Exists, locals
  <2>7. CASE LoadKey(p)
    <3>1. /\ pc[p] = "revoke" /\ pc'[p] = "commitRevoke"
          /\ UNCHANGED <<via, principal, arrival>>
          /\ target'[p] \in Prefixes /\ Owned(p, target'[p])
      BY <2>7 DEF LoadKey
    <3> QED
      BY <2>0, <3>1 DEF Allows, Looking, Acting, Alive, Identified, Admitted, Exists, Owned
  <2> QED
    BY <1>2, <2>1, <2>2, <2>3, <2>4, <2>5, <2>6, <2>7
       DEF Reads, Unauthenticated, PermissionDenied, Serve, KeyNotCreated, KeyNotFound,
           AlreadyRevoked
<1>3. CASE CreateApiKey(p)
  BY <1>1, <1>3 DEF CreateApiKey
<1> QED
  BY <1>1, <1>2, <1>3, StepKinds

LEMMA NextInvariant == IInv /\ [Next]_vars => IInv'
<1> SUFFICES ASSUME IInv, [Next]_vars PROVE IInv'
  OBVIOUS
<1>1. ASSUME NEW p \in Requests, Step(p) PROVE IInv'
  <2>1. TypeOK' /\ Revocations' /\ Descent'
    BY <1>1, TypeCorrect, StepRevocations, StepDescent
  <2>2. \A q \in Requests : Looking(q)' /\ Acting(q)'
    BY <1>1, OtherRequests, OwnRequest
  <2> QED
    BY <2>1, <2>2 DEF IInv
<1>2. CASE Tick
  <2>1. UNCHANGED <<tables, pc, locals, acknowledged>> /\ now' = now + 1 /\ now < MaxTime
    BY <1>2 DEF Tick
  <2>2. TypeOK'
    BY <2>1, BoundsAssumption DEF IInv, TypeOK, tables, locals, Times
  <2>3. Revocations' /\ Descent'
    BY <2>1 DEF IInv, Revocations, Descent, Exists, tables
  <2>4. ASSUME NEW q \in Requests PROVE Looking(q)' /\ Acting(q)'
    <3>1. arrival[q].time <= now => arrival[q].time <= now'
      BY <2>1, BoundsAssumption DEF IInv, TypeOK, Times
    <3> QED
      BY <2>1, <3>1 DEF IInv, Looking, Acting, Allows, Alive, Exists, tables, locals
  <2> QED
    BY <2>2, <2>3, <2>4 DEF IInv
<1>3. CASE UNCHANGED vars
  BY <1>3 DEF vars, tables, locals, IInv, TypeOK, Revocations, Descent, Looking, Acting, Allows,
              Alive, Exists
<1> QED
  BY <1>1, <1>2, <1>3 DEF Next, Step

(* The inductive invariant holds in every reachable state.                    *)
THEOREM Invariant == Spec => []IInv
<1>1. Init => IInv
  BY InitInvariant
<1>2. IInv /\ [Next]_vars => IInv'
  BY NextInvariant
<1> QED
  BY <1>1, <1>2, PTL DEF Spec

(* Keys, requests and principals keep the shapes the code gives them.         *)
THEOREM TypeCorrectness == Spec => []TypeOK
BY Invariant, PTL DEF IInv

(* A revocation that was answered is never undone, whatever overlaps it.      *)
THEOREM LastingRevocations == Spec => []RevocationLasts
<1>1. IInv => RevocationLasts
  BY DEF IInv, Revocations, RevocationLasts
<1> QED
  BY <1>1, Invariant, PTL

(* No request comes through with a key that was dead when it came.            *)
THEOREM DeadKeysAreRefused == Spec => []DeadKeysOpenNothing
<1>1. IInv => DeadKeysOpenNothing
  BY DEF IInv, Acting, Alive, DeadKeysOpenNothing, Identified
<1> QED
  BY <1>1, Invariant, PTL

(* Along every chain of keys created with keys, scopes only shrink.           *)
THEOREM ScopesOnlyShrink == Spec => []ScopesNeverWiden
<1>1. IInv => ScopesNeverWiden
  BY DEF IInv, Acting, Descent, Exists, ScopesNeverWiden
<1> QED
  BY <1>1, Invariant, PTL

(* Keys never cross the boundary of their organization.                       *)
THEOREM KeysStayAtHome == Spec => []TenantsManageTheirOwn
<1>1. IInv => TenantsManageTheirOwn
  BY DEF IInv, Acting, Descent, Revocations, Exists, TenantsManageTheirOwn
<1> QED
  BY <1>1, Invariant, PTL
-----------------------------------------------------------------------------
(* ApiKeys implements AccessControl: the abstract state, and how each step   *)
(* of a request shows in it.                                                 *)
LEMMA GrantOfKey ==
  \A r \in Keys \cup {Nobody} : /\ GrantOf(r) = Nobody <=> r = Nobody
                                /\ r # Nobody => GrantOf(r) \in Principals
<1> SUFFICES ASSUME NEW r \in Keys
             PROVE  GrantOf(r) \in Principals /\ r # Nobody /\ GrantOf(r) # Nobody
  BY DEF GrantOf
<1>1. r # Nobody
  BY NobodyAssumption
<1>2. GrantOf(r) \in Principals
  BY <1>1 DEF GrantOf, Keys, Principals
<1> QED
  BY <1>1, <1>2, NobodyAssumption

(* The authority of one request, by where it is.                             *)
LEMMA AuthorityByPc ==
  ASSUME NEW p \in Requests
  PROVE  /\ pc[p] \in Identified => Authority[p] = principal[p]
         /\ pc[p] = "touch" => Authority[p] = GrantOf(record[p])
         /\ pc[p] = "check" =>
              Authority[p] = IF Valid(record[p]) THEN GrantOf(record[p]) ELSE Nobody
         /\ pc[p] \in {"idle", "lookup"} => Authority[p] = Nobody
BY DEF Authority, Identified, Admitted

LEMMA NextAuthorityByPc ==
  ASSUME NEW p \in Requests
  PROVE  /\ pc'[p] \in Identified => Authority'[p] = principal'[p]
         /\ pc'[p] = "touch" => Authority'[p] = GrantOf(record'[p])
         /\ pc'[p] = "check" =>
              Authority'[p] = IF Valid(record[p])' THEN GrantOf(record'[p]) ELSE Nobody
         /\ pc'[p] \in {"idle", "lookup"} => Authority'[p] = Nobody
BY DEF Authority, Identified, Admitted

(* A step of p shows in the authority of p only.                             *)
LEMMA OnlyOwnAuthority ==
  ASSUME IInv, NEW p \in Requests, Step(p)
  PROVE  Authority' = [Authority EXCEPT ![p] = Authority'[p]]
<1>1. now' = now
  BY KeysKept
<1>2. ASSUME NEW q \in Requests, q # p PROVE Authority'[q] = Authority[q]
  <2>1. pc'[q] = pc[q] /\ record'[q] = record[q] /\ principal'[q] = principal[q]
    BY <1>2, OthersUntouched DEF IInv
  <2>2. Valid(record[q])' <=> Valid(record[q])
    BY <1>1, <2>1 DEF Valid
  <2> QED
    BY <2>1, <2>2 DEF Authority
<1>3. DOMAIN Authority = Requests /\ Authority = [q \in Requests |-> Authority[q]]
  BY DEF Authority
<1>4. Authority' = [q \in Requests |-> Authority'[q]]
  BY DEF Authority
<1> HIDE DEF Authority
<1> QED
  BY <1>2, <1>3, <1>4, Zenon

(* A step that touches no table opens, signs in, ends or changes nothing.    *)
LEMMA ReadsSimulated ==
  ASSUME IInv, NEW p \in Requests, Step(p), Reads(p), UNCHANGED <<now, tables>>
  PROVE  [Access!Next]_(Access!accessVars)
<1>t. TypeOK /\ Looking(p)
  BY DEF IInv
<1>s. /\ Granted' = Granted /\ RevokedKeys' = RevokedKeys /\ ExpiredKeys' = ExpiredKeys
      /\ Authority' = [Authority EXCEPT ![p] = Authority'[p]]
  BY OnlyOwnAuthority DEF tables, Granted, RevokedKeys, ExpiredKeys
<1>1. CASE Authority'[p] = Authority[p]
  <2>1. Authority' = Authority
    BY <1>1, <1>s DEF Authority
  <2> QED
    BY <1>s, <2>1 DEF Access!accessVars, Granted, RevokedKeys, ExpiredKeys
<1>2. CASE Authority'[p] = Nobody
  BY <1>2, <1>s
     DEF Access!Next, Access!End, Access!Act, Granted, RevokedKeys, ExpiredKeys
<1>3. CASE OidcPrincipal(p)
  <2>1. PICK o \in Organizations, r \in Roles :
          principal' = [principal EXCEPT
                          ![p] = [organization |-> o, permissions |-> RolePermissions[r]]]
    BY <1>3 DEF OidcPrincipal
  <2>2. pc[p] = "idle" /\ pc'[p] = "authorize"
    BY <1>3, <1>t DEF OidcPrincipal, Goto, TypeOK
  <2>3. Authority[p] = Nobody /\ Authority'[p] \in People
    BY <1>t, <2>1, <2>2, AuthorityByPc, NextAuthorityByPc DEF Identified, People, TypeOK
  <2>4. Access!SignIn(p)
    BY <1>s, <2>3 DEF Access!SignIn, Access!Act, Granted, RevokedKeys, ExpiredKeys
  <2> QED
    BY <2>4 DEF Access!Next
<1>4. CASE ApiKeyByPrefix(p)
  <2>1. /\ pc[p] = "lookup" /\ pc'[p] = "check" /\ record'[p] = keys[via[p]]
        /\ via[p] \in Prefixes
    BY <1>4, <1>t DEF ApiKeyByPrefix, Goto, TypeOK, Looking
  <2>2. Authority[p] = Nobody
    BY <2>1, AuthorityByPc
  <2>3. CASE Valid(record[p])'
    <3>1. Authority'[p] = Granted[via[p]] /\ Granted[via[p]] # Nobody
      BY <1>t, <2>1, <2>3, NextAuthorityByPc, GrantOfKey DEF Granted, Valid, TypeOK
    <3>2. keys[via[p]] # Nobody /\ ~keys[via[p]].revoked /\ keys[via[p]].expires > now
      BY <2>1, <2>3 DEF Valid
    <3>3. keys[via[p]].expires \in Nat /\ now \in Nat
      BY <1>t, <2>1, <3>2, BoundsAssumption DEF TypeOK, Keys, Never, Times
    <3>4. via[p] \notin RevokedKeys \cup ExpiredKeys
      BY <3>2, <3>3 DEF RevokedKeys, ExpiredKeys
    <3>5. Access!Open(p, via[p])
      BY <1>s, <2>2, <3>1, <3>4
         DEF Access!Open, Access!Act, Granted, RevokedKeys, ExpiredKeys
    <3> QED
      BY <2>1, <3>5 DEF Access!Next
  <2>4. CASE ~Valid(record[p])'
    BY <1>2, <2>1, <2>4, NextAuthorityByPc
  <2> QED
    BY <2>3, <2>4
<1>5. CASE Touch(p)
  <2>1. /\ pc[p] = "touch" /\ pc'[p] = "authorize" /\ record[p] # Nobody
        /\ principal'[p] = GrantOf(record[p])
    BY <1>5, <1>t DEF Touch, Goto, TypeOK, Looking, GrantOf
  <2> QED
    BY <1>1, <2>1, AuthorityByPc, NextAuthorityByPc DEF Identified
<1>6. CASE Authenticated(p)
  <2>1. /\ pc[p] = "check" /\ pc'[p] = "touch" /\ record'[p] = record[p] /\ Valid(record[p])
    BY <1>6, <1>t DEF Authenticated, Goto, TypeOK, locals
  <2> QED
    BY <1>1, <2>1, AuthorityByPc, NextAuthorityByPc
<1>7. CASE Authorized(p) \/ LoadKey(p)
  <2>1. pc[p] \in Identified /\ pc'[p] \in Identified /\ principal'[p] = principal[p]
    BY <1>7, <1>t DEF Authorized, LoadKey, Goto, TypeOK, locals, Identified, Admitted
  <2> QED
    BY <1>1, <2>1, AuthorityByPc, NextAuthorityByPc
<1>8. CASE PresentKey(p) \/ \E from : Respond(p, from)
  <2>1. pc'[p] \in {"idle", "lookup"}
    BY <1>8, <1>t DEF PresentKey, Respond, Goto, TypeOK
  <2> QED
    BY <1>2, <2>1, NextAuthorityByPc
<1> QED
  BY <1>3, <1>4, <1>5, <1>6, <1>7, <1>8
     DEF Reads, Unauthenticated, PermissionDenied, Serve, KeyNotCreated, KeyNotFound,
         AlreadyRevoked

(* CreateApiKey issues the key out of what its creator may do.               *)
LEMMA CreateSimulated ==
  ASSUME IInv, NEW p \in Requests, Step(p), CreateApiKey(p)
  PROVE  Access!Next
<1>t. TypeOK /\ Acting(p)
  BY DEF IInv
<1>1. PICK k \in Prefixes, r \in Keys :
        /\ ~Exists(k) /\ r.organization = principal[p].organization
        /\ r.permissions \subseteq principal[p].permissions /\ ~r.revoked
        /\ keys' = [keys EXCEPT ![k] = r]
        /\ now' = now /\ pc[p] = "create" /\ pc'[p] = "idle"
  BY <1>t, CreateEffect
<1>2. /\ Authority' = [Authority EXCEPT ![p] = Nobody]
      /\ Authority[p] = principal[p] /\ principal[p] # Nobody
      /\ "integration.manage" \in principal[p].permissions
  BY <1>1, <1>t, OnlyOwnAuthority, AuthorityByPc, NextAuthorityByPc
     DEF Acting, Allows, TypeOK, Identified, Admitted
<1>3. /\ r # Nobody /\ GrantOf(r) \in Principals /\ Granted[k] = Nobody
      /\ GrantOf(r) = [organization |-> r.organization, permissions |-> r.permissions]
  BY <1>1, GrantOfKey, NobodyAssumption DEF Exists, Granted, GrantOf
<1>4. keys'[k] = r /\ \A x \in Prefixes \ {k} : keys'[x] = keys[x]
  BY <1>t, <1>1 DEF TypeOK
<1>5. Granted' = [Granted EXCEPT ![k] = GrantOf(r)]
  BY <1>4 DEF Granted
<1>6. RevokedKeys' = RevokedKeys
  BY <1>1, <1>4 DEF RevokedKeys, Exists
<1>7. ExpiredKeys' \in {ExpiredKeys, ExpiredKeys \cup {k}}
  BY <1>1, <1>4 DEF ExpiredKeys, Exists
<1>8. Access!Issue(p, k)
  <2>1. /\ Access!Manages(p, GrantOf(r).organization)
        /\ GrantOf(r).permissions \subseteq Authority[p].permissions
    BY <1>1, <1>2, <1>3 DEF Access!Manages
  <2>2. Granted[k] = Nobody /\ GrantOf(r) \in Principals
    BY <1>3
  <2>3. Access!Act(p, Nobody)
    BY <1>2 DEF Access!Act
  <2> QED
    BY <1>5, <1>6, <1>7, <2>1, <2>2, <2>3 DEF Access!Issue
<1> QED
  BY <1>8 DEF Access!Next

(* revoke_api_key revokes a key of its caller's organization.                *)
LEMMA RevokeSimulated ==
  ASSUME IInv, NEW p \in Requests, Step(p), Respond(p, "commitRevoke"), Revoke(p), now' = now
  PROVE  Access!Next
<1>t. TypeOK /\ Acting(p)
  BY DEF IInv
<1>1. PICK k \in Prefixes : RevokedKey(p, k)
  BY RevokeEffect
<1>2. pc[p] = "commitRevoke" /\ pc'[p] = "idle"
  BY <1>t, RespondType
<1>3. /\ Authority' = [Authority EXCEPT ![p] = Nobody]
      /\ Authority[p] = principal[p] /\ principal[p] # Nobody
      /\ "integration.manage" \in principal[p].permissions
  BY <1>2, <1>t, OnlyOwnAuthority, AuthorityByPc, NextAuthorityByPc
     DEF Acting, Allows, TypeOK, Identified, Admitted
<1>4. Granted' = Granted
  BY <1>1 DEF RevokedKey, Granted, GrantOf, Exists
<1>5. RevokedKeys' = RevokedKeys \cup {k}
  BY <1>1 DEF RevokedKey, RevokedKeys
<1>6. ExpiredKeys' = ExpiredKeys
  BY <1>1 DEF RevokedKey, ExpiredKeys, Exists
<1>7. Granted[k] # Nobody /\ Granted[k].organization = principal[p].organization
  BY <1>1, <1>t, GrantOfKey DEF RevokedKey, Granted, GrantOf, Exists, TypeOK
<1>8. Access!Revoke(p, k)
  BY <1>3, <1>4, <1>5, <1>6, <1>7
     DEF Access!Revoke, Access!Manages, Access!Act, Granted, RevokedKeys, ExpiredKeys
<1> QED
  BY <1>8 DEF Access!Next

(* When time passes, a key that was looked up but not checked yet may expire. *)
LEMMA TickSimulated == ASSUME IInv, Tick PROVE Access!Next
<1>t. TypeOK /\ \A p \in Requests : Looking(p)
  BY DEF IInv
<1>1. now' = now + 1 /\ now \in Nat /\ UNCHANGED <<keys, pc, record, principal>>
  BY <1>t, BoundsAssumption DEF Tick, tables, locals, TypeOK, Times
<1> DEFINE dead == ExpiredKeys'
           refused == {p \in Requests : pc[p] = "check" /\ Valid(record[p]) /\ ~Valid(record[p])'}
<1>2. \A k \in Prefixes : keys[k] # Nobody => keys[k].expires \in Nat
  BY <1>t, BoundsAssumption DEF TypeOK, Keys, Never
<1>3. /\ dead \subseteq {k \in Prefixes : Granted[k] # Nobody}
      /\ ExpiredKeys \subseteq dead
  BY <1>t, <1>1, <1>2, GrantOfKey DEF ExpiredKeys, Granted, TypeOK
<1>4. ASSUME NEW p \in refused PROVE \E k \in dead \ ExpiredKeys : Authority[p] = Granted[k]
  <2>1. /\ pc[p] = "check" /\ record[p] # Nobody /\ ~record[p].revoked
        /\ record[p].expires > now /\ ~(record[p].expires > now + 1)
        /\ Authority[p] = GrantOf(record[p])
    BY <1>1, <1>4, AuthorityByPc DEF Valid
  <2>2. /\ via[p] \in Prefixes /\ keys[via[p]] # Nobody
        /\ record[p].organization = keys[via[p]].organization
        /\ record[p].permissions = keys[via[p]].permissions
        /\ record[p].expires = keys[via[p]].expires
    BY <1>t, <2>1 DEF Looking, Exists
  <2>3. GrantOf(record[p]) = Granted[via[p]]
    BY <2>1, <2>2 DEF GrantOf, Granted
  <2>4. via[p] \in dead \ ExpiredKeys
    BY <1>1, <1>2, <2>1, <2>2 DEF ExpiredKeys
  <2> QED
    BY <2>1, <2>3, <2>4
<1>5. ASSUME NEW p \in Requests
      PROVE  Authority'[p] = IF p \in refused THEN Nobody ELSE Authority[p]
  <2>1. CASE pc[p] # "check"
    BY <1>1, <2>1 DEF Authority, Identified, Admitted
  <2>2. CASE pc[p] = "check"
    <3>1. Valid(record[p])' => Valid(record[p])
      <4>1. ASSUME record[p] # Nobody PROVE record[p].expires \in Nat
        BY <1>t, <4>1, BoundsAssumption DEF TypeOK, Keys, Never
      <4> QED
        BY <1>1, <4>1 DEF Valid
    <3> QED
      BY <1>1, <2>2, <3>1, AuthorityByPc, NextAuthorityByPc
  <2> QED
    BY <2>1, <2>2
<1>6. Authority' = [p \in Requests |-> IF p \in refused THEN Nobody ELSE Authority[p]]
  <2> HIDE DEF refused
  <2> QED
    BY <1>5 DEF Authority
<1>7. Granted' = Granted /\ RevokedKeys' = RevokedKeys /\ ExpiredKeys' = ExpiredKeys \cup dead
  BY <1>1, <1>3 DEF Granted, RevokedKeys
<1>8. /\ dead \in SUBSET {k \in Prefixes : Granted[k] # Nobody}
      /\ refused \in SUBSET {p \in Requests : \E k \in dead \ ExpiredKeys :
                                                Authority[p] = Granted[k]}
  BY <1>3, <1>4
<1> HIDE DEF dead, refused
<1>9. Access!Expire
  BY <1>6, <1>7, <1>8 DEF Access!Expire, Granted, RevokedKeys, ExpiredKeys
<1> QED
  BY <1>9 DEF Access!Next

(* ApiKeys implements atomic access control: a key opens a request at its    *)
(* look-up, is issued and revoked at the commits of the endpoints, and       *)
(* nothing else ever changes who may do what.                                *)
THEOREM ApiKeysImplementsAccess == Spec => AccessSpec
<1>1. Init => Access!Init
  <2> SUFFICES ASSUME Init PROVE Access!Init
    OBVIOUS
  <2>1. \A k \in Prefixes : keys[k] = Nobody
    BY DEF Init
  <2>2. \A p \in Requests : pc[p] = "idle"
    BY DEF Init
  <2>3. Authority = [p \in Requests |-> Nobody]
    BY <2>2 DEF Authority, Identified, Admitted
  <2> QED
    BY <2>1, <2>3 DEF Access!Init, GrantOf, Granted, RevokedKeys, ExpiredKeys
<1>2. IInv /\ [Next]_vars => [Access!Next]_(Access!accessVars)
  <2> SUFFICES ASSUME IInv, [Next]_vars PROVE [Access!Next]_(Access!accessVars)
    OBVIOUS
  <2>1. ASSUME NEW p \in Requests, Step(p) PROVE [Access!Next]_(Access!accessVars)
    BY <2>1, StepKinds, ReadsSimulated, CreateSimulated, RevokeSimulated
  <2>2. CASE Tick
    BY <2>2, TickSimulated
  <2>3. CASE UNCHANGED vars
    <3>1. UNCHANGED <<now, keys, pc, record, principal>>
      BY <2>3 DEF vars, tables, locals
    <3>2. Authority' = Authority
      BY <3>1 DEF Authority, Valid
    <3> QED
      BY <3>1, <3>2 DEF Access!accessVars, Granted, RevokedKeys, ExpiredKeys
  <2> QED
    BY <2>1, <2>2, <2>3 DEF Next, Step
<1> QED
  BY <1>1, <1>2, Invariant, PTL DEF Spec, AccessSpec, Access!Spec
-----------------------------------------------------------------------------
(* What has been issued or revoked, and no later step may take back.          *)
GrantsKept ==
  \A k \in Prefixes : Granted[k] # Nobody =>
    /\ Granted'[k] = Granted[k]
    /\ k \in RevokedKeys => k \in RevokedKeys'

(* create_api_key never overwrites a key, and touch_api_key, which commits a  *)
(* row that another request may have revoked meanwhile, never brings one back *)
(* or changes what it may do.                                                 *)
THEOREM GrantsAreFinal == Spec => [][GrantsKept]_<<Granted, RevokedKeys>>
<1>1. [Access!Next]_(Access!accessVars) => [GrantsKept]_<<Granted, RevokedKeys>>
  <2> SUFFICES ASSUME Access!Next PROVE GrantsKept
    BY DEF Access!accessVars, Granted, RevokedKeys
  <2>1. CASE UNCHANGED Granted /\ RevokedKeys \subseteq RevokedKeys'
    BY <2>1 DEF GrantsKept
  <2>2. ASSUME NEW p \in Requests, NEW k \in Prefixes, Access!Issue(p, k) PROVE GrantsKept
    <3>1. /\ Granted[k] = Nobody /\ UNCHANGED RevokedKeys
          /\ \E g : Granted' = [Granted EXCEPT ![k] = g]
      BY <2>2 DEF Access!Issue, Granted, RevokedKeys
    <3>2. \A x \in Prefixes \ {k} : Granted'[x] = Granted[x]
      BY <3>1 DEF Granted
    <3> QED
      BY <3>1, <3>2 DEF GrantsKept
  <2>3. ASSUME NEW p \in Requests, NEW k \in Prefixes,
               Access!End(p) \/ Access!SignIn(p) \/ Access!Open(p, k) \/ Access!Revoke(p, k)
        PROVE  UNCHANGED Granted /\ RevokedKeys \subseteq RevokedKeys'
    BY <2>3 DEF Access!End, Access!SignIn, Access!Open, Access!Revoke, Granted, RevokedKeys
  <2>4. ASSUME NEW p \in Requests, Access!End(p) \/ Access!SignIn(p)
        PROVE  UNCHANGED Granted /\ RevokedKeys \subseteq RevokedKeys'
    BY <2>4 DEF Access!End, Access!SignIn, Granted, RevokedKeys
  <2>5. CASE Access!Expire
    BY <2>1, <2>5 DEF Access!Expire, Granted, RevokedKeys
  <2> QED
    BY <2>1, <2>2, <2>3, <2>4, <2>5 DEF Access!Next
<1> QED
  BY <1>1, ApiKeysImplementsAccess, PTL DEF AccessSpec, Access!Spec
=============================================================================
