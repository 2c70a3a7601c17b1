-------------------------------- MODULE ApiKeys --------------------------------
(***************************************************************************)
(* Who may do what: AuthenticationService, require_permission, and the      *)
(* endpoints that create and revoke scoped API keys, over the api_keys      *)
(* table.  Requests overlap at every await, so a key may be revoked or      *)
(* expire while a request that presents it is on its way.                   *)
(*                                                                          *)
(* A key is named by its prefix, which is unique.  Three permissions stand  *)
(* for the fourteen: the one that manages keys, one that integrations hold  *)
(* and one that every role holds.                                           *)
(***************************************************************************)
EXTENDS Naturals

CONSTANTS Requests, Prefixes, NoKey, Organizations, Nobody,
          Roles,    \* the roles that identity tokens carry
          Scopes,   \* the permissions asked for new keys
          Faults,   \* a database call may fail
          MaxTime   \* bound on the clock

Permissions == {"transaction.read", "transaction.score", "integration.manage"}

RolePermissions ==
  [platform_admin |-> Permissions,
   tenant_admin |-> Permissions,
   analyst |-> {"transaction.read", "transaction.score"},
   integration_service |-> {"transaction.read", "transaction.score"},
   risk_manager |-> {"transaction.read"},
   reviewer |-> {"transaction.read"},
   viewer |-> {"transaction.read"},
   model_operator |-> {"transaction.read"}]

ASSUME NamesAssumption == NoKey \notin Prefixes
ASSUME RolesAssumption == Roles \subseteq DOMAIN RolePermissions /\ Scopes \subseteq Permissions
ASSUME BoundsAssumption == Faults \in BOOLEAN /\ MaxTime \in Nat

(* expires_at may lie in the past or after all that happens here, as null.  *)
Times == 0..MaxTime
Never == MaxTime + 1

Keys == [organization: Organizations, permissions: SUBSET Permissions,
         expires: 0..Never, revoked: BOOLEAN]
Principals == [organization: Organizations, permissions: SUBSET Permissions]

ASSUME NobodyAssumption == Nobody \notin Keys \cup Principals

VARIABLES now,
          keys,         \* the api_keys table
          audit,        \* the prefixes with an API_KEY_REVOKED audit event
          pc,
          via,          \* the key a request presents
          record,       \* what api_key_by_prefix returned to it
          principal,    \* its Principal
          target,       \* the key it revokes
          parent,       \* history: the key a key was created with
          revokers,     \* history: the organizations that revoked a key
          acknowledged, \* history: the keys whose revocation was answered 200
          arrival       \* history: time and acknowledged revocations when it came

tables == <<keys, audit, parent, revokers>>
locals == <<via, record, principal, target, arrival>>
vars == <<now, tables, pc, locals, acknowledged>>

Start == [time |-> 0, revoked |-> {}]

Init ==
  /\ now = 0
  /\ keys = [k \in Prefixes |-> Nobody]
  /\ audit = {}
  /\ pc = [p \in Requests |-> "idle"]
  /\ via = [p \in Requests |-> NoKey]
  /\ record = [p \in Requests |-> Nobody]
  /\ principal = [p \in Requests |-> Nobody]
  /\ target = [p \in Requests |-> NoKey]
  /\ parent = [k \in Prefixes |-> NoKey]
  /\ revokers = [k \in Prefixes |-> {}]
  /\ acknowledged = {}
  /\ arrival = [p \in Requests |-> Start]

Goto(p, from, to) == pc[p] = from /\ pc' = [pc EXCEPT ![p] = to]

(* Mutant of Respond: the principal survives its request.                   *)
RespondAndRemember(p, from) ==
  /\ Goto(p, from, "idle")
  /\ via' = [via EXCEPT ![p] = NoKey]
  /\ record' = [record EXCEPT ![p] = Nobody]
  /\ target' = [target EXCEPT ![p] = NoKey]
  /\ arrival' = [arrival EXCEPT ![p] = Start]
  /\ UNCHANGED principal

(* The request is answered; its process serves another one later.           *)
Respond(p, from) ==
  /\ Goto(p, from, "idle")
  /\ via' = [via EXCEPT ![p] = NoKey]
  /\ record' = [record EXCEPT ![p] = Nobody]
  /\ principal' = [principal EXCEPT ![p] = Nobody]
  /\ target' = [target EXCEPT ![p] = NoKey]
  /\ arrival' = [arrival EXCEPT ![p] = Start]
-----------------------------------------------------------------------------
(* A person's bearer token is decoded without an await.  The permissions of  *)
(* roles are nested here, so of several roles the widest one counts.        *)
OidcPrincipal(p) ==
  /\ Goto(p, "idle", "authorize")
  /\ \E o \in Organizations, r \in Roles :
        principal' = [principal EXCEPT
                        ![p] = [organization |-> o, permissions |-> RolePermissions[r]]]
  /\ UNCHANGED <<now, tables, via, record, target, arrival, acknowledged>>

(* A well-formed key is looked up by its prefix ...                         *)
PresentKey(p) ==
  /\ Goto(p, "idle", "lookup")
  /\ \E k \in Prefixes : via' = [via EXCEPT ![p] = k]
  /\ arrival' = [arrival EXCEPT ![p] = [time |-> now, revoked |-> acknowledged]]
  /\ UNCHANGED <<now, tables, record, principal, target, acknowledged>>

ApiKeyByPrefix(p) ==
  /\ Goto(p, "lookup", "check")
  /\ record' = [record EXCEPT ![p] = keys[via[p]]]
  /\ UNCHANGED <<now, tables, via, principal, target, arrival, acknowledged>>

(* Mutant of Valid: the boundary of expiry is off by one.                   *)
ValidAtExpiry(r) == r # Nobody /\ ~r.revoked /\ r.expires >= now

(* ... and judged when the row has arrived, which may be later.             *)
Valid(r) == r # Nobody /\ ~r.revoked /\ r.expires > now

(* Unknown, revoked or expired, or another secret than the key's: 401.      *)
Unauthenticated(p) ==
  /\ Respond(p, "check")
  /\ UNCHANGED <<now, tables, acknowledged>>

Authenticated(p) ==
  /\ Goto(p, "check", "touch")
  /\ Valid(record[p])
  /\ UNCHANGED <<now, tables, locals, acknowledged>>

(* Mutant of Touch: the whole record is written, not last_used_at alone.    *)
TouchMerged(p) ==
  /\ Goto(p, "touch", "authorize")
  /\ keys' = [keys EXCEPT ![via[p]] = record[p]]
  /\ principal' = [principal EXCEPT
                     ![p] = [organization |-> record[p].organization,
                             permissions |-> record[p].permissions]]
  /\ UNCHANGED <<now, audit, parent, revokers, via, record, target, arrival, acknowledged>>

(* touch_api_key writes last_used_at, which nothing reads, and nothing else; *)
(* the Principal is made from the record looked up before.                  *)
Touch(p) ==
  /\ Goto(p, "touch", "authorize")
  /\ principal' = [principal EXCEPT
                     ![p] = [organization |-> record[p].organization,
                             permissions |-> record[p].permissions]]
  /\ UNCHANGED <<now, tables, via, record, target, arrival, acknowledged>>

(* require_permission of the endpoint.                                      *)
Allows(p, permission) == permission \in principal[p].permissions

Authorized(p) ==
  /\ \/ Goto(p, "authorize", "score") /\ Allows(p, "transaction.score")
     \/ Goto(p, "authorize", "create") /\ Allows(p, "integration.manage")
     \/ Goto(p, "authorize", "revoke") /\ Allows(p, "integration.manage")
  /\ UNCHANGED <<now, tables, locals, acknowledged>>

PermissionDenied(p) ==
  /\ Respond(p, "authorize")
  /\ ~Allows(p, "transaction.score") \/ ~Allows(p, "integration.manage")
  /\ UNCHANGED <<now, tables, acknowledged>>

(* What another endpoint does is not about keys.                            *)
Serve(p) ==
  /\ Respond(p, "score")
  /\ UNCHANGED <<now, tables, acknowledged>>
-----------------------------------------------------------------------------
(* Mutant of MayGrant: the scopes asked for are not compared.               *)
MayGrantAny(p, scopes) == scopes # {}

(* Between 1 and 20 documented permissions, all of them the creator's.      *)
MayGrant(p, scopes) == scopes # {} /\ scopes \subseteq principal[p].permissions

(* Mutant of InsertKey: a prefix that is taken is written again.            *)
UpsertKey(p) ==
  /\ \E k \in Prefixes, scopes \in SUBSET Scopes, expires \in 0..Never :
        /\ MayGrant(p, scopes)
        /\ keys' = [keys EXCEPT ![k] = [organization |-> principal[p].organization,
                                        permissions |-> scopes,
                                        expires |-> expires, revoked |-> FALSE]]
        /\ parent' = [parent EXCEPT ![k] = via[p]]
  /\ UNCHANGED <<audit, revokers>>

(* The key and its audit event, under a random prefix.                      *)
InsertKey(p) ==
  /\ \E k \in Prefixes, scopes \in SUBSET Scopes, expires \in 0..Never :
        /\ keys[k] = Nobody
        /\ MayGrant(p, scopes)
        /\ keys' = [keys EXCEPT ![k] = [organization |-> principal[p].organization,
                                        permissions |-> scopes,
                                        expires |-> expires, revoked |-> FALSE]]
        /\ parent' = [parent EXCEPT ![k] = via[p]]
  /\ UNCHANGED <<audit, revokers>>

CreateApiKey(p) ==
  /\ Respond(p, "create")
  /\ InsertKey(p)
  /\ UNCHANGED <<now, acknowledged>>

(* Scopes beyond the creator's are refused, and the unique constraint turns *)
(* a random prefix that is taken into 500.                                  *)
KeyNotCreated(p) ==
  /\ Respond(p, "create")
  /\ \/ \E scopes \in SUBSET Scopes : ~MayGrant(p, scopes)
     \/ \E k \in Prefixes : keys[k] # Nobody
  /\ UNCHANGED <<now, tables, acknowledged>>

(* Mutant of Owned: a key of any organization is found.                     *)
OwnedByAny(p, k) == keys[k] # Nobody

(* WHERE organization_id = ... AND id = ...                                 *)
Owned(p, k) == keys[k] # Nobody /\ keys[k].organization = principal[p].organization

(* 404, or nothing to do for a key that is revoked already, or the commit.  *)
KeyNotFound(p) ==
  /\ Respond(p, "revoke")
  /\ \E k \in Prefixes : ~Owned(p, k)
  /\ UNCHANGED <<now, tables, acknowledged>>

AlreadyRevoked(p) ==
  /\ Respond(p, "revoke")
  /\ \E k \in Prefixes : /\ Owned(p, k) /\ keys[k].revoked
                         /\ acknowledged' = acknowledged \cup {k}
  /\ UNCHANGED <<now, tables>>

LoadKey(p) ==
  /\ Goto(p, "revoke", "commitRevoke")
  /\ \E k \in Prefixes : /\ Owned(p, k) /\ ~keys[k].revoked
                         /\ target' = [target EXCEPT ![p] = k]
  /\ UNCHANGED <<now, tables, via, record, principal, arrival, acknowledged>>

(* revoked_at and the audit event in one commit.                            *)
Revoke(p) ==
  LET k == target[p]
  IN /\ keys' = [keys EXCEPT ![k].revoked = TRUE]
     /\ audit' = audit \cup {k}
     /\ revokers' = [revokers EXCEPT ![k] = @ \cup {principal[p].organization}]
     /\ UNCHANGED parent

RevokeApiKey(p) ==
  /\ Respond(p, "commitRevoke")
  /\ Revoke(p)
  /\ acknowledged' = acknowledged \cup {target[p]}
  /\ UNCHANGED now

(* A database call raises: 500.  A commit may have taken effect before, as   *)
(* when the new key cannot be read back: nobody learns its secret.          *)
DependencyFails(p) ==
  /\ Faults
  /\ \E from \in {"lookup", "touch", "create", "revoke", "commitRevoke"} : Respond(p, from)
  /\ \/ UNCHANGED tables
     \/ pc[p] = "create" /\ InsertKey(p)
     \/ pc[p] = "commitRevoke" /\ Revoke(p)
  /\ UNCHANGED <<now, acknowledged>>

Tick ==
  /\ now < MaxTime
  /\ now' = now + 1
  /\ UNCHANGED <<tables, pc, locals, acknowledged>>

Authenticate(p) ==
  \/ OidcPrincipal(p) \/ PresentKey(p) \/ ApiKeyByPrefix(p)
  \/ Unauthenticated(p) \/ Authenticated(p) \/ Touch(p)

Handle(p) ==
  \/ Authenticate(p)
  \/ Authorized(p) \/ PermissionDenied(p) \/ Serve(p)
  \/ CreateApiKey(p) \/ KeyNotCreated(p)
  \/ KeyNotFound(p) \/ AlreadyRevoked(p) \/ LoadKey(p) \/ RevokeApiKey(p)

Next == Tick \/ \E p \in Requests : Handle(p) \/ DependencyFails(p)

Spec == Init /\ [][Next]_vars
-----------------------------------------------------------------------------
Admitted == {"score", "create", "revoke", "commitRevoke"}
Identified == {"authorize"} \cup Admitted

(* Keys, requests and principals have the shapes the code gives them.       *)
TypeOK ==
  /\ now \in Times
  /\ keys \in [Prefixes -> Keys \cup {Nobody}]
  /\ audit \subseteq Prefixes
  /\ pc \in [Requests -> Identified \cup {"idle", "lookup", "check", "touch"}]
  /\ via \in [Requests -> Prefixes \cup {NoKey}]
  /\ record \in [Requests -> Keys \cup {Nobody}]
  /\ principal \in [Requests -> Principals \cup {Nobody}]
  /\ \A p \in Requests : principal[p] # Nobody <=> pc[p] \in Identified
  /\ target \in [Requests -> Prefixes \cup {NoKey}]
  /\ parent \in [Prefixes -> Prefixes \cup {NoKey}]
  /\ revokers \in [Prefixes -> SUBSET Organizations]
  /\ acknowledged \subseteq Prefixes
  /\ arrival \in [Requests -> [time: Times, revoked: SUBSET Prefixes]]

(* A revocation that was answered lasts, and is in the audit trail: no       *)
(* request that looked the key up before can undo it.                        *)
RevocationLasts == \A k \in acknowledged : keys[k].revoked /\ k \in audit

(* A request that presents a key after its revocation was answered, or after *)
(* its expiry, reaches no endpoint, whatever it overlaps with.               *)
DeadKeysOpenNothing ==
  \A p \in Requests : pc[p] \in Admitted /\ via[p] # NoKey =>
    /\ via[p] \notin arrival[p].revoked
    /\ keys[via[p]].expires > arrival[p].time

(* Keys created with keys never widen what the first of them could do, and   *)
(* what a request may do is never more than its key says.                    *)
ScopesNeverWiden ==
  /\ \A k \in Prefixes : keys[k] # Nobody /\ parent[k] # NoKey =>
       keys[k].permissions \subseteq keys[parent[k]].permissions
  /\ \A p \in Requests : pc[p] \in Identified /\ via[p] # NoKey =>
       principal[p].permissions = keys[via[p]].permissions

(* Keys are created, used and revoked within one organization.               *)
TenantsManageTheirOwn ==
  /\ \A k \in Prefixes : keys[k] # Nobody =>
       /\ revokers[k] \subseteq {keys[k].organization}
       /\ parent[k] # NoKey => keys[k].organization = keys[parent[k]].organization
  /\ \A p \in Requests : pc[p] \in Identified /\ via[p] # NoKey =>
       principal[p].organization = keys[via[p]].organization
-----------------------------------------------------------------------------
(* A request has the authority of its key from the look-up on, unless the   *)
(* check of the row refuses it, be it that the key expires until then.      *)
GrantOf(row) == IF row = Nobody THEN Nobody
                ELSE [organization |-> row.organization, permissions |-> row.permissions]
Authority ==
  [p \in Requests |->
     CASE pc[p] \in Identified -> principal[p]
       [] pc[p] = "touch" \/ (pc[p] = "check" /\ Valid(record[p])) -> GrantOf(record[p])
       [] OTHER -> Nobody]

Granted == [k \in Prefixes |-> GrantOf(keys[k])]
RevokedKeys == {k \in Prefixes : keys[k] # Nobody /\ keys[k].revoked}
ExpiredKeys == {k \in Prefixes : keys[k] # Nobody /\ keys[k].expires <= now}

People == [organization: Organizations, permissions: {RolePermissions[r] : r \in Roles}]

Access == INSTANCE AccessControl WITH
            Grants <- Principals,
            grant <- Granted, revoked <- RevokedKeys, expired <- ExpiredKeys,
            authority <- Authority

(* Although a key is looked up, checked, used and revoked in steps that       *)
(* overlap, requests have the authority, and keys the fate, that atomic       *)
(* access control would give them.                                            *)
AccessSpec == Access!Spec
=============================================================================
