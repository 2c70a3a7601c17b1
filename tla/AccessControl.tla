---------------------------- MODULE AccessControl ----------------------------
(***************************************************************************)
(* What API keys promise about access.  A key is a grant of permissions in  *)
(* one organization that nobody ever changes.  Only somebody who manages    *)
(* keys of that organization issues it, out of the permissions he holds, or *)
(* revokes it, for ever.  A request gets its authority at one moment, from  *)
(* an identity token or from a key that is neither revoked nor expired at   *)
(* that moment.  Module ApiKeys implements it (ApiKeys!AccessSpec).         *)
(***************************************************************************)
CONSTANTS Requests, Prefixes,
          People,   \* what identity tokens may say
          Grants,   \* what a key may say: an organization and permissions
          Nobody

VARIABLES grant,    \* what an issued key says
          revoked, expired,
          authority \* what a request may do

accessVars == <<grant, revoked, expired, authority>>

Init ==
  /\ grant = [k \in Prefixes |-> Nobody]
  /\ revoked = {} /\ expired = {}
  /\ authority = [p \in Requests |-> Nobody]

Act(p, as) == authority' = [authority EXCEPT ![p] = as]

Manages(p, organization) ==
  /\ authority[p] # Nobody
  /\ authority[p].organization = organization
  /\ "integration.manage" \in authority[p].permissions

SignIn(p) ==
  /\ authority[p] = Nobody
  /\ \E person \in People : Act(p, person)
  /\ UNCHANGED <<grant, revoked, expired>>

Open(p, k) ==
  /\ authority[p] = Nobody
  /\ grant[k] # Nobody /\ k \notin revoked \cup expired
  /\ Act(p, grant[k])
  /\ UNCHANGED <<grant, revoked, expired>>

(* A key may be expired when it is issued.                                  *)
Issue(p, k) ==
  /\ grant[k] = Nobody
  /\ \E g \in Grants : /\ Manages(p, g.organization)
                       /\ g.permissions \subseteq authority[p].permissions
                       /\ grant' = [grant EXCEPT ![k] = g]
  /\ expired' \in {expired, expired \cup {k}}
  /\ Act(p, Nobody)
  /\ UNCHANGED revoked

Revoke(p, k) ==
  /\ grant[k] # Nobody /\ Manages(p, grant[k].organization)
  /\ revoked' = revoked \cup {k}
  /\ Act(p, Nobody)
  /\ UNCHANGED <<grant, expired>>

(* The request is refused, served, or fails.                                *)
End(p) == Act(p, Nobody) /\ UNCHANGED <<grant, revoked, expired>>

(* Time passes.  A request that the key has opened may still be refused,    *)
(* or may already be past the point where expiry counts.                    *)
Expire ==
  \E dead \in SUBSET {k \in Prefixes : grant[k] # Nobody} :
    /\ expired' = expired \cup dead
    /\ \E refused \in SUBSET {p \in Requests : \E k \in dead \ expired : authority[p] = grant[k]} :
         authority' = [p \in Requests |-> IF p \in refused THEN Nobody ELSE authority[p]]
    /\ UNCHANGED <<grant, revoked>>

Next ==
  \/ \E p \in Requests :
       \/ End(p) \/ SignIn(p)
       \/ \E k \in Prefixes : Open(p, k) \/ Issue(p, k) \/ Revoke(p, k)
  \/ Expire

Spec == Init /\ [][Next]_accessVars
=============================================================================
