---------------------------- MODULE ConsumerAccess ----------------------------
(***************************************************************************)
(* A consumer asks for Secrets: the request is authenticated and           *)
(* authorized (OAuthCallbackServer), then resolved                         *)
(* (ConsumerCredentialService), while tokens, principals, the Credential,  *)
(* its provider profile and its grants change.                             *)
(*                                                                         *)
(* A request passes the stages of After one by one; every stage is one     *)
(* read with the checks on it, so anything may happen between two.  The    *)
(* last reads, the audit record and the delivery are inside the binding    *)
(* lock.  A batch is a set of requests with the same token.                *)
(***************************************************************************)
EXTENDS ConsumerGrants

CONSTANTS Faults         \* which of "audit", "crash" may happen

VARIABLES req,           \* per request: stage, token, names and what it holds
          delivered      \* requests whose Secrets were delivered

vars == <<tokenVars, grantVars, req, delivered>>
others == <<token, lapsed, principal, minting, deleting, changes, grantVars>>

\* The stage that follows each, and the last one.
After == [load |-> "identify", identify |-> "touch", touch |-> "authorize", authorize |-> "read",
          read |-> "granted", granted |-> "refresh", refresh |-> "credential1",
          credential1 |-> "grant1", grant1 |-> "derive", derive |-> "credential2",
          credential2 |-> "grant2", grant2 |-> "values", values |-> "enter",
          enter |-> "credential3", credential3 |-> "grant3", grant3 |-> "token",
          token |-> "principal", principal |-> "audit", audit |-> "done"]

Ended == {"idle", "refused", "done"}

Idle == [at |-> "idle", token |-> None, names |-> {}, version |-> 0, values |-> {}, dead |-> FALSE]

Init == TokenInit /\ GrantInit /\ req = [r \in Requests |-> Idle] /\ delivered = {}

-----------------------------------------------------------------------------
\* revalidateResolveAuthorization, its two readings.
CredentialHolds(version) ==
  /\ cred.state = "active" /\ ~expired
  /\ ProfileCompatible
  /\ cred.version = version

GrantHolds(t, names) == grants[t] # NoGrant /\ names \subseteq grants[t]

\* getAccessScope: the fields of the Credential that a consumer may resolve.
AccessScopeOfAnyAge(t) ==                  \* mutant: an expired Credential is listed
  IF EffectiveConsumer(t) /\ cred.state = "active" /\ ProfileCompatible
  THEN {n \in grants[t] : Available(cred, n)} ELSE {}

AccessScope(t) ==
  IF EffectiveConsumer(t) /\ cred.state = "active" /\ ~expired /\ ProfileCompatible
  THEN {n \in grants[t] : Available(cred, n)} ELSE {}

\* discover lists the Credential; diagnose would answer RESOLVE_SUCCESS.
Discovered(t) == cred.state = "active" /\ ~expired /\ ProfileCompatible /\ grants[t] # NoGrant
Diagnosed(t, names) ==
  /\ cred.state = "active"
  /\ GrantHolds(t, names)
  /\ \A n \in names : n \in Derived \/ n \in cred.stored

-----------------------------------------------------------------------------
\* authenticate, before the queue: the token is looked up by its prefix.
Arrive(r, t, names) ==
  /\ req[r].at = "idle" /\ token[t] # "none" /\ names # {}
  /\ req' = [req EXCEPT ![r] = [Idle EXCEPT !.at = "load", !.token = t, !.names = names,
                                            !.dead = Dead(t)]]
  /\ UNCHANGED <<tokenVars, grantVars, delivered>>

At(r, stage) == req[r].at = stage
Pass(r) == req' = [req EXCEPT ![r].at = After[@]]


\* The request is answered with an error; what it holds is given back.
GiveBack(r) ==
  /\ tokenQueue' = IF tokenQueue = r THEN None ELSE tokenQueue
  /\ lock' = IF lock = r THEN None ELSE lock

Refuse(r) ==
  /\ req' = [req EXCEPT ![r].at = "refused"]
  /\ GiveBack(r)
  /\ UNCHANGED <<others, delivered>>

\* authenticateMatched reads the token again inside the queue ...
LoadToken(r) ==
  /\ At(r, "load") /\ tokenQueue = None
  /\ token[req[r].token] = "live" /\ req[r].token \notin lapsed
  /\ Pass(r) /\ tokenQueue' = r
  /\ UNCHANGED <<quiet, lock, grantVars, delivered>>

\* ... then its principal, by generation: a removed one never returns ...
IdentifiedAnyhow(r) == TRUE                 \* mutant
IdentifiedOwner(r) == Identified(Owner[req[r].token])

IdentifyPrincipal(r) ==
  /\ At(r, "identify") /\ IdentifiedOwner(r)
  /\ Pass(r)
  /\ UNCHANGED <<tokenVars, grantVars, delivered>>

\* ... and saves lastUsedAt, which a revocation in the file survives.
TouchToken(r) ==
  /\ At(r, "touch") /\ Saved(req[r].token) = "live"
  /\ Pass(r) /\ tokenQueue' = None
  /\ UNCHANGED <<quiet, lock, grantVars, delivered>>

\* consumerAuthorized: the role of the principal.
AuthorizeConsumer(r) ==
  /\ At(r, "authorize") /\ Authorized(Owner[req[r].token])
  /\ Pass(r)
  /\ UNCHANGED <<tokenVars, grantVars, delivered>>

\* resolve, first decision.
ReadCredential(r) ==
  /\ At(r, "read") /\ cred.state = "active" /\ ProfileCompatible
  /\ req' = [req EXCEPT ![r].at = After[@], ![r].version = cred.version]
  /\ UNCHANGED <<tokenVars, grantVars, delivered>>

FindGrant(r) ==
  /\ \/ At(r, "granted")
     \/ \E stage \in {"grant1", "grant2", "grant3"} : At(r, stage)
  /\ GrantHolds(req[r].token, req[r].names)
  /\ Pass(r)
  /\ UNCHANGED <<tokenVars, grantVars, delivered>>

\* refreshIfDue: nothing is due, or the renewal commits a new version.
NotDue(r) ==
  /\ At(r, "refresh")
  /\ Pass(r)
  /\ UNCHANGED <<tokenVars, grantVars, delivered>>

RefreshDue(r) ==
  /\ At(r, "refresh") /\ lock = None
  /\ cred.state = "active" /\ cred.version = req[r].version /\ cred.version < MaxVersion
  /\ cred' = [cred EXCEPT !.version = @ + 1]
  /\ req' = [req EXCEPT ![r].at = After[@], ![r].version = @ + 1]
  /\ UNCHANGED <<tokenVars, expired, profile, registered, grants, revision, granting, cleaned, delivered>>

CheckCredential(r) ==
  /\ \E stage \in {"credential1", "credential2", "credential3"} : At(r, stage)
  /\ CredentialHolds(req[r].version)
  /\ Pass(r)
  /\ UNCHANGED <<tokenVars, grantVars, delivered>>

\* deriveRuntimeSecrets; the provider may fail, which Refusal covers.
Derive(r) ==
  /\ At(r, "derive")
  /\ req[r].names \cap Derived # {} => Inputs \subseteq cred.stored
  /\ Pass(r)
  /\ UNCHANGED <<tokenVars, grantVars, delivered>>

TakeValues(r) ==
  /\ At(r, "values")
  /\ req[r].names \ Derived \subseteq cred.stored
  /\ req' = [req EXCEPT ![r].at = After[@], ![r].values = req[r].names]
  /\ UNCHANGED <<tokenVars, grantVars, delivered>>

\* The commit domain of the delivery.
EnterLock(r) ==
  /\ At(r, "enter") /\ lock = None
  /\ Pass(r) /\ lock' = r
  /\ UNCHANGED <<quiet, tokenQueue, grantVars, delivered>>

\* revalidateDeliveryConsumerIdentity: the token, then its principal and role.
CheckToken(r) ==
  /\ At(r, "token")
  /\ token[req[r].token] = "live" /\ req[r].token \notin lapsed
  /\ Pass(r)
  /\ UNCHANGED <<tokenVars, grantVars, delivered>>

AuthorizedAnyhow(t) == token[t] # "none"     \* mutant
AuthorizedDelivery(t) == Authorized(Owner[t])

CheckPrincipal(r) ==
  /\ At(r, "principal") /\ AuthorizedDelivery(req[r].token)
  /\ Pass(r)
  /\ UNCHANGED <<tokenVars, grantVars, delivered>>

\* The audit record of success is written, and the Secrets are returned.
Deliver(r) ==
  /\ At(r, "audit")
  /\ Pass(r)
  /\ delivered' = delivered \cup {r}
  /\ lock' = None
  /\ UNCHANGED <<quiet, tokenQueue, grantVars>>

\* What each stage wants; a stage that waits for a lock is never refused.
Wanted(r) ==
  LET at == req[r].at
      t == req[r].token
  IN  CASE at \in {"load", "token"} -> token[t] = "live" /\ t \notin lapsed
        [] at = "identify" -> IdentifiedOwner(r)
        [] at = "touch" -> Saved(t) = "live"
        [] at = "authorize" -> Authorized(Owner[t])
        [] at = "principal" -> AuthorizedDelivery(t)
        [] at = "read" -> cred.state = "active" /\ ProfileCompatible
        [] at \in {"granted", "grant1", "grant2", "grant3"} -> GrantHolds(t, req[r].names)
        [] at \in {"credential1", "credential2", "credential3"} -> CredentialHolds(req[r].version)
        [] at = "values" -> req[r].names \ Derived \subseteq cred.stored
        [] at \in {"refresh", "derive"} -> FALSE             \* the provider may fail
        [] at = "audit" -> "audit" \notin Faults
        [] OTHER -> TRUE

Refusal(r) ==
  /\ req[r].at \notin Ended
  /\ req[r].at = "load" => tokenQueue = None
  /\ ~Wanted(r)
  /\ Refuse(r)

RequestStep(r) ==
  \/ LoadToken(r) \/ IdentifyPrincipal(r) \/ TouchToken(r) \/ AuthorizeConsumer(r)
  \/ ReadCredential(r) \/ FindGrant(r) \/ NotDue(r) \/ RefreshDue(r) \/ CheckCredential(r)
  \/ Derive(r) \/ TakeValues(r) \/ EnterLock(r) \/ CheckToken(r) \/ CheckPrincipal(r)
  \/ Deliver(r) \/ Refusal(r)

\* The process restarts: files stay, everything under way is gone; a new release
\* may bring another profile of the provider.
Crash ==
  /\ "crash" \in Faults /\ Spend
  /\ lock' = None /\ tokenQueue' = None /\ minting' = None /\ deleting' = None
  /\ granting' = None
  /\ req' = [r \in Requests |-> IF req[r].at \in Ended THEN req[r] ELSE [req[r] EXCEPT !.at = "refused"]]
  /\ profile' \in Profiles /\ registered' \in {registered, TRUE}
  /\ UNCHANGED <<token, lapsed, principal, cred, expired, grants, revision, cleaned, delivered>>

Next ==
  \/ TokenNext /\ UNCHANGED <<grantVars, req, delivered>>
  \/ GrantNext /\ UNCHANGED <<req, delivered>>
  \/ Crash
  \/ \E r \in Requests : \/ RequestStep(r)
                         \/ \E t \in Tokens, n \in SUBSET Names : Arrive(r, t, n)

Spec == Init /\ [][Next]_vars

-----------------------------------------------------------------------------
\* Everything that entitles a request to the Secrets it has read, at one instant;
\* that time passes (lapsed, expired) is outside of everybody's control, and the
\* registry of providers changes without the lock.
Entitled(r) ==
  LET t == req[r].token
  IN  /\ token[t] = "live" /\ Authorized(Owner[t])
      /\ cred.state = "active" /\ cred.version = req[r].version
      /\ profile = BoundProfile
      /\ GrantHolds(t, req[r].values)

\* Secrets are handed over only while token, principal, role, Credential, provider
\* profile and grant still agree, although each was read by itself: "This prevents
\* a stale success audit or secret delivery after revoke, scope removal or RBAC
\* mutation" (consumer-credential-service.js:210-213).
DeliveredWhileEntitled == [][\A r \in delivered' \ delivered : Entitled(r)]_vars

\* A request that arrives when its token is revoked or its principal deleted gets
\* past authentication never, not even with a token that was created while
\* the principal was being deleted, or after a restart.
DeadTokensStayOut ==
  \A r \in Requests : req[r].dead => req[r].at \in {"load", "identify", "refused"}

\* Once the grants of a revoked Credential have been cleaned up none appears again,
\* from an operation that validated before the revocation either.
CleanedStaysClean == cleaned => \A t \in Tokens : grants[t] = NoGrant

\* Three views of one entitlement agree in every state: the fields of the access
\* scope are those a resolve would deliver now, and the Credential is then listed by
\* discovery and accepted by diagnose (consumer-credential-service.js:34-37).
ScopeIsWhatResolveDelivers ==
  \A t \in Tokens, n \in Names :
    LET resolves == /\ EffectiveConsumer(t) /\ CredentialHolds(cred.version)
                    /\ GrantHolds(t, {n}) /\ Available(cred, n)
    IN  /\ n \in AccessScope(t) <=> resolves
        /\ resolves => Discovered(t) /\ Diagnosed(t, {n})
=============================================================================
