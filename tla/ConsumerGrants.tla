---------------------------- MODULE ConsumerGrants ----------------------------
(***************************************************************************)
(* Grants (ConsumerGrantService over ConsumerGrantStore) for one           *)
(* Credential, and what happens to that Credential meanwhile.              *)
(*                                                                         *)
(* A grant names the consumer, the Credential and Secret fields.  Every    *)
(* operation on grants runs in the service's queue: it loads the file,     *)
(* decides, and saves the whole of it; creation and update validate first  *)
(* and once more inside the binding lock, as beforeCommit of the save.     *)
(***************************************************************************)
EXTENDS ApiTokens, FiniteSets

CONSTANTS Stored,        \* Secret fields that are stored
          Derived,       \* Secret fields the provider derives ...
          Inputs,        \* ... from these stored ones
          Profiles,      \* digests of provider profiles
          MaxVersion     \* bound on the version of the Credential

VARIABLES cred,          \* the stored Credential: state, version, fields with a value
          expired,       \* its expiresAt has passed
          profile,       \* digest of the provider's current profile ...
          registered,    \* ... and whether the provider is in the registry
          grants,        \* consumer-grants.json: fields granted per consumer
          revision,      \* consumer-grants.json: revision
          granting,      \* the operation in the grants' queue, or None
          cleaned        \* cleanupForCredential has completed (history)

grantVars == <<cred, expired, profile, registered, grants, revision, granting, cleaned>>

Names == Stored \cup Derived
BoundProfile == CHOOSE p \in Profiles : TRUE       \* the one the Credential is bound to
NoGrant == {}

ASSUME GrantsAssumption ==
  /\ Stored \cap Derived = {} /\ Inputs \subseteq Stored
  /\ IsFiniteSet(Names) /\ Names # {} /\ Profiles # {}
  /\ MaxVersion \in Nat \ {0}

Credential == [state : {"active", "revoked", "gone"}, version : 1 .. MaxVersion,
               stored : SUBSET Stored]

GrantInit ==
  /\ cred = [state |-> "active", version |-> 1, stored |-> Stored]
  /\ expired = FALSE /\ profile = BoundProfile /\ registered = TRUE
  /\ grants = [t \in Tokens |-> NoGrant] /\ revision = 0
  /\ granting = None /\ cleaned = FALSE

-----------------------------------------------------------------------------
\* The Credential changes inside the binding lock; a revoked one only goes.
UpdateCredential(fields) ==
  /\ Spend
  /\ lock = None /\ cred.state = "active" /\ cred.version < MaxVersion
  /\ cred' = [cred EXCEPT !.version = @ + 1, !.stored = fields]
  /\ UNCHANGED <<token, lapsed, principal, lock, tokenQueue, minting, deleting>>
  /\ UNCHANGED <<expired, profile, registered, grants, revision, granting, cleaned>>

RevokeCredential ==
  /\ Spend
  /\ lock = None /\ cred.state = "active"
  /\ cred' = [cred EXCEPT !.state = "revoked"]
  /\ UNCHANGED <<token, lapsed, principal, lock, tokenQueue, minting, deleting>>
  /\ UNCHANGED <<expired, profile, registered, grants, revision, granting, cleaned>>

\* The last step of a deletion comes after the cleanup of the grants.
EraseCredential ==
  /\ lock = None /\ cred.state = "revoked" /\ cleaned
  /\ cred' = [cred EXCEPT !.state = "gone"]
  /\ UNCHANGED <<tokenVars, expired, profile, registered, grants, revision, granting, cleaned>>

ExpireCredential ==
  /\ Spend
  /\ ~expired /\ expired' = TRUE
  /\ UNCHANGED <<token, lapsed, principal, lock, tokenQueue, minting, deleting>>
  /\ UNCHANGED <<cred, profile, registered, grants, revision, granting, cleaned>>

\* A provider is taken out of the registry while it is edited or disabled, outside
\* of every lock; with dependent Credentials it comes back with the same profile.
ToggleProvider ==
  /\ Spend
  /\ registered' = ~registered
  /\ UNCHANGED <<token, lapsed, principal, lock, tokenQueue, minting, deleting>>
  /\ UNCHANGED <<cred, expired, profile, grants, revision, granting, cleaned>>

-----------------------------------------------------------------------------
\* A derived field needs its inputs stored; any other a value of its own.
Available(c, n) == IF n \in Derived THEN Inputs \subseteq c.stored ELSE n \in c.stored

ProfileCompatible == registered /\ profile = BoundProfile

\* prepareGrant on an active Credential; a derived field is injectable by contract.
Injectable(n) == n \in Derived \/ n \in cred.stored

ValidAnyhow(t, names) == cred.state # "gone"     \* mutant: not validated again

Valid(t, names) ==
  /\ EffectiveConsumer(t)
  /\ cred.state = "active"
  /\ ProfileCompatible
  /\ \A n \in names : Injectable(n)

\* createGrant and updateGrant: validate, load, and decide on what was loaded.
BeginSaveGrant(kind, t, names) ==
  /\ Spend
  /\ granting = None
  /\ names # {} /\ Valid(t, names)
  /\ (kind = "create") <=> (grants[t] = NoGrant)
  /\ granting' = [kind |-> kind, consumer |-> t, names |-> names,
                  base |-> grants, revision |-> revision]
  /\ UNCHANGED <<token, lapsed, principal, lock, tokenQueue, minting, deleting>>
  /\ UNCHANGED <<cred, expired, profile, registered, grants, revision, cleaned>>

BeginDeleteGrant(t) ==
  /\ Spend
  /\ granting = None /\ grants[t] # NoGrant
  /\ granting' = [kind |-> "delete", consumer |-> t, names |-> NoGrant,
                  base |-> grants, revision |-> revision]
  /\ UNCHANGED <<token, lapsed, principal, lock, tokenQueue, minting, deleting>>
  /\ UNCHANGED <<cred, expired, profile, registered, grants, revision, cleaned>>

\* cleanupForCredential, a step of the decommissioning of a revoked Credential.
BeginCleanup ==
  /\ granting = None /\ cred.state = "revoked" /\ ~cleaned
  /\ granting' = [kind |-> "cleanup", consumer |-> None, names |-> NoGrant,
                  base |-> grants, revision |-> revision]
  /\ UNCHANGED <<tokenVars, cred, expired, profile, registered, grants, revision, cleaned>>

\* The collection the operation saves, made from what it loaded.
Proposed(g) ==
  [t \in Tokens |-> IF g.kind = "cleanup" THEN NoGrant
                    ELSE IF t = g.consumer THEN g.names ELSE g.base[t]]

MayCommit(g) ==
  /\ revision = g.revision
  /\ g.kind \in {"create", "update"} => Valid(g.consumer, g.names)

\* ConsumerGrantStore.save: revision, beforeCommit and file inside the lock.
CommitGrants ==
  /\ granting # None /\ lock = None
  /\ MayCommit(granting)
  /\ grants' = Proposed(granting) /\ revision' = revision + 1
  /\ cleaned' = (cleaned \/ granting.kind = "cleanup")
  /\ granting' = None
  /\ UNCHANGED <<tokenVars, cred, expired, profile, registered>>

\* A cleanup that finds no grant saves nothing.
NothingToClean ==
  /\ granting # None /\ granting.kind = "cleanup"
  /\ \A t \in Tokens : granting.base[t] = NoGrant
  /\ granting' = None /\ cleaned' = TRUE
  /\ UNCHANGED <<tokenVars, cred, expired, profile, registered, grants, revision>>

\* A validation or the write fails; a cleanup will be tried again.
AbandonGrants ==
  /\ granting # None
  /\ granting' = None
  /\ UNCHANGED <<tokenVars, cred, expired, profile, registered, grants, revision, cleaned>>

GrantNext ==
  \/ RevokeCredential \/ EraseCredential \/ ExpireCredential \/ ToggleProvider
  \/ \E f \in SUBSET Stored : UpdateCredential(f)
  \/ BeginCleanup \/ CommitGrants \/ NothingToClean \/ AbandonGrants
  \/ \E t \in Tokens : \/ BeginDeleteGrant(t)
                       \/ \E n \in SUBSET Names, k \in {"create", "update"} : BeginSaveGrant(k, t, n)
=============================================================================
