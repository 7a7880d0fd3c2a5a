-------------------------- MODULE ConsumerAccessProofs --------------------------
(***************************************************************************)
(* What ConsumerAccess promises, for any tokens, principals, requests,     *)
(* Secret fields and profiles, and any number of changes.                  *)
(*                                                                         *)
(* A request knows more with every stage it passes.  What it knows stays   *)
(* true for two reasons: revoked tokens and deleted principals never come  *)
(* back, and whoever changes anything else takes the binding lock, which a *)
(* request holds from its last reading of the Credential to the delivery.  *)
(***************************************************************************)
EXTENDS ConsumerAccess, TLAPS

InLock == {"credential3", "grant3", "token", "principal", "audit"}
Stages == Ended \cup InLock \cup
          {"load", "identify", "touch", "authorize", "read", "granted", "refresh",
           "credential1", "grant1", "derive", "credential2", "grant2", "values", "enter"}

Request == [at : Stages, token : Tokens \cup {None}, names : SUBSET Names,
            version : Nat, values : SUBSET Names, dead : BOOLEAN]
GrantOperation == [kind : {"create", "update", "delete", "cleanup"},
                   consumer : Tokens \cup {None}, names : SUBSET Names,
                   base : [Tokens -> SUBSET Names], revision : Nat]

TypeOK ==
  /\ token \in [Tokens -> {"none", "live", "revoked"}]
  /\ principal \in [Users -> PrincipalStates]
  /\ cred \in Credential
  /\ grants \in [Tokens -> SUBSET Names] /\ revision \in Nat
  /\ granting \in GrantOperation \cup {None}
  /\ req \in [Requests -> Request]

\* Whoever arrived dead is stopped where its death shows.
Stopped(q) ==
  \/ q.at = "load" /\ Dead(q.token)
  \/ q.at = "identify" /\ principal[Owner[q.token]] = "gone"
  \/ q.at = "refused"

\* What a request knows at its stage.
Knows(r) ==
  LET q == req[r] IN
  /\ q.at # "idle" => q.token \in Tokens
  /\ q.dead => Stopped(q)
  /\ q.at \in InLock => lock = r
  /\ q.at \in InLock \cup {"enter"} => q.values = q.names
  /\ q.at \in InLock \ {"credential3"} =>
       cred.state = "active" /\ cred.version = q.version /\ profile = BoundProfile
  /\ q.at \in {"token", "principal", "audit"} => GrantHolds(q.token, q.names)
  /\ q.at \in {"principal", "audit"} => token[q.token] = "live"
  /\ q.at = "audit" => Authorized(Owner[q.token])

\* A user is deleted inside the binding lock.
DeletionHoldsLock == deleting # None => lock = "admin"

\* Nobody saves grants between the load and the save of the one in the queue; a
\* cleanup is begun, and done, only when the Credential is no longer active.
GrantsAreQueued ==
  /\ granting # None => /\ granting.base = grants
                        /\ granting.kind = "delete" => granting.names = NoGrant
  /\ granting # None /\ granting.kind = "cleanup" => cred.state # "active"
  /\ cleaned => cred.state # "active"

IInv == /\ TypeOK /\ DeletionHoldsLock /\ GrantsAreQueued /\ CleanedStaysClean
        /\ \A r \in Requests : Knows(r)
-----------------------------------------------------------------------------
(* What others do: a request that holds the lock sees nothing change.       *)

LEMMA Names3 ==
  /\ None \notin Requests /\ "admin" \notin Requests /\ None # "admin"
BY TokensAssumption

LEMMA OwnersAreUsers == ASSUME NEW t \in Tokens PROVE Owner[t] \in Users
BY TokensAssumption

\* The dead stay dead, and the lock keeps the rest.
Harmless ==
  /\ \A t \in Tokens : token[t] = "revoked" => token'[t] = "revoked"
  /\ \A u \in Users : principal[u] = "gone" => principal'[u] = "gone"
  /\ lock \in Requests =>
       /\ lock' = lock
       /\ UNCHANGED <<cred, profile, grants, principal>>
       /\ \A t \in Tokens : token[t] = "live" => token'[t] = "live"

LEMMA OthersKeep ==
  ASSUME IInv, Harmless, UNCHANGED req
  PROVE  \A r \in Requests : Knows(r)'
<1> SUFFICES ASSUME NEW r \in Requests PROVE Knows(r)'
  OBVIOUS
<1>1. Knows(r) /\ req' = req
  BY DEF IInv
<1>2. CASE req[r].at \in InLock
  <2>1. lock = r /\ req[r].token \in Tokens
    BY <1>1, <1>2 DEF Knows, InLock
  <2>2. /\ lock' = lock /\ cred' = cred /\ profile' = profile
        /\ grants' = grants /\ principal' = principal
        /\ token[req[r].token] = "live" => token'[req[r].token] = "live"
    BY <2>1 DEF Harmless
  <2>3. ~req[r].dead
    BY <1>1, <1>2 DEF Knows, Stopped, InLock
  <2> QED
    BY <1>1, <1>2, <2>1, <2>2, <2>3 DEF Knows, GrantHolds, Authorized
<1>3. CASE req[r].at \notin InLock
  <2>1. req[r].dead => Stopped(req[r])'
    <3> SUFFICES ASSUME req[r].dead PROVE Stopped(req[r])'
      OBVIOUS
    <3>1. Stopped(req[r])
      BY <1>1 DEF Knows
    <3>2. req[r].at # "idle" => req[r].token \in Tokens /\ Owner[req[r].token] \in Users
      BY <1>1, OwnersAreUsers DEF Knows
    <3> QED
      BY <1>1, <3>1, <3>2 DEF Stopped, Dead, Harmless
  <2> QED
    BY <1>1, <1>3, <2>1 DEF Knows, InLock
<1> QED
  BY <1>2, <1>3

-----------------------------------------------------------------------------
(* Tokens and principals.                                                   *)

LEMMA TokenStepsKeep ==
  ASSUME IInv, TokenNext, UNCHANGED <<grantVars, req, delivered>>
  PROVE  IInv'
<1> USE DEF tokenVars, grantVars
<1>1. /\ TypeOK /\ DeletionHoldsLock /\ GrantsAreQueued /\ CleanedStaysClean
  BY DEF IInv
<1>2. /\ token' \in [Tokens -> {"none", "live", "revoked"}]
      /\ principal' \in [Users -> PrincipalStates]
      /\ DeletionHoldsLock' /\ Harmless
  <2>1. CASE EndCreateToken
    BY <1>1, <2>1, Names3 DEF EndCreateToken, Saved, TypeOK, DeletionHoldsLock, Harmless
  <2>2. CASE TokensRevoked
    BY <1>1, <2>2, Names3 DEF TokensRevoked, quiet, TypeOK, DeletionHoldsLock, Harmless
  <2>3. CASE EndDeleteUser
    BY <1>1, <2>3, Names3 DEF EndDeleteUser, TypeOK, PrincipalStates, DeletionHoldsLock, Harmless
  <2>4. CASE DeleteUserFails
    BY <1>1, <2>4, Names3 DEF DeleteUserFails, TypeOK, DeletionHoldsLock, Harmless
  <2>5. ASSUME NEW t \in Tokens, BeginCreateToken(t) \/ LapseToken(t)
        PROVE  UNCHANGED <<token, principal, lock, deleting>>
    BY <2>5 DEF BeginCreateToken, LapseToken
  <2>6. ASSUME NEW t \in Tokens, RevokeToken(t)
        PROVE  /\ token' = [token EXCEPT ![t] = "revoked"] /\ lock = None
               /\ UNCHANGED <<principal, lock, deleting>>
    BY <2>6 DEF RevokeToken
  <2>7. ASSUME NEW t \in Tokens, RevokeForUser(t)
        PROVE  /\ token' = [token EXCEPT ![t] = "revoked"] /\ lock = "admin"
               /\ UNCHANGED <<principal, lock>>
    BY <1>1, <2>7 DEF RevokeForUser, DeletionHoldsLock
  <2>8. ASSUME NEW u \in Users, BeginDeleteUser(u)
        PROVE  /\ lock = None /\ lock' = "admin" /\ UNCHANGED <<token, principal>>
    BY <2>8 DEF BeginDeleteUser
  <2>9. ASSUME NEW u \in Users, NEW s \in PrincipalStates \ {"gone"}, UpdatePrincipal(u, s)
        PROVE  /\ principal' = [principal EXCEPT ![u] = s] /\ principal[u] # "gone" /\ lock = None
               /\ UNCHANGED <<token, lock, deleting>>
    BY <2>9 DEF UpdatePrincipal
  <2>10. CASE \E t \in Tokens : BeginCreateToken(t) \/ LapseToken(t)
    BY <1>1, <2>5, <2>10 DEF TypeOK, DeletionHoldsLock, Harmless
  <2>11. CASE \E t \in Tokens : RevokeToken(t)
    BY <1>1, <2>6, <2>11, Names3 DEF TypeOK, DeletionHoldsLock, Harmless
  <2>12. CASE \E t \in Tokens : RevokeForUser(t)
    BY <1>1, <2>7, <2>12, Names3 DEF TypeOK, DeletionHoldsLock, Harmless
  <2>13. CASE \E u \in Users : BeginDeleteUser(u)
    BY <1>1, <2>8, <2>13, Names3 DEF TypeOK, DeletionHoldsLock, Harmless
  <2>14. CASE \E u \in Users, s \in PrincipalStates \ {"gone"} : UpdatePrincipal(u, s)
    BY <1>1, <2>9, <2>14, Names3 DEF TypeOK, DeletionHoldsLock, Harmless
  <2> QED
    BY <2>1, <2>2, <2>3, <2>4, <2>10, <2>11, <2>12, <2>13, <2>14 DEF TokenNext
<1>3. TypeOK'
  BY <1>1, <1>2 DEF TypeOK
<1>4. GrantsAreQueued' /\ CleanedStaysClean'
  BY <1>1 DEF GrantsAreQueued, CleanedStaysClean
<1>5. \A r \in Requests : Knows(r)'
  BY <1>2, OthersKeep
<1> QED
  BY <1>2, <1>3, <1>4, <1>5 DEF IInv

-----------------------------------------------------------------------------
(* The Credential and its grants.                                           *)

LEMMA StateChanges ==
  ASSUME NEW c \in Credential, NEW s \in {"revoked", "gone"}
  PROVE  /\ [c EXCEPT !.state = s] \in Credential
         /\ [c EXCEPT !.state = s].state # "active"
<1> DEFINE d == [c EXCEPT !.state = s]
<1>1. d = [state |-> s, version |-> c.version, stored |-> c.stored]
  BY DEF Credential
<1>2. c.version \in 1 .. MaxVersion /\ c.stored \in SUBSET Stored
  BY DEF Credential
<1>3. d \in Credential
  BY <1>1, <1>2 DEF Credential
<1> QED
  BY <1>1, <1>3

LEMMA VersionChanges ==
  ASSUME NEW c \in Credential, NEW f \in SUBSET Stored, c.version < MaxVersion
  PROVE  /\ [c EXCEPT !.version = c.version + 1] \in Credential
         /\ [c EXCEPT !.version = c.version + 1, !.stored = f] \in Credential
<1>1. c.version + 1 \in 1 .. MaxVersion
  BY GrantsAssumption DEF Credential
<1> DEFINE v == c.version + 1
<1> HIDE DEF v
<1>2. v \in 1 .. MaxVersion
  BY <1>1 DEF v
<1>3. [c EXCEPT !.version = v] \in Credential
  BY <1>2 DEF Credential
<1>4. [c EXCEPT !.version = v, !.stored = f] \in Credential
  BY <1>2 DEF Credential
<1> QED
  BY <1>3, <1>4 DEF v

LEMMA GrantStepsKeep ==
  ASSUME IInv, GrantNext, UNCHANGED <<req, delivered>>
  PROVE  IInv'
<1> USE DEF tokenVars, NoGrant
<1>1. /\ TypeOK /\ DeletionHoldsLock /\ GrantsAreQueued /\ CleanedStaysClean
  BY DEF IInv
<1>2. UNCHANGED <<token, principal, lock, deleting, profile>>
  BY DEF GrantNext, RevokeCredential, EraseCredential, ExpireCredential, ToggleProvider,
         UpdateCredential, BeginCleanup, CommitGrants, NothingToClean, AbandonGrants,
         BeginDeleteGrant, BeginSaveGrant
<1>3. CASE UNCHANGED <<cred, grants, revision, granting, cleaned>>
  <2>1. Harmless
    BY <1>2, <1>3 DEF Harmless
  <2>2. \A r \in Requests : Knows(r)'
    BY <2>1, OthersKeep
  <2> QED
    BY <1>1, <1>2, <1>3, <2>2 DEF IInv, TypeOK, DeletionHoldsLock, GrantsAreQueued, CleanedStaysClean
<1>4. CASE /\ lock = None /\ cred' \in Credential
           /\ cred'.state = "active" => cred.state = "active"
           /\ UNCHANGED <<grants, revision, granting, cleaned>>
  <2>1. Harmless
    BY <1>2, <1>4, Names3 DEF Harmless
  <2>2. \A r \in Requests : Knows(r)'
    BY <2>1, OthersKeep
  <2>3. TypeOK' /\ DeletionHoldsLock' /\ CleanedStaysClean'
    BY <1>1, <1>2, <1>4 DEF TypeOK, DeletionHoldsLock, CleanedStaysClean
  <2>4. GrantsAreQueued'
    BY <1>1, <1>4 DEF GrantsAreQueued
  <2> QED
    BY <2>2, <2>3, <2>4 DEF IInv
<1>5. CASE /\ granting' \in GrantOperation \cup {None}
           /\ granting' # None =>
                /\ granting'.base = grants
                /\ granting'.kind = "delete" => granting'.names = NoGrant
                /\ granting'.kind = "cleanup" => cred.state # "active"
           /\ UNCHANGED <<cred, grants, revision, cleaned>>
  <2>1. Harmless
    BY <1>2, <1>5 DEF Harmless
  <2>2. \A r \in Requests : Knows(r)'
    BY <2>1, OthersKeep
  <2> QED
    BY <1>1, <1>2, <1>5, <2>2 DEF IInv, TypeOK, DeletionHoldsLock, GrantsAreQueued, CleanedStaysClean
<1>6. CASE RevokeCredential \/ EraseCredential \/ \E f \in SUBSET Stored : UpdateCredential(f)
  <2>1. cred' \in Credential /\ (cred'.state = "active" => cred.state = "active")
    <3>1. CASE RevokeCredential
      BY <1>1, <3>1, StateChanges DEF RevokeCredential, TypeOK
    <3>2. CASE EraseCredential
      BY <1>1, <3>2, StateChanges DEF EraseCredential, TypeOK
    <3>3. CASE \E f \in SUBSET Stored : UpdateCredential(f)
      <4> PICK f \in SUBSET Stored : UpdateCredential(f)
        BY <3>3
      <4>1. /\ cred \in Credential /\ cred.version < MaxVersion /\ cred.state = "active"
            /\ cred' = [cred EXCEPT !.version = cred.version + 1, !.stored = f]
        BY <1>1 DEF UpdateCredential, TypeOK
      <4> QED
        BY <4>1, VersionChanges
    <3> QED
      BY <1>6, <3>1, <3>2, <3>3
  <2>2. lock = None /\ UNCHANGED <<grants, revision, granting, cleaned>>
    BY <1>6 DEF RevokeCredential, EraseCredential, UpdateCredential
  <2> QED
    BY <1>4, <2>1, <2>2
<1>7. CASE ExpireCredential \/ ToggleProvider
  BY <1>3, <1>7 DEF ExpireCredential, ToggleProvider
<1>8. CASE BeginCleanup \/ AbandonGrants
            \/ \E t \in Tokens : \/ BeginDeleteGrant(t)
                                 \/ \E n \in SUBSET Names, k \in {"create", "update"} : BeginSaveGrant(k, t, n)
  <2>1. UNCHANGED <<cred, grants, revision, cleaned>>
    BY <1>8 DEF BeginCleanup, AbandonGrants, BeginDeleteGrant, BeginSaveGrant
  <2>2. /\ granting' \in GrantOperation \cup {None}
        /\ granting' # None => /\ granting'.base = grants
                               /\ granting'.kind = "delete" => granting'.names = NoGrant
                               /\ granting'.kind = "cleanup" => cred.state # "active"
    <3>1. CASE BeginCleanup
      BY <1>1, <3>1 DEF BeginCleanup, TypeOK, GrantOperation
    <3>2. CASE AbandonGrants
      BY <3>2 DEF AbandonGrants
    <3>3. ASSUME NEW t \in Tokens, BeginDeleteGrant(t)
          PROVE  /\ granting' \in GrantOperation \cup {None}
                 /\ granting' # None => /\ granting'.base = grants
                                        /\ granting'.kind = "delete" => granting'.names = NoGrant
                                        /\ granting'.kind = "cleanup" => cred.state # "active"
      BY <1>1, <3>3 DEF BeginDeleteGrant, TypeOK, GrantOperation
    <3>4. ASSUME NEW t \in Tokens, NEW n \in SUBSET Names, NEW k \in {"create", "update"},
                 BeginSaveGrant(k, t, n)
          PROVE  /\ granting' \in GrantOperation \cup {None}
                 /\ granting' # None => /\ granting'.base = grants
                                        /\ granting'.kind = "delete" => granting'.names = NoGrant
                                        /\ granting'.kind = "cleanup" => cred.state # "active"
      BY <1>1, <3>4 DEF BeginSaveGrant, TypeOK, GrantOperation
    <3> QED
      BY <1>8, <3>1, <3>2, <3>3, <3>4
  <2> QED
    BY <1>5, <2>1, <2>2
<1>9. CASE NothingToClean
  <2>1. /\ granting # None /\ granting.kind = "cleanup" /\ granting' = None /\ cleaned' = TRUE
        /\ \A t \in Tokens : granting.base[t] = {}
        /\ UNCHANGED <<cred, grants, revision>>
    BY <1>9 DEF NothingToClean
  <2>2. Harmless
    BY <1>2, <2>1 DEF Harmless
  <2>3. \A r \in Requests : Knows(r)'
    BY <2>2, OthersKeep
  <2> QED
    BY <1>1, <1>2, <2>1, <2>3 DEF IInv, TypeOK, DeletionHoldsLock, GrantsAreQueued, CleanedStaysClean
<1>10. CASE CommitGrants
  <2>1. /\ granting # None /\ lock = None /\ MayCommit(granting)
        /\ grants' = Proposed(granting) /\ revision' = revision + 1
        /\ cleaned' = (cleaned \/ granting.kind = "cleanup")
        /\ granting' = None /\ cred' = cred
    BY <1>10 DEF CommitGrants
  <2>2. Harmless
    BY <1>2, <2>1, Names3 DEF Harmless
  <2>3. \A r \in Requests : Knows(r)'
    BY <2>2, OthersKeep
  <2>4. granting \in GrantOperation
    BY <1>1, <2>1 DEF TypeOK
  <2>5. grants' \in [Tokens -> SUBSET Names]
    BY <2>1, <2>4 DEF Proposed, GrantOperation
  <2>6. CleanedStaysClean'
    <3>1. CASE granting.kind = "cleanup"
      BY <2>1, <3>1 DEF CleanedStaysClean, Proposed
    <3>2. CASE granting.kind = "delete"
      <4>1. granting.names = {}
        BY <1>1, <2>1, <3>2 DEF GrantsAreQueued
      <4> QED
        BY <1>1, <2>1, <3>2, <4>1 DEF CleanedStaysClean, Proposed, GrantsAreQueued
    <3>3. CASE granting.kind \in {"create", "update"}
      BY <1>1, <2>1, <3>3 DEF MayCommit, Valid, GrantsAreQueued, CleanedStaysClean
    <3> QED
      BY <2>4, <3>1, <3>2, <3>3 DEF GrantOperation
  <2>7. GrantsAreQueued'
    BY <1>1, <2>1 DEF GrantsAreQueued
  <2> QED
    BY <1>1, <1>2, <2>1, <2>3, <2>5, <2>6, <2>7 DEF IInv, TypeOK, DeletionHoldsLock
<1> QED
  BY <1>6, <1>7, <1>8, <1>9, <1>10 DEF GrantNext

-----------------------------------------------------------------------------
(* A request moves.                                                         *)

\* What a request changes besides its own record: it takes or leaves the lock.
Alone(r) ==
  /\ req' \in [Requests -> Request]
  /\ \A q \in Requests \ {r} : req'[q] = req[q]
  /\ lock' = lock \/ (lock = r /\ lock' = None) \/ (lock = None /\ lock' = r)
  /\ UNCHANGED <<token, principal, deleting, cred, profile, grants, revision, granting, cleaned>>

LEMMA AloneKeeps ==
  ASSUME IInv, NEW r \in Requests, Alone(r), Knows(r)'
  PROVE  IInv'
<1>1. /\ TypeOK /\ DeletionHoldsLock /\ GrantsAreQueued /\ CleanedStaysClean
      /\ \A q \in Requests : Knows(q)
  BY DEF IInv
<1>2. TypeOK' /\ GrantsAreQueued' /\ CleanedStaysClean'
  BY <1>1 DEF Alone, TypeOK, GrantsAreQueued, CleanedStaysClean
<1>3. DeletionHoldsLock'
  BY <1>1, Names3 DEF Alone, DeletionHoldsLock
<1>4. ASSUME NEW q \in Requests \ {r} PROVE Knows(q)'
  <2>1. Knows(q) /\ req'[q] = req[q]
    BY <1>1 DEF Alone
  <2>2. lock = q => lock' = q
    BY Names3 DEF Alone
  <2> QED
    BY <2>1, <2>2 DEF Alone, Knows, Stopped, Dead, GrantHolds, Authorized
<1> QED
  BY <1>2, <1>3, <1>4 DEF IInv

LEMMA AfterInStages ==
  /\ \A s \in DOMAIN After : s \in Stages /\ After[s] \in Stages \ {"idle", "refused", "load"}
  /\ Stages \ Ended = DOMAIN After
BY DEF After, Stages, Ended, InLock

\* The record of a request after it has passed a stage.
LEMMA PassMoves ==
  ASSUME IInv, NEW r \in Requests, NEW s \in DOMAIN After, At(r, s), Pass(r)
  PROVE  /\ req' \in [Requests -> Request]
         /\ req'[r] = [req[r] EXCEPT !.at = After[s]]
         /\ \A q \in Requests \ {r} : req'[q] = req[q]
         /\ Knows(r) /\ req[r].token \in Tokens
<1>1. req \in [Requests -> Request] /\ Knows(r)
  BY DEF IInv, TypeOK
<1>2. req[r] \in Request /\ req[r].at = s
  BY <1>1 DEF At
<1>3. s # "idle" /\ After[s] \in Stages
  BY AfterInStages DEF After
<1>4. [req[r] EXCEPT !.at = After[s]]
        = [at |-> After[s], token |-> req[r].token, names |-> req[r].names,
           version |-> req[r].version, values |-> req[r].values, dead |-> req[r].dead]
  BY <1>2 DEF Request
<1>5. [req[r] EXCEPT !.at = After[s]] \in Request
  BY <1>2, <1>3, <1>4 DEF Request
<1>6. req' = [req EXCEPT ![r] = [req[r] EXCEPT !.at = After[s]]]
  BY <1>2 DEF Pass
<1>7. req[r].token \in Tokens
  BY <1>1, <1>2, <1>3 DEF Knows
<1> QED
  BY <1>1, <1>5, <1>6, <1>7

\* What a request must have seen to pass a stage.
Learns(r, s) ==
  LET q == req[r] IN
  /\ s = "load" => token[q.token] # "revoked"
  /\ s = "identify" => principal[Owner[q.token]] # "gone"
  /\ s = "enter" => lock' = r
  /\ s \in InLock \ {"audit"} => lock' = lock
  /\ s = "credential3" => cred.state = "active" /\ cred.version = q.version /\ profile = BoundProfile
  /\ s = "grant3" => GrantHolds(q.token, q.names)
  /\ s = "token" => token[q.token] = "live"
  /\ s = "principal" => Authorized(Owner[q.token])

LEMMA PassKeeps ==
  ASSUME IInv, NEW r \in Requests, NEW s \in DOMAIN After \ {"values"}, At(r, s), Pass(r), Learns(r, s),
         lock' = lock \/ (lock = r /\ lock' = None) \/ (lock = None /\ lock' = r),
         UNCHANGED <<token, principal, deleting, cred, profile, grants, revision, granting, cleaned>>
  PROVE  IInv'
<1>1. /\ req' \in [Requests -> Request]
      /\ req'[r] = [req[r] EXCEPT !.at = After[s]]
      /\ \A q \in Requests \ {r} : req'[q] = req[q]
      /\ Knows(r) /\ req[r].token \in Tokens
  BY PassMoves
<1>2. req[r] \in Request /\ req[r].at = s /\ s # "refused"
  BY DEF IInv, TypeOK, At, After
<1>3. /\ req'[r].at = After[s] /\ req'[r].token = req[r].token /\ req'[r].names = req[r].names
      /\ req'[r].version = req[r].version /\ req'[r].values = req[r].values
      /\ req'[r].dead = req[r].dead
  BY <1>1, <1>2 DEF Request
<1>4. req[r].dead => After[s] = "identify" /\ principal[Owner[req[r].token]] = "gone"
  BY <1>1, <1>2 DEF Knows, Learns, Stopped, Dead, After
<1>5. Knows(r)'
  <2>1. CASE s \in {"load", "identify", "touch", "authorize", "read", "granted", "refresh", "credential1",
                    "grant1", "derive", "credential2", "grant2", "audit"}
    <3>1. /\ After[s] \notin InLock \cup {"enter", "idle"}
      BY <2>1 DEF After, InLock
    <3> QED
      BY <1>1, <1>3, <1>4, <3>1 DEF Knows, Stopped, InLock
  <2>2. CASE s = "enter"
    <3>1. After[s] = "credential3"
      BY <2>2 DEF After
    <3> QED
      BY <1>1, <1>2, <1>3, <1>4, <2>2, <3>1 DEF Knows, Learns, InLock
  <2>3. CASE s \in InLock \ {"audit"}
    <3>1. /\ s = "credential3" => After[s] = "grant3"
          /\ s = "grant3" => After[s] = "token"
          /\ s = "token" => After[s] = "principal"
          /\ s = "principal" => After[s] = "audit"
      BY DEF After
    <3>2. s \in {"credential3", "grant3", "token", "principal"}
      BY <2>3 DEF InLock
    <3>3. ~req[r].dead
      BY <1>4, <3>1, <3>2
    <3> QED
      BY <1>1, <1>2, <1>3, <3>1, <3>2, <3>3 DEF Knows, Learns, InLock, GrantHolds, Authorized
  <2> QED
    BY <2>1, <2>2, <2>3 DEF After, InLock
<1> QED
  BY <1>1, <1>5, AloneKeeps DEF Alone

-----------------------------------------------------------------------------
(* The steps of a request.                                                  *)

\* A step that reads, checks and passes.
LEMMA ReadingsKeep ==
  ASSUME IInv, NEW r \in Requests,
         \/ LoadToken(r) \/ IdentifyPrincipal(r) \/ TouchToken(r) \/ AuthorizeConsumer(r)
         \/ FindGrant(r) \/ NotDue(r) \/ CheckCredential(r) \/ Derive(r) \/ EnterLock(r)
         \/ CheckToken(r) \/ CheckPrincipal(r) \/ Deliver(r)
  PROVE  IInv'
<1> USE DEF quiet, tokenVars, grantVars
<1> DEFINE Step(s) ==
      /\ s \in DOMAIN After \ {"values"} /\ At(r, s) /\ Pass(r) /\ Learns(r, s)
      /\ lock' = lock \/ (lock = r /\ lock' = None) \/ (lock = None /\ lock' = r)
      /\ UNCHANGED <<token, principal, deleting, cred, profile, grants, revision, granting, cleaned>>
<1>1. SUFFICES \E s \in DOMAIN After : Step(s)
  BY PassKeeps
<1>2. CASE LoadToken(r)
  <2>1. Step("load")
    BY <1>2 DEF LoadToken, Learns, After, InLock
  <2> QED
    BY <2>1
<1>3. CASE IdentifyPrincipal(r)
  <2>1. Step("identify")
    BY <1>3 DEF IdentifyPrincipal, IdentifiedOwner, Identified, Learns, After, InLock
  <2> QED
    BY <2>1
<1>4. CASE TouchToken(r)
  <2>1. Step("touch")
    BY <1>4 DEF TouchToken, Learns, After, InLock
  <2> QED
    BY <2>1
<1>5. CASE AuthorizeConsumer(r)
  <2>1. Step("authorize")
    BY <1>5 DEF AuthorizeConsumer, Learns, After, InLock
  <2> QED
    BY <2>1
<1>6. CASE FindGrant(r)
  <2>1. PICK s \in {"granted", "grant1", "grant2", "grant3"} : At(r, s)
    BY <1>6 DEF FindGrant
  <2>2. Step(s)
    BY <1>6, <2>1 DEF FindGrant, Learns, After, InLock
  <2> QED
    BY <2>2
<1>7. CASE NotDue(r)
  <2>1. Step("refresh")
    BY <1>7 DEF NotDue, Learns, After, InLock
  <2> QED
    BY <2>1
<1>8. CASE CheckCredential(r)
  <2>1. PICK s \in {"credential1", "credential2", "credential3"} : At(r, s)
    BY <1>8 DEF CheckCredential
  <2>2. Step(s)
    BY <1>8, <2>1 DEF CheckCredential, CredentialHolds, ProfileCompatible, Learns, After, InLock
  <2> QED
    BY <2>2
<1>9. CASE Derive(r)
  <2>1. Step("derive")
    BY <1>9 DEF Derive, Learns, After, InLock
  <2> QED
    BY <2>1
<1>10. CASE EnterLock(r)
  <2>1. Step("enter")
    BY <1>10 DEF EnterLock, Learns, After, InLock
  <2> QED
    BY <2>1
<1>11. CASE CheckToken(r)
  <2>1. Step("token")
    BY <1>11 DEF CheckToken, Learns, After, InLock
  <2> QED
    BY <2>1
<1>12. CASE CheckPrincipal(r)
  <2>1. Step("principal")
    BY <1>12 DEF CheckPrincipal, AuthorizedDelivery, Learns, After, InLock
  <2> QED
    BY <2>1
<1>13. CASE Deliver(r)
  <2>1. At(r, "audit") /\ lock = r
    BY <1>13 DEF Deliver, IInv, Knows, At, InLock
  <2>2. Step("audit")
    BY <1>13, <2>1 DEF Deliver, Learns, After, InLock
  <2> QED
    BY <2>2
<1> QED
  BY <1>2, <1>3, <1>4, <1>5, <1>6, <1>7, <1>8, <1>9, <1>10, <1>11, <1>12, <1>13

LEMMA ReadCredentialKeeps ==
  ASSUME IInv, NEW r \in Requests, ReadCredential(r)
  PROVE  IInv'
<1> USE DEF tokenVars, grantVars
<1>1. /\ req \in [Requests -> Request] /\ req[r].at = "read" /\ cred.version \in Nat /\ Knows(r)
      /\ req' = [req EXCEPT ![r].at = "granted", ![r].version = cred.version]
  BY GrantsAssumption DEF ReadCredential, IInv, TypeOK, Credential, At, After
<1> DEFINE new == [req[r] EXCEPT !.at = "granted", !.version = cred.version]
<1>2. new \in Request
  BY <1>1 DEF Request, Stages
<1>3. req' = [req EXCEPT ![r] = new]
  BY <1>1
<1>4. /\ new.at = "granted" /\ new.token = req[r].token /\ new.dead = req[r].dead
  BY <1>1 DEF Request
<1> HIDE DEF new
<1>5. Knows(r)'
  BY <1>1, <1>2, <1>3, <1>4 DEF Knows, Stopped, InLock
<1> QED
  BY <1>1, <1>2, <1>3, <1>5, AloneKeeps DEF Alone, ReadCredential

LEMMA TakeValuesKeeps ==
  ASSUME IInv, NEW r \in Requests, TakeValues(r)
  PROVE  IInv'
<1> USE DEF tokenVars, grantVars
<1>1. /\ req \in [Requests -> Request] /\ req[r].at = "values" /\ Knows(r)
      /\ req' = [req EXCEPT ![r].at = "enter", ![r].values = req[r].names]
  BY DEF TakeValues, IInv, TypeOK, At, After
<1> DEFINE new == [req[r] EXCEPT !.at = "enter", !.values = req[r].names]
<1>2. new \in Request
  BY <1>1 DEF Request, Stages
<1>3. req' = [req EXCEPT ![r] = new]
  BY <1>1
<1>4. /\ new.at = "enter" /\ new.token = req[r].token /\ new.dead = req[r].dead
      /\ new.values = new.names
  BY <1>1 DEF Request
<1> HIDE DEF new
<1>5. Knows(r)'
  BY <1>1, <1>2, <1>3, <1>4 DEF Knows, Stopped, InLock
<1> QED
  BY <1>1, <1>2, <1>3, <1>5, AloneKeeps DEF Alone, TakeValues

\* The renewal commits a new version: nobody is inside the lock then.
LEMMA RefreshKeeps ==
  ASSUME IInv, NEW r \in Requests, RefreshDue(r)
  PROVE  IInv'
<1> USE DEF tokenVars, grantVars
<1>1. /\ TypeOK /\ DeletionHoldsLock /\ GrantsAreQueued /\ CleanedStaysClean
      /\ \A q \in Requests : Knows(q)
  BY DEF IInv
<1>2. /\ req \in [Requests -> Request] /\ req[r].at = "refresh" /\ lock = None
      /\ cred \in Credential /\ cred.version < MaxVersion /\ req[r].version = cred.version
      /\ cred' = [cred EXCEPT !.version = cred.version + 1]
      /\ req' = [req EXCEPT ![r].at = "credential1", ![r].version = cred.version + 1]
      /\ UNCHANGED <<token, principal, lock, deleting, profile, grants, revision, granting, cleaned>>
  BY <1>1 DEF RefreshDue, TypeOK, At, After
<1>3. cred' \in Credential /\ cred'.state = cred.state /\ cred.version + 1 \in Nat
  <2>1. cred' \in Credential
    BY <1>2, VersionChanges DEF Credential
  <2> QED
    BY <1>2, <2>1, GrantsAssumption DEF Credential
<1> DEFINE new == [req[r] EXCEPT !.at = "credential1", !.version = cred.version + 1]
<1>4. new \in Request
  BY <1>2, <1>3 DEF Request, Stages
<1>5. req' = [req EXCEPT ![r] = new]
  BY <1>2
<1>6. /\ new.at = "credential1" /\ new.token = req[r].token /\ new.dead = req[r].dead
  BY <1>2 DEF Request
<1> HIDE DEF new
<1>7. TypeOK'
  BY <1>1, <1>2, <1>3, <1>4, <1>5 DEF TypeOK
<1>8. DeletionHoldsLock' /\ GrantsAreQueued' /\ CleanedStaysClean'
  BY <1>1, <1>2, <1>3 DEF DeletionHoldsLock, GrantsAreQueued, CleanedStaysClean
<1>9. ASSUME NEW q \in Requests PROVE Knows(q)'
  <2>1. CASE q = r
    BY <1>1, <1>2, <1>4, <1>5, <1>6, <2>1 DEF Knows, Stopped, InLock
  <2>2. CASE q # r
    <3>1. req'[q] = req[q] /\ Knows(q) /\ req[q].at \notin InLock
      BY <1>1, <1>2, <1>5, <2>2, Names3 DEF Knows
    <3> QED
      BY <1>2, <3>1 DEF Knows, Stopped, Dead, InLock
  <2> QED
    BY <2>1, <2>2
<1> QED
  BY <1>7, <1>8, <1>9 DEF IInv

LEMMA RefusalKeeps ==
  ASSUME IInv, NEW r \in Requests, Refusal(r)
  PROVE  IInv'
<1> USE DEF tokenVars, grantVars, quiet, others
<1>1. /\ req \in [Requests -> Request] /\ req[r].at \notin Ended /\ Knows(r)
      /\ req' = [req EXCEPT ![r].at = "refused"]
      /\ lock' = IF lock = r THEN None ELSE lock
      /\ UNCHANGED others
  BY DEF Refusal, Refuse, GiveBack, IInv, TypeOK
<1> DEFINE new == [req[r] EXCEPT !.at = "refused"]
<1>2. new \in Request
  BY <1>1 DEF Request, Stages, Ended
<1>3. req' = [req EXCEPT ![r] = new]
  BY <1>1
<1>4. new.at = "refused" /\ new.token = req[r].token
  BY <1>1 DEF Request
<1> HIDE DEF new
<1>5. Knows(r)'
  BY <1>1, <1>2, <1>3, <1>4 DEF Knows, Stopped, InLock, Ended
<1> QED
  BY <1>1, <1>2, <1>3, <1>5, AloneKeeps DEF Alone

\* A request arrives: it is dead if its token is.
LEMMA ArriveKeeps ==
  ASSUME IInv, NEW r \in Requests, NEW t \in Tokens, NEW n \in SUBSET Names, Arrive(r, t, n)
  PROVE  IInv'
<1> USE DEF tokenVars, grantVars
<1>1. /\ req \in [Requests -> Request] /\ Knows(r)
      /\ req' = [req EXCEPT ![r] = [Idle EXCEPT !.at = "load", !.token = t, !.names = n, !.dead = Dead(t)]]
      /\ UNCHANGED <<token, principal, lock, deleting, cred, profile, grants, revision, granting, cleaned>>
  BY DEF Arrive, IInv, TypeOK
<1> DEFINE new == [Idle EXCEPT !.at = "load", !.token = t, !.names = n, !.dead = Dead(t)]
<1>2. Dead(t) \in BOOLEAN
  BY DEF Dead
<1>3. new \in Request
  BY <1>2 DEF Idle, Request, Stages
<1>4. new.at = "load" /\ new.token = t /\ new.dead = Dead(t)
  BY DEF Idle
<1>5. req' = [req EXCEPT ![r] = new]
  BY <1>1
<1> HIDE DEF new
<1>6. Knows(r)'
  BY <1>1, <1>3, <1>4, <1>5 DEF Knows, Stopped, Dead, InLock
<1> QED
  BY <1>1, <1>3, <1>5, <1>6, AloneKeeps DEF Alone

\* A restart: requests, operations and locks are gone, files are not.
LEMMA CrashKeeps ==
  ASSUME IInv, Crash
  PROVE  IInv'
<1> USE DEF tokenVars, grantVars
<1>1. /\ TypeOK /\ GrantsAreQueued /\ CleanedStaysClean
      /\ \A q \in Requests : Knows(q)
  BY DEF IInv
<1>2. /\ lock' = None /\ deleting' = None /\ granting' = None
      /\ req' = [r \in Requests |-> IF req[r].at \in Ended THEN req[r] ELSE [req[r] EXCEPT !.at = "refused"]]
      /\ UNCHANGED <<token, principal, cred, grants, revision, cleaned>>
  BY DEF Crash
<1>3. ASSUME NEW r \in Requests
      PROVE  /\ req'[r] \in Request /\ req'[r].at \in Ended
             /\ req'[r] = req[r] \/ (req'[r].at = "refused" /\ req'[r].token \in Tokens)
  <2>1. req[r] \in Request /\ (req[r].at # "idle" => req[r].token \in Tokens)
    BY <1>1 DEF TypeOK, Knows
  <2>2. CASE req[r].at \in Ended
    BY <1>2, <2>1, <2>2
  <2>3. CASE req[r].at \notin Ended
    <3> DEFINE new == [req[r] EXCEPT !.at = "refused"]
    <3>1. new \in Request /\ new.at = "refused" /\ new.token = req[r].token
      BY <2>1 DEF Request, Stages, Ended
    <3>2. req'[r] = new
      BY <1>2, <2>3
    <3> HIDE DEF new
    <3> QED
      BY <2>1, <2>3, <3>1, <3>2 DEF Ended
  <2> QED
    BY <2>2, <2>3
<1>4. TypeOK'
  BY <1>1, <1>2, <1>3 DEF TypeOK
<1>5. DeletionHoldsLock' /\ GrantsAreQueued' /\ CleanedStaysClean'
  BY <1>1, <1>2 DEF DeletionHoldsLock, GrantsAreQueued, CleanedStaysClean
<1>6. ASSUME NEW r \in Requests PROVE Knows(r)'
  <2>1. Knows(r)
    BY <1>1
  <2>2. req'[r].at \notin InLock \cup {"enter"}
    <3>1. Ended \cap (InLock \cup {"enter"}) = {}
      BY DEF Ended, InLock
    <3> QED
      BY <1>3, <3>1
  <2>3. req'[r].dead => Stopped(req[r])'
    <3>1. CASE req'[r].at = "refused"
      BY <3>1 DEF Stopped
    <3>2. CASE req'[r].at # "refused"
      <4>1. req'[r] = req[r] /\ req[r].at \in {"idle", "done"}
        BY <1>3, <3>2 DEF Ended
      <4> QED
        BY <2>1, <4>1 DEF Knows, Stopped
    <3> QED
      BY <3>1, <3>2
  <2>4. req'[r].at # "idle" => req'[r].token \in Tokens
    BY <1>3, <2>1 DEF Knows
  <2> QED
    BY <2>2, <2>3, <2>4 DEF Knows, InLock
<1> QED
  BY <1>4, <1>5, <1>6 DEF IInv
-----------------------------------------------------------------------------
(* The theorems.                                                            *)

LEMMA InitEstablishes == ASSUME Init PROVE IInv
<1> USE DEF Init, TokenInit, GrantInit
<1>1. cred \in Credential
  BY GrantsAssumption DEF Credential
<1>2. Idle \in Request
  BY DEF Idle, Request, Stages, Ended
<1>3. TypeOK
  BY <1>1, <1>2 DEF TypeOK, PrincipalStates, NoGrant
<1>4. DeletionHoldsLock /\ GrantsAreQueued /\ CleanedStaysClean
  BY DEF DeletionHoldsLock, GrantsAreQueued, CleanedStaysClean
<1>5. \A r \in Requests : Knows(r)
  BY DEF Knows, Idle, InLock
<1> QED
  BY <1>3, <1>4, <1>5 DEF IInv

LEMMA StepsKeep == ASSUME IInv, [Next]_vars PROVE IInv'
<1>1. CASE TokenNext /\ UNCHANGED <<grantVars, req, delivered>>
  BY <1>1, TokenStepsKeep
<1>2. CASE GrantNext /\ UNCHANGED <<req, delivered>>
  BY <1>2, GrantStepsKeep
<1>3. CASE Crash
  BY <1>3, CrashKeeps
<1>4. ASSUME NEW r \in Requests, RequestStep(r) PROVE IInv'
  BY <1>4, ReadingsKeep, ReadCredentialKeeps, TakeValuesKeeps, RefreshKeeps, RefusalKeeps DEF RequestStep
<1>5. ASSUME NEW r \in Requests, NEW t \in Tokens, NEW n \in SUBSET Names, Arrive(r, t, n) PROVE IInv'
  BY <1>5, ArriveKeeps
<1>6. CASE UNCHANGED vars
  <2>1. TypeOK' /\ DeletionHoldsLock' /\ GrantsAreQueued' /\ CleanedStaysClean'
    BY <1>6 DEF vars, tokenVars, grantVars, IInv, TypeOK, DeletionHoldsLock, GrantsAreQueued, CleanedStaysClean
  <2>2. \A r \in Requests : Knows(r)'
    BY <1>6, OthersKeep DEF vars, tokenVars, grantVars, Harmless
  <2> QED
    BY <2>1, <2>2 DEF IInv
<1> QED
  BY <1>1, <1>2, <1>3, <1>4, <1>5, <1>6 DEF Next

\* In every state all of this holds.
THEOREM Invariance == Spec => []IInv
BY InitEstablishes, StepsKeep, PTL DEF Spec

\* Files, requests and the operation in the queue have their types.
THEOREM TypeCorrect == Spec => []TypeOK
<1>1. IInv => TypeOK
  BY DEF IInv
<1> QED
  BY <1>1, Invariance, PTL

\* A revoked token and the tokens of a deleted principal never get a request past
\* the authentication, whenever and however often the process restarts.
THEOREM DeadStayOut == Spec => []DeadTokensStayOut
<1>1. IInv => DeadTokensStayOut
  BY DEF IInv, Knows, Stopped, DeadTokensStayOut
<1> QED
  BY <1>1, Invariance, PTL

\* A cleanup of the grants is final.
THEOREM CleanupIsFinal == Spec => []CleanedStaysClean
<1>1. IInv => CleanedStaysClean
  BY DEF IInv
<1> QED
  BY <1>1, Invariance, PTL

\* The access scope, discovery, diagnosis and resolution agree.
THEOREM ScopeAgrees == Spec => []ScopeIsWhatResolveDelivers
<1>1. IInv => ScopeIsWhatResolveDelivers
  <2> SUFFICES ASSUME IInv, NEW t \in Tokens, NEW n \in Names
               PROVE  LET resolves == /\ EffectiveConsumer(t) /\ CredentialHolds(cred.version)
                                      /\ GrantHolds(t, {n}) /\ Available(cred, n)
                      IN  /\ n \in AccessScope(t) <=> resolves
                          /\ resolves => Discovered(t) /\ Diagnosed(t, {n})
    BY DEF ScopeIsWhatResolveDelivers
  <2>1. grants[t] \in SUBSET Names
    BY DEF IInv, TypeOK
  <2> QED
    BY <2>1 DEF AccessScope, CredentialHolds, GrantHolds, Available, Discovered, Diagnosed, NoGrant
<1> QED
  BY <1>1, Invariance, PTL

\* What is delivered is delivered to somebody entitled to it at that instant.
THEOREM DeliveryIsEntitled == Spec => DeliveredWhileEntitled
<1>1. ASSUME IInv, [Next]_vars, NEW r \in delivered' \ delivered PROVE Entitled(r)
  <2>1. PICK q \in Requests : Deliver(q)
    <3>1. delivered' # delivered
      BY <1>1
    <3>2. ASSUME NEW q \in Requests, RequestStep(q), ~Deliver(q) PROVE delivered' = delivered
      BY <3>2 DEF RequestStep, LoadToken, IdentifyPrincipal, TouchToken, AuthorizeConsumer, ReadCredential,
         FindGrant, NotDue, RefreshDue, CheckCredential, Derive, TakeValues, EnterLock, CheckToken,
         CheckPrincipal, Refusal, Refuse
    <3> QED
      BY <1>1, <3>1, <3>2 DEF Next, vars, Arrive, Crash
  <2>2. q = r /\ At(r, "audit") /\ Knows(r)
    BY <1>1, <2>1 DEF Deliver, IInv
  <2> QED
    BY <2>2 DEF Knows, Entitled, At, InLock
<1>2. IInv /\ [Next]_vars => [\A r \in delivered' \ delivered : Entitled(r)]_vars
  BY <1>1
<1> QED
  BY <1>2, Invariance, PTL DEF Spec, DeliveredWhileEntitled
=============================================================================
