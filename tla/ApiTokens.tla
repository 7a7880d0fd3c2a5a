------------------------------- MODULE ApiTokens -------------------------------
(***************************************************************************)
(* API tokens (ApiTokenService over ApiTokenStore) and the principals they *)
(* belong to.  A consumer is a token: its id names the consumer in grants. *)
(*                                                                         *)
(* Operations on tokens run one at a time in the service's queue.  Those   *)
(* that revoke hold the binding lock as well, as does every change of a    *)
(* principal; creation and authentication do not.  The store's own queue   *)
(* makes each of its saves atomic.                                         *)
(***************************************************************************)
EXTENDS Naturals

CONSTANTS Tokens,        \* API tokens; the id is also the consumer's id
          Users,         \* principals
          Owner,         \* the principal of each token
          Requests,      \* requests of consumers
          MaxChanges,    \* bound on the changes other actors make
          None

VARIABLES token,         \* api-tokens.json: "none", "live" or "revoked"
          lapsed,        \* tokens whose expiresAt has passed
          principal,     \* access-management.json: what each user is
          lock,          \* holder of the binding lock, or None
          tokenQueue,    \* operation at the head of the service's queue, or None
          minting,       \* the token createToken is about to save, or None
          deleting,      \* [user, todo]: deleteUser between its writes, or None
          changes        \* changes made so far

tokenVars == <<token, lapsed, principal, lock, tokenQueue, minting, deleting, changes>>
quiet == <<token, lapsed, principal, minting, deleting, changes>>

\* "demoted": the role has no credentials:consume.
PrincipalStates == {"active", "demoted", "disabled", "gone"}

ASSUME TokensAssumption ==
  /\ Owner \in [Tokens -> Users]
  /\ MaxChanges \in Nat
  /\ None \notin Requests /\ {"mint", "admin"} \cap (Requests \cup {None}) = {}
  /\ None \notin Tokens /\ None \notin [user : Users, todo : SUBSET Tokens]

TokenInit ==
  /\ token \in [Tokens -> {"none", "live"}] /\ lapsed = {}
  /\ principal = [u \in Users |-> "active"]
  /\ lock = None /\ tokenQueue = None
  /\ minting = None /\ deleting = None
  /\ changes = 0

Spend == changes < MaxChanges /\ changes' = changes + 1

-----------------------------------------------------------------------------
\* getUserIdentity answers for a stored user that is not disabled; authorize
\* wants a role with the permission besides.
Identified(u) == principal[u] \in {"active", "demoted"}
Authorized(u) == principal[u] = "active"

\* getEffectiveConsumerIdentity.
EffectiveConsumer(t) == token[t] = "live" /\ t \notin lapsed /\ Authorized(Owner[t])

\* mergeTerminalRevocation: what a save of an unrevoked reading leaves.
Saved(t) == IF token[t] = "revoked" THEN "revoked" ELSE "live"

\* A token that nobody may use again: revoked, or of a deleted principal.
Dead(t) == token[t] = "revoked" \/ principal[Owner[t]] = "gone"

-----------------------------------------------------------------------------
\* assertDelegation: a token is made for its issuer, who must be a current
\* principal; which scopes the issuer may pass on is not told apart.
MayDelegate(u) == Identified(u)

\* createToken: the delegation and the owner are checked inside the queue ...
BeginCreateToken(t) ==
  /\ Spend
  /\ tokenQueue = None /\ token[t] = "none"
  /\ MayDelegate(Owner[t])
  /\ tokenQueue' = "mint" /\ minting' = t
  /\ UNCHANGED <<token, lapsed, principal, lock, deleting>>

\* ... and the token is saved, whatever has happened to the owner by then.
EndCreateToken ==
  /\ minting # None
  /\ token' = [token EXCEPT ![minting] = Saved(minting)]
  /\ tokenQueue' = None /\ minting' = None
  /\ UNCHANGED <<lapsed, principal, lock, deleting, changes>>

\* revokeToken: one save inside the binding lock and the queue.
RevokeToken(t) ==
  /\ Spend
  /\ lock = None /\ tokenQueue = None /\ token[t] = "live"
  /\ token' = [token EXCEPT ![t] = "revoked"]
  /\ UNCHANGED <<lapsed, principal, lock, tokenQueue, minting, deleting>>

\* updateUser: a role or a status, inside the binding lock.
UpdatePrincipal(u, state) ==
  /\ Spend
  /\ lock = None /\ principal[u] # "gone" /\ state # principal[u]
  /\ principal' = [principal EXCEPT ![u] = state]
  /\ UNCHANGED <<token, lapsed, lock, tokenQueue, minting, deleting>>

\* deleteUser: inside the binding lock it revokes the user's tokens, one save
\* each in the tokens' queue, and then removes the user.
BeginDeleteUser(u) ==
  /\ Spend
  /\ lock = None /\ tokenQueue = None /\ principal[u] # "gone"
  /\ lock' = "admin" /\ tokenQueue' = "admin"
  /\ deleting' = [user |-> u, todo |-> {t \in Tokens : Owner[t] = u /\ token[t] = "live"}]
  /\ UNCHANGED <<token, lapsed, principal, minting>>

RevokeForUser(t) ==
  /\ deleting # None /\ tokenQueue = "admin" /\ t \in deleting.todo
  /\ token' = [token EXCEPT ![t] = "revoked"]
  /\ deleting' = [deleting EXCEPT !.todo = @ \ {t}]
  /\ UNCHANGED <<lapsed, principal, lock, tokenQueue, minting, changes>>

\* revokeTokensForUser returns: the queue is free, the lock is not.
TokensRevoked ==
  /\ deleting # None /\ tokenQueue = "admin" /\ deleting.todo = {}
  /\ tokenQueue' = None
  /\ UNCHANGED <<quiet, lock>>

EndDeleteUser ==
  /\ deleting # None /\ tokenQueue # "admin"
  /\ principal' = [principal EXCEPT ![deleting.user] = "gone"]
  /\ deleting' = None /\ lock' = None
  /\ UNCHANGED <<token, lapsed, tokenQueue, minting, changes>>

\* A save of deleteUser fails: the tokens revoked so far stay revoked.
DeleteUserFails ==
  /\ deleting # None
  /\ deleting' = None /\ lock' = None
  /\ tokenQueue' = IF tokenQueue = "admin" THEN None ELSE tokenQueue
  /\ UNCHANGED <<token, lapsed, principal, minting, changes>>

LapseToken(t) ==
  /\ Spend
  /\ token[t] # "none" /\ t \notin lapsed
  /\ lapsed' = lapsed \cup {t}
  /\ UNCHANGED <<token, principal, lock, tokenQueue, minting, deleting>>

TokenNext ==
  \/ EndCreateToken \/ TokensRevoked \/ EndDeleteUser \/ DeleteUserFails
  \/ \E t \in Tokens : BeginCreateToken(t) \/ RevokeToken(t) \/ RevokeForUser(t) \/ LapseToken(t)
  \/ \E u \in Users : \/ BeginDeleteUser(u)
                      \/ \E s \in PrincipalStates \ {"gone"} : UpdatePrincipal(u, s)
=============================================================================
