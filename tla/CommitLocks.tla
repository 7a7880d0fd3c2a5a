----------------------------- MODULE CommitLocks -----------------------------
(***************************************************************************)
(* Who waits for whom: the commit coordinators and the mutation queues of  *)
(* the service, and the order in which each operation takes them.          *)
(*                                                                         *)
(*   binding       withBindingCommitLock, re-entrant                       *)
(*   boundary      withRestoreCommitBoundary, re-entrant                   *)
(*   principals    AccessManagementService.mutationQueue                   *)
(*   apiTokens     ApiTokenService.mutationQueue                           *)
(*   collection    CredentialCollectionStoreAdapter.mutationQueue          *)
(*   versions      CredentialSecretVersionService.mutationQueue            *)
(*   grants        ConsumerGrantService.mutationQueue                      *)
(*   grantStore    ConsumerGrantStore.mutationQueue                        *)
(*   providers     CustomProviderService.mutationQueue                     *)
(*                                                                         *)
(* Each is a chain of promises: a caller is appended to the chain when it  *)
(* asks and runs when everyone before it has settled.  The queues of the   *)
(* audit log and of the remaining stores are left out: nothing is awaited  *)
(* inside them that takes another lock, so no cycle passes through them.   *)
(* The per-key transition lock of CustomProviderService is only ever taken *)
(* inside providers.                                                       *)
(***************************************************************************)
EXTENDS Naturals, FiniteSets, Sequences, SequencesExt

CONSTANTS Actors,     \* concurrent requests, each an asynchronous call chain
          Requests    \* the operations they may call: a subset of Operations

VARIABLES queue,      \* per lock: the caller inside, then the waiting ones
          held,       \* per actor: the sections it is in, outermost first
          waiting,    \* per actor: appended to a queue, not yet inside
          todo        \* per actor: the rest of its operation

lockVars == <<queue, held, waiting, todo>>

Locks == {"binding", "boundary", "principals", "apiTokens", "collection",
          "versions", "grants", "grantStore", "providers"}

\* Both coordinators keep an AsyncLocalStorage flag: a call made inside the
\* section runs at once.  A SerializedMutationQueue knows nothing of its caller.
NeverReentrant(l) == FALSE                        \* mutant: the flag is not read

Reentrant(l) == l \in {"binding", "boundary"}

-----------------------------------------------------------------------------
(* The operations, as the sections they nest.                               *)

Within(l, body) == <<<<"lock", l>>>> \o body \o <<<<"unlock", l>>>>

\* Every read, write and listing of the collection store.
CollectionAccess == Within("binding", Within("collection", <<>>))

\* isDeletedIdentity and getRestoreState.
RestoreState == Within("collection", <<>>)

RecordVersion == Within("versions", <<>>)

\* ConsumerGrantStore.save; the revalidation before the write reads metadata.
SaveGrants(revalidate) == Within("binding", Within("grantStore", revalidate))

\* register, updateCredential: the versions are recorded after the commit.
Register == Within("binding", CollectionAccess) \o RecordVersion
UpdateCredential == CollectionAccess \o Within("binding", CollectionAccess) \o RecordVersion

ImportCredential == Within("binding", CollectionAccess \o CollectionAccess)

\* The OAuth callback imports inside withAuthorizedCurrentPrincipal.
OAuthCallback == Within("principals", ImportCredential)

\* importCredentialBatch: the versions are recorded inside the batch.
ImportCredentials ==
  RestoreState \o
  Within("boundary",
    CollectionAccess \o Within("binding", Within("collection", RecordVersion)))

\* rollbackCredentialSecrets runs as a whole in the queue of the versions.
RollbackSecrets ==
  Within("versions",
    CollectionAccess \o Within("boundary", CollectionAccess \o Within("binding", CollectionAccess)))

\* delete: grants first, then the history, then the Credential itself.
DeleteCredential ==
  CollectionAccess \o Within("grants", CollectionAccess \o SaveGrants(<<>>)) \o
  RecordVersion \o CollectionAccess

UpdateUser == Within("binding", Within("principals", <<>>))

RevokeTokens == Within("binding", Within("apiTokens", <<>>))

DeleteUser == Within("binding", Within("principals", RevokeTokens))

AuthenticateToken == Within("apiTokens", <<>>)

RestoreManagement == Within("boundary", UpdateUser)

RestoreToken == CollectionAccess \o Within("boundary", CollectionAccess)

CreateGrant == Within("grants", CollectionAccess \o SaveGrants(CollectionAccess))

\* The final commit of resolve reads the Credential and its grant.
ResolveSecrets == CollectionAccess \o Within("binding", CollectionAccess)

DeleteProvider == Within("providers", Within("binding", Within("binding", CollectionAccess)))

RemoveConfiguration == Within("binding", CollectionAccess)

Program ==
  [register |-> Register, update |-> UpdateCredential, oauth |-> OAuthCallback,
   importBatch |-> ImportCredentials, rollback |-> RollbackSecrets,
   delete |-> DeleteCredential, updateUser |-> UpdateUser, deleteUser |-> DeleteUser,
   revokeTokens |-> RevokeTokens, authenticate |-> AuthenticateToken,
   restore |-> RestoreManagement, restoreToken |-> RestoreToken,
   grant |-> CreateGrant, resolve |-> ResolveSecrets,
   deleteProvider |-> DeleteProvider, removeConfiguration |-> RemoveConfiguration]

Operations == DOMAIN Program

ASSUME RequestsAssumption == Requests \subseteq Operations /\ IsFiniteSet(Actors)

-----------------------------------------------------------------------------
LocksInit == /\ queue = [l \in Locks |-> <<>>]
             /\ held = [a \in Actors |-> <<>>]
             /\ waiting = [a \in Actors |-> FALSE]
             /\ todo = [a \in Actors |-> <<>>]

Asks(a, l) == todo[a] # <<>> /\ Head(todo[a]) = <<"lock", l>>
Inside(a, l) == l \in ToSet(held[a])
Awaits(a, l) == waiting[a] /\ Asks(a, l)
Admitted(a, l) == Head(queue[l]) = a /\ ~Inside(a, l)

Begin(a, o) ==
  /\ todo[a] = <<>>
  /\ todo' = [todo EXCEPT ![a] = Program[o]]
  /\ UNCHANGED <<queue, held, waiting>>

EnterSection(a, l) ==
  /\ held' = [held EXCEPT ![a] = Append(@, l)]
  /\ todo' = [todo EXCEPT ![a] = Tail(@)]

\* run(operation): the call is appended to the chain.
Enqueue(a, l) ==
  /\ Asks(a, l)
  /\ ~waiting[a]
  /\ ~(Reentrant(l) /\ Inside(a, l))
  /\ queue' = [queue EXCEPT ![l] = Append(@, a)]
  /\ waiting' = [waiting EXCEPT ![a] = TRUE]
  /\ UNCHANGED <<held, todo>>

\* Everyone before the call has settled.
Enter(a, l) ==
  /\ Awaits(a, l) /\ Admitted(a, l)
  /\ EnterSection(a, l)
  /\ waiting' = [waiting EXCEPT ![a] = FALSE]
  /\ UNCHANGED queue

\* A call made inside the same coordinator's section.
Reenter(a, l) ==
  /\ Asks(a, l)
  /\ Reentrant(l) /\ Inside(a, l)
  /\ EnterSection(a, l)
  /\ UNCHANGED <<queue, waiting>>

\* The innermost section settles; the chain moves on when the actor has left
\* the lock altogether.
Leave(a, l) ==
  /\ todo[a] # <<>> /\ Head(todo[a]) = <<"unlock", l>>
  /\ held' = [held EXCEPT ![a] = Front(@)]
  /\ todo' = [todo EXCEPT ![a] = Tail(@)]
  /\ queue' = IF l \in ToSet(Front(held[a])) THEN queue
              ELSE [queue EXCEPT ![l] = Tail(@)]
  /\ UNCHANGED waiting

StopChain(a) ==                    \* mutant: a rejected section is never left
  /\ ~waiting[a] /\ held[a] # <<>>
  /\ todo' = [todo EXCEPT ![a] = <<>>]
  /\ UNCHANGED <<queue, held, waiting>>

\* Something awaited in a section rejects: the operation skips what is left
\* and leaves its sections from the innermost out.
Fail(a) ==
  /\ ~waiting[a] /\ held[a] # <<>>
  /\ todo' = [todo EXCEPT ![a] = [k \in 1 .. Len(held[a]) |->
                                    <<"unlock", Reverse(held[a])[k]>>]]
  /\ UNCHANGED <<queue, held, waiting>>

Proceed(a) == \E l \in Locks : Enqueue(a, l) \/ Enter(a, l) \/ Reenter(a, l) \/ Leave(a, l)

LocksNext == \E a \in Actors : \/ \E o \in Requests : Begin(a, o)
                               \/ Proceed(a)
                               \/ Fail(a)

\* The event loop runs every continuation whose promise has settled.
Fairness == \A a \in Actors : WF_lockVars(Proceed(a))

LocksSpec == LocksInit /\ [][LocksNext]_lockVars /\ Fairness

-----------------------------------------------------------------------------
BlockedBy(a, b) ==
  \E l \in Locks : Awaits(a, l) /\ ~Admitted(a, l) /\ Head(queue[l]) = b

Circle(S) == S # {} /\ \A a \in S : \E b \in S : BlockedBy(a, b)

\* An OAuth callback asks for the binding lock inside the principal queue, a
\* secret rollback for a coordinator inside the queue of the versions; every
\* other operation takes the coordinators before the queues.
OutOfOrder(a) ==
  \E l \in {"binding", "boundary"}, m \in {"principals", "versions"} : Awaits(a, l) /\ Inside(a, m)

\* Operations wait for each other in a circle (and none for itself: binding-commit-
\* coordinator.js re-enters the lock "instead of deadlocking") only where one of
\* them asks out of order and another one has taken both locks in their order.
CirclesAreOutOfOrder ==
  \A S \in SUBSET Actors : Circle(S) =>
    Cardinality(S) > 1 /\ \E a \in S : OutOfOrder(a) /\ \E b \in S : ~OutOfOrder(b)

\* Every operation finishes, whatever the others do and whichever of them
\* fail, unless such a circle stops what is behind it: the queues are fair and
\* a rejected section lets the next one in.
EveryOperationFinishes ==
  \A a \in Actors :
    todo[a] # <<>> ~> (todo[a] = <<>> \/ \E S \in SUBSET Actors : Circle(S))
=============================================================================
