--------------------------- MODULE CredentialStore ---------------------------
(***************************************************************************)
(* The Credential collection on disk: CredentialCollectionStoreAdapter.    *)
(*                                                                         *)
(* A collection lives in two encrypted JSON files.  credentials.json is    *)
(* the authority (Credentials and tombstones); credential-metadata.json is *)
(* a secret-free projection of it that every listing and every lookup by   *)
(* key reads instead.  Each file is replaced atomically (temporary file    *)
(* and rename), but the two are written one after the other: a write can   *)
(* fail, and the process can stop, between them.  Every operation runs     *)
(* inside the binding commit lock and the collection's mutation queue, so  *)
(* at most one is between its two writes; `stage' says where it stands.    *)
(*                                                                         *)
(* An operation that its checks reject writes nothing and is no step here. *)
(* Because nothing else runs while an operation holds the queue, its load, *)
(* its checks and its first write are one step.                            *)
(***************************************************************************)
EXTENDS CredentialData

CONSTANT NoFile       \* credential-metadata.json does not exist yet

ASSUME NoFileAssumption ==
  NoFile \notin [Ids -> [key: Keys \cup {NoKey}, bind: Bindings,
                         state: States, version: Versions] \cup {None}]

VARIABLES canon,      \* credentials.json: the Credential of each identity
          tombs,      \* credentials.json: tombstoned identities
          meta,       \* credential-metadata.json, or NoFile
          stage,      \* where the operation that holds the queue stands
          prev,       \* the collection a batch read first and rolls back to
          last,       \* how the last operation ended
          torn        \* history: an undo or rollback was cut short after the
                      \* batch, and no operation has ended cleanly since

vars == <<canon, tombs, meta, stage, prev, last, torn>>

\* Stages of #saveCollectionState: the batch's own metadata write and its
\* afterCommit callback; writing the previous data back after the callback
\* failed (undo); writing it back after a write failed (rollback).
BatchStages == {"batchMeta", "batchAfter", "undoCanon", "undoMeta",
                "rollbackCanon", "rollbackMeta"}
UndoStages == BatchStages \ {"batchMeta", "batchAfter"}
Stages == {"idle", "saveMeta"} \cup BatchStages

\* Outcomes after which the caller knows that both files agree.
Clean == {"ok", "undone", "commitFailed"}
Outcomes == Clean \cup {"none", "failed", "rollbackFailed", "crashed"}

\* toInternalMetadataJSON: everything the collection decides on, no secret.
Metadata == [key: Keys \cup {NoKey}, bind: Bindings,
             state: States, version: Versions]


MetadataOf(c) == [key |-> c.key, bind |-> c.bind,
                  state |-> c.state, version |-> c.version]

Projection(c) == [i \in Ids |-> IF c[i] = None THEN None ELSE MetadataOf(c[i])]

\* Records persisted before credentialKey existed.  Parsing one draws a fresh
\* random key, so writing the collection back gives every one of them a key.
Legacy(c) == {i \in Stored(c) : c[i].key = NoKey}

Keyed(c, fresh) ==
  [i \in Ids |-> IF i \in Legacy(c) THEN [c[i] EXCEPT !.key = fresh[i]] ELSE c[i]]

-----------------------------------------------------------------------------
Init == /\ canon \in Collection
        /\ UniqueKeys(canon)
        /\ \A i \in Stored(canon) : canon[i].key = NoKey
        /\ tombs = {}
        /\ meta = NoFile
        /\ stage = "idle"
        /\ prev = Empty
        /\ last = "none"
        /\ torn = FALSE

\* The operation ends and releases the queue.
Finish(outcome) == /\ stage' = "idle"
                   /\ prev' = Empty
                   /\ last' = outcome
                   /\ torn' = (outcome \notin Clean /\ (stage \in UndoStages \/ torn))

\* #saveWithinMutation, checks on the identity itself.
Insertable(i) == canon[i] = None /\ i \notin tombs

ReplaceableAnyKey(old, new, allowBindingChange) ==  \* mutant: key not compared
  /\ old.state \in Terminal => new.state = old.state
  /\ allowBindingChange \/ new.bind = old.bind

Replaceable(old, new, allowBindingChange) ==
  /\ old.state \in Terminal => new.state = old.state
  /\ new.key = old.key
  /\ allowBindingChange \/ new.bind = old.bind

\* The canonical write of a save.  Only the metadata write is left.
WriteCollection(next) ==
  /\ UniqueKeys(next)
  /\ canon' = next
  /\ stage' = "saveMeta"
  /\ UNCHANGED <<tombs, meta, prev, last, torn>>

\* create, and save of an identity that is not stored.
Create(i, new) ==
  /\ stage = "idle"
  /\ Insertable(i)
  /\ \E fresh \in [Legacy(canon) -> Keys] :
       WriteCollection([Keyed(canon, fresh) EXCEPT ![i] = new])

\* save of a stored identity: no version is compared.
Save(i, new) ==
  /\ stage = "idle"
  /\ canon[i] # None
  /\ \E fresh \in [Legacy(canon) -> Keys] :
       LET keyed == Keyed(canon, fresh)
       IN  /\ Replaceable(keyed[i], new, FALSE)
           /\ WriteCollection([keyed EXCEPT ![i] = new])

\* saveConditional: the Credential must still be the one the caller read.
SaveConditional(i, new, expectedVersion, allowBindingChange) ==
  /\ stage = "idle"
  /\ canon[i] # None
  /\ canon[i].version = expectedVersion
  /\ \E fresh \in [Legacy(canon) -> Keys] :
       LET keyed == Keyed(canon, fresh)
       IN  /\ Replaceable(keyed[i], new, allowBindingChange)
           /\ WriteCollection([keyed EXCEPT ![i] = new])

\* list and listMetadata over a collection that still has legacy records:
\* the drawn keys are persisted before anyone sees them.
MigrateLegacyKeys ==
  /\ stage = "idle"
  /\ Legacy(canon) # {}
  /\ \E fresh \in [Legacy(canon) -> Keys] : WriteCollection(Keyed(canon, fresh))

DeleteUnbarred(i) ==                     \* mutant: no tombstone is kept
  /\ stage = "idle"
  /\ canon[i] # None
  /\ Legacy(canon) = {}
  /\ canon' = [canon EXCEPT ![i] = None]
  /\ stage' = "saveMeta"
  /\ UNCHANGED <<tombs, meta, prev, last, torn>>

\* delete and deleteConditional.  Every caller has loaded the Credential, so
\* legacy records already have their keys.
Delete(i) ==
  /\ stage = "idle"
  /\ canon[i] # None
  /\ Legacy(canon) = {}
  /\ canon' = [canon EXCEPT ![i] = None]
  /\ tombs' = tombs \cup {i}
  /\ stage' = "saveMeta"
  /\ UNCHANGED <<meta, prev, last, torn>>

\* The first write of a save, migration or delete fails: nothing changed.
FirstWriteFails ==
  /\ stage = "idle"
  /\ last' = "failed"
  /\ UNCHANGED <<canon, tombs, meta, stage, prev, torn>>

\* listMetadata finds no metadata file and creates it.
CreateMetadataFile ==
  /\ stage = "idle"
  /\ meta = NoFile
  /\ Legacy(canon) = {}
  /\ meta' = Projection(canon)
  /\ Finish("ok")
  /\ UNCHANGED <<canon, tombs>>

\* The second write of a save, migration or delete.  When it fails the
\* caller gets an error, but the canonical file keeps the change.
SaveMetadata ==
  /\ stage = "saveMeta"
  /\ meta' = Projection(canon)
  /\ Finish("ok")
  /\ UNCHANGED <<canon, tombs>>

SaveMetadataFailureSwallowed ==          \* mutant: the error is dropped
  /\ stage = "saveMeta"
  /\ Finish("ok")
  /\ UNCHANGED <<canon, tombs, meta>>

SaveMetadataFails ==
  /\ stage = "saveMeta"
  /\ Finish("failed")
  /\ UNCHANGED <<canon, tombs, meta>>

-----------------------------------------------------------------------------
(* applyBatch: one create or one update per touched identity.               *)

BatchResult(changes) ==
  [i \in Ids |-> IF i \in DOMAIN changes THEN changes[i] ELSE canon[i]]

\* The checks of one change (a change may also carry the version it expects,
\* which only rejects more), in a collection whose records all have keys:
\* the import that applies a batch has listed the collection before.
BatchAdmits(changes) ==
  /\ Legacy(canon) = {}
  /\ \A i \in DOMAIN changes :
       \/ Insertable(i)
       \/ canon[i] # None /\ Replaceable(canon[i], changes[i], FALSE)
  /\ UniqueKeys(BatchResult(changes))

ApplyBatch(changes) ==
  /\ stage = "idle"
  /\ BatchAdmits(changes)
  /\ prev' = canon
  /\ \/ canon' = BatchResult(changes) /\ stage' = "batchMeta"
     \/ canon' = canon /\ stage' = "rollbackCanon"     \* the write failed
  /\ UNCHANGED <<tombs, meta, last, torn>>

BatchMetadata ==
  /\ stage = "batchMeta"
  /\ \/ meta' = Projection(canon) /\ stage' = "batchAfter"
     \/ meta' = meta /\ stage' = "rollbackCanon"
  /\ UNCHANGED <<canon, tombs, prev, last, torn>>

\* afterCommit persists the Secret versions and the audit record.
AfterCommitSucceeds ==
  /\ stage = "batchAfter"
  /\ Finish("ok")
  /\ UNCHANGED <<canon, tombs, meta>>

AfterCommitFails ==
  /\ stage = "batchAfter"
  /\ stage' = "undoCanon"
  /\ UNCHANGED <<canon, tombs, meta, prev, last, torn>>

\* The undo is a #saveCollectionState of its own: when one of its writes
\* fails it rolls back, to the same data.
UndoCanonical ==
  /\ stage = "undoCanon"
  /\ \/ canon' = prev /\ stage' = "undoMeta"
     \/ canon' = canon /\ stage' = "rollbackCanon"
  /\ UNCHANGED <<tombs, meta, prev, last, torn>>

UndoMetadata ==
  /\ stage = "undoMeta"
  /\ \/ meta' = Projection(prev) /\ Finish("undone")
     \/ meta' = meta /\ stage' = "rollbackCanon" /\ UNCHANGED <<prev, last, torn>>
  /\ UNCHANGED <<canon, tombs>>

RollbackCanonical ==
  /\ stage = "rollbackCanon"
  /\ \/ canon' = prev /\ stage' = "rollbackMeta" /\ UNCHANGED <<prev, last, torn>>
     \/ canon' = canon /\ Finish("rollbackFailed")
  /\ UNCHANGED <<tombs, meta>>

RollbackMetadataClaimed ==               \* mutant: a failed rollback counts as done
  /\ stage = "rollbackMeta"
  /\ \/ meta' = Projection(prev)
     \/ meta' = meta
  /\ Finish("commitFailed")
  /\ UNCHANGED <<canon, tombs>>

RollbackMetadata ==
  /\ stage = "rollbackMeta"
  /\ \/ meta' = Projection(prev) /\ Finish("commitFailed")
     \/ meta' = meta /\ Finish("rollbackFailed")
  /\ UNCHANGED <<canon, tombs>>

\* The process stops inside an operation and a new one reads the same files.
Crash ==
  /\ stage # "idle"
  /\ Finish("crashed")
  /\ UNCHANGED <<canon, tombs, meta>>

-----------------------------------------------------------------------------
\* A Credential handed to the store was parsed, so it has a key.
Input == {c \in Credential : c.key # NoKey}

Next ==
  \/ \E i \in Ids, new \in Input :
       \/ Create(i, new)
       \/ Save(i, new)
       \/ \E v \in Versions, allow \in BOOLEAN : SaveConditional(i, new, v, allow)
  \/ \E i \in Ids : Delete(i)
  \/ MigrateLegacyKeys
  \/ FirstWriteFails
  \/ CreateMetadataFile
  \/ SaveMetadata
  \/ SaveMetadataFails
  \/ \E touched \in (SUBSET Ids) \ {{}} :
       \E changes \in [touched -> Input] : ApplyBatch(changes)
  \/ BatchMetadata
  \/ AfterCommitSucceeds
  \/ AfterCommitFails
  \/ UndoCanonical
  \/ UndoMetadata
  \/ RollbackCanonical
  \/ RollbackMetadata
  \/ Crash

Spec == Init /\ [][Next]_vars

-----------------------------------------------------------------------------
(* The readers.                                                             *)

\* listMetadata: the projection when there is one, else what it would create.
ListMetadata == IF meta = NoFile THEN Projection(canon) ELSE meta

\* loadByCredentialKey: the identity comes from the projection, the Credential
\* from the canonical file; None stands for NOT_FOUND and for an orphan.
LoadByCredentialKey(k) ==
  LET found == {i \in Ids : ListMetadata[i] # None /\ ListMetadata[i].key = k}
  IN  IF found = {} THEN None ELSE canon[CHOOSE i \in found : TRUE]

-----------------------------------------------------------------------------
(* What the collection guarantees.                                          *)

\* The collection a restarted process or the next operation is entitled to
\* see: a batch counts only once its callback and its writes are through.
Committed == IF stage \in BatchStages THEN prev ELSE canon

\* Every file holds records of the right shape, and only a batch has a
\* collection to roll back to.
TypeOK ==
  /\ canon \in Collection
  /\ tombs \in SUBSET Ids
  /\ meta \in [Ids -> Metadata \cup {None}] \cup {NoFile}
  /\ stage \in Stages
  /\ prev \in Collection
  /\ last \in Outcomes
  /\ torn \in BOOLEAN

\* No two stored identities ever share a credentialKey, neither in the
\* canonical file nor in the projection; listMetadata and list refuse to
\* serve a file that breaks this, so a collision would stop the whole service.
KeysNeverCollide ==
  /\ UniqueKeys(canon)
  /\ meta # NoFile =>
       \A i, j \in Ids : (meta[i] # None /\ meta[j] # None
                           /\ meta[i].key = meta[j].key) => i = j

\* A tombstoned identity is never stored again, whatever was rolled back or
\* cut short (DELETED_IDENTITY_BARRIER).
NoResurrection == \A i \in tombs : canon[i] = None /\ Committed[i] = None

\* An operation that ended cleanly leaves the projection equal to the
\* canonical file: success, a batch undone after its callback failed, and a
\* batch whose failed writes were rolled back (CREDENTIAL_ATOMIC_COMMIT_FAILED).
CleanOutcomeInSync ==
  (stage = "idle" /\ last \in Clean) => meta = Projection(canon)

\* A lookup by credentialKey reads the identity from the projection and the
\* Credential from the canonical file (loadByCredentialKey): it can find
\* nothing, or an orphan, but never a Credential of another key - except
\* while a batch whose undo was cut short is still in the projection.
LookupNeverMisroutes ==
  (stage = "idle" /\ ~torn) =>
    \A k \in Keys : LoadByCredentialKey(k) = None \/ LoadByCredentialKey(k).key = k

\* A batch that reports that its failure was contained has left exactly the
\* collection it found, in both files; one that reports success has left the
\* whole batch.
BatchAllOrNothing ==
  [][(stage \in BatchStages /\ stage' = "idle") =>
       /\ last' \in {"undone", "commitFailed"} =>
            canon' = prev /\ meta' = Projection(prev)
       /\ last' = "ok" => canon' = canon /\ meta' = Projection(canon)]_vars

\* Revocation and deletion are final for every reader of a committed
\* collection: a failed import may put an older collection back, but never
\* one in which a Credential that others saw revoked is live again.
TerminalIsFinal ==
  [][\A i \in Ids :
       (Committed[i] # None /\ Committed'[i] # None
          /\ Committed[i].state \in Terminal)
       => Committed'[i].state = Committed[i].state]_vars

\* Through every failure and crash the two files behave like the registry of
\* CredentialRegistry: each operation takes effect at one instant or never.
Registry == INSTANCE CredentialRegistry WITH reg <- Committed, dead <- tombs
ImplementsRegistry == Registry!Spec
=============================================================================
