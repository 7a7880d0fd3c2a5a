---------------------------- MODULE StorageProofs ----------------------------
(***************************************************************************)
(* What the collection store guarantees for every set of identities, keys, *)
(* bindings, secrets and versions; below, what the encrypted files and the *)
(* audit log guarantee for every set of environments and contents; and     *)
(* last, when operations on the stores can wait for each other in a circle *)
(*                                                                         *)
(* The inductive invariant of the store adds to the type invariant what a  *)
(* rollback relies on: the collection a batch wrote is a lawful change of  *)
(* the one it read, both have unique keys, and neither holds a tombstoned  *)
(* identity.  That of the log follows an entry from the file through the   *)
(* hands of the migration, of a queue and of a restore.  That of the locks *)
(* keeps, for each operation, a path of requests it may make in its place. *)
(***************************************************************************)
EXTENDS CredentialStore, AuditTrail, CommitLocks, FiniteSetTheorems, SequenceTheorems, TLAPS

\* A batch in progress could still take effect or be undone.
BatchIsLawful ==
  /\ stage \notin BatchStages => prev = Empty
  /\ stage \in BatchStages => Lawful(prev, canon, tombs)
  /\ stage \in {"undoMeta", "rollbackMeta"} => canon = prev
  /\ stage = "batchAfter" => meta = Projection(canon)

\* No record without a key is ever projected or rolled back to.
KeyedBeforeProjected ==
  /\ (meta # NoFile \/ stage # "idle") => Legacy(canon) = {}
  /\ Legacy(prev) = {}

IInv == /\ TypeOK
        /\ KeysNeverCollide
        /\ UniqueKeys(prev)
        /\ \A i \in tombs : canon[i] = None /\ prev[i] = None
        /\ CleanOutcomeInSync
        /\ BatchIsLawful
        /\ KeyedBeforeProjected

-----------------------------------------------------------------------------
(* Collections.                                                             *)

\* A stored record is never the value that says nothing is stored.
LEMMA CredentialIsNotNone == ASSUME NEW c \in Credential PROVE c # None
BY CredentialDataAssumption DEF Credential, States, Terminal

\* The empty collection a finished operation leaves in prev is a collection
\* without conflicts.
LEMMA EmptyCollection ==
  Empty \in Collection /\ UniqueKeys(Empty) /\ Legacy(Empty) = {}
BY DEF Empty, Collection, UniqueKeys, Stored, Legacy

\* Giving legacy records their keys keeps the collection's shape and its
\* identities.
LEMMA KeyedCollection ==
  ASSUME NEW c \in Collection, NEW fresh \in [Legacy(c) -> Keys]
  PROVE  /\ Keyed(c, fresh) \in Collection
         /\ Legacy(Keyed(c, fresh)) = {}
         /\ \A i \in Ids : (Keyed(c, fresh)[i] = None) <=> (c[i] = None)
         /\ \A i \in Stored(c) : /\ Keyed(c, fresh)[i] \in Credential
                                 /\ Successor(c[i], Keyed(c, fresh)[i])
<1> DEFINE k == Keyed(c, fresh)
<1>1. ASSUME NEW i \in Legacy(c)
      PROVE  k[i] \in Credential /\ Successor(c[i], k[i])
  <2>1. i \in Ids /\ c[i] \in Credential /\ c[i].key = NoKey /\ fresh[i] \in Keys
    BY DEF Legacy, Stored, Collection
  <2>2. k[i] = [c[i] EXCEPT !.key = fresh[i]]
    BY <2>1 DEF Keyed
  <2> QED BY <2>1, <2>2 DEF Credential, Successor
<1>2. ASSUME NEW i \in Ids \ Legacy(c)
      PROVE  k[i] = c[i]
  BY DEF Keyed
<1>3. ASSUME NEW i \in Stored(c)
      PROVE  k[i] \in Credential /\ Successor(c[i], k[i])
  <2>1. CASE i \in Legacy(c)
    BY <1>1, <2>1
  <2>2. CASE i \notin Legacy(c)
    BY <1>2, <2>2 DEF Stored, Collection, Successor
  <2> QED BY <2>1, <2>2
<1>4. ASSUME NEW i \in Ids, c[i] = None
      PROVE  k[i] = None
  BY <1>2, <1>4 DEF Legacy, Stored
<1>5. \A i \in Ids : (k[i] = None) <=> (c[i] = None)
  BY <1>3, <1>4, CredentialIsNotNone DEF Stored
<1>6. k \in Collection
  <2>1. ASSUME NEW i \in Ids
        PROVE  k[i] \in Credential \cup {None}
    BY <1>3, <1>4 DEF Stored
  <2> QED BY <2>1 DEF Keyed, Collection
<1>7. Legacy(k) = {}
  <2>1. ASSUME NEW i \in Stored(c)
        PROVE  k[i].key # NoKey
    <3>1. CASE i \in Legacy(c)
      <4>1. fresh[i] \in Keys /\ c[i] \in Credential
        BY <2>1, <3>1 DEF Stored, Collection
      <4>2. k[i] = [c[i] EXCEPT !.key = fresh[i]]
        BY <3>1 DEF Keyed, Legacy, Stored
      <4>3. k[i].key = fresh[i]
        BY <4>1, <4>2 DEF Credential
      <4> QED BY <4>1, <4>3, CredentialDataAssumption
    <3>2. CASE i \notin Legacy(c)
      BY <1>2, <2>1, <3>2 DEF Stored, Legacy
    <3> QED BY <3>1, <3>2
  <2> QED BY <1>5, <2>1 DEF Legacy, Stored
<1> QED BY <1>3, <1>5, <1>6, <1>7

\* The projection of a collection has the shape of the metadata file.
LEMMA ProjectionShape ==
  ASSUME NEW c \in Collection
  PROVE  Projection(c) \in [Ids -> Metadata \cup {None}]
<1>1. ASSUME NEW i \in Ids
      PROVE  Projection(c)[i] \in Metadata \cup {None}
  <2>1. CASE c[i] = None
    BY <2>1 DEF Projection
  <2>2. CASE c[i] # None
    <3>1. c[i] \in Credential
      BY <2>2 DEF Collection
    <3> QED BY <2>2, <3>1 DEF Projection, MetadataOf, Metadata, Credential
  <2> QED BY <2>1, <2>2
<1> QED BY <1>1 DEF Projection

\* Projecting keeps identities and keys, so unique keys stay unique.
LEMMA ProjectionKeys ==
  ASSUME NEW c \in Collection, UniqueKeys(c), Legacy(c) = {},
         NEW i \in Ids, NEW j \in Ids,
         Projection(c)[i] # None, Projection(c)[j] # None,
         Projection(c)[i].key = Projection(c)[j].key
  PROVE  i = j
<1>1. c[i] # None /\ c[j] # None
  BY DEF Projection
<1>2. c[i].key # NoKey
  BY <1>1 DEF Legacy, Stored
<1>3. c[i].key = c[j].key
  BY <1>1 DEF Projection, MetadataOf
<1> QED BY <1>1, <1>2, <1>3 DEF UniqueKeys, Stored

\* A collection is a lawful successor of itself.
LEMMA LawfulReflexive == \A c, barred : Lawful(c, c, barred)
BY DEF Lawful, LawfulAt

-----------------------------------------------------------------------------
(* What each write of the canonical file does to it.                        *)

\* The conclusion shared by every save, create, conditional save and
\* migration.
CanonicalWrite == /\ stage = "idle"
                  /\ canon' \in Collection
                  /\ UniqueKeys(canon')
                  /\ Lawful(canon, canon', tombs)
                  /\ Legacy(canon') = {}
                  /\ stage' = "saveMeta"
                  /\ UNCHANGED <<tombs, meta, prev, last, torn>>

\* Replacing one record of a keyed collection is lawful when the replacement
\* passed the checks of a save.
LEMMA ReplacementIsLawful ==
  ASSUME TypeOK, NEW i \in Ids, NEW new \in Input,
         NEW fresh \in [Legacy(canon) -> Keys],
         \/ Insertable(i)
         \/ /\ canon[i] # None
            /\ \E allow \in BOOLEAN : Replaceable(Keyed(canon, fresh)[i], new, allow)
  PROVE  LET next == [Keyed(canon, fresh) EXCEPT ![i] = new]
         IN  next \in Collection /\ Lawful(canon, next, tombs) /\ Legacy(next) = {}
<1> DEFINE keyed == Keyed(canon, fresh)
           next == [keyed EXCEPT ![i] = new]
<1>1. canon \in Collection /\ new \in Credential
  BY DEF TypeOK, Input
<1>2. /\ keyed \in Collection
      /\ \A j \in Ids : (keyed[j] = None) <=> (canon[j] = None)
      /\ \A j \in Stored(canon) : keyed[j] \in Credential /\ Successor(canon[j], keyed[j])
  BY <1>1, KeyedCollection
<1>3. next \in Collection
  BY <1>1, <1>2 DEF Collection
<1>5. Legacy(next) = {}
  <2>1. new.key # NoKey
    BY DEF Input
  <2>2. Legacy(keyed) = {}
    BY <1>1, KeyedCollection
  <2> QED BY <1>2, <2>1, <2>2 DEF Legacy, Stored, Collection
<1>4. ASSUME NEW j \in Ids
      PROVE  LawfulAt(j, canon, next, tombs)
  <2>1. CASE j # i
    <3>1. next[j] = keyed[j]
      BY <1>2, <2>1 DEF Collection
    <3>2. CASE canon[j] = None
      BY <1>2, <3>1, <3>2 DEF LawfulAt
    <3>3. CASE canon[j] # None
      BY <1>2, <3>1, <3>3 DEF LawfulAt, Stored
    <3> QED BY <3>2, <3>3
  <2>2. CASE j = i
    <3>1. next[j] = new /\ new # None
      BY <1>1, <1>2, <2>2, CredentialIsNotNone DEF Collection
    <3>2. CASE Insertable(i)
      BY <2>2, <3>1, <3>2 DEF LawfulAt, Insertable
    <3>3. CASE canon[i] # None /\ \E allow \in BOOLEAN : Replaceable(keyed[i], new, allow)
      <4>1. Successor(canon[i], keyed[i])
        BY <1>2, <3>3 DEF Stored
      <4>2. Successor(canon[i], new)
        BY <3>3, <4>1 DEF Replaceable, Successor
      <4> QED BY <2>2, <3>1, <3>3, <4>2 DEF LawfulAt
    <3> QED BY <3>2, <3>3
  <2> QED BY <2>1, <2>2
<1> QED BY <1>3, <1>4, <1>5 DEF Lawful

LEMMA CreateWrites ==
  ASSUME TypeOK, NEW i \in Ids, NEW new \in Input, Create(i, new)
  PROVE  CanonicalWrite
BY ReplacementIsLawful DEF Create, WriteCollection, CanonicalWrite

LEMMA SaveWrites ==
  ASSUME TypeOK, NEW i \in Ids, NEW new \in Input, Save(i, new)
  PROVE  CanonicalWrite
<1>1. PICK fresh \in [Legacy(canon) -> Keys] :
        /\ Replaceable(Keyed(canon, fresh)[i], new, FALSE)
        /\ WriteCollection([Keyed(canon, fresh) EXCEPT ![i] = new])
  BY DEF Save
<1>2. stage = "idle" /\ canon[i] # None
  BY DEF Save
<1> QED BY <1>1, <1>2, ReplacementIsLawful DEF WriteCollection, CanonicalWrite

LEMMA SaveConditionalWrites ==
  ASSUME TypeOK, NEW i \in Ids, NEW new \in Input,
         NEW v \in Versions, NEW allow \in BOOLEAN,
         SaveConditional(i, new, v, allow)
  PROVE  CanonicalWrite
<1>1. PICK fresh \in [Legacy(canon) -> Keys] :
        /\ Replaceable(Keyed(canon, fresh)[i], new, allow)
        /\ WriteCollection([Keyed(canon, fresh) EXCEPT ![i] = new])
  BY DEF SaveConditional
<1>2. stage = "idle" /\ canon[i] # None
  BY DEF SaveConditional
<1> QED BY <1>1, <1>2, ReplacementIsLawful DEF WriteCollection, CanonicalWrite

LEMMA MigrationWrites ==
  ASSUME TypeOK, MigrateLegacyKeys
  PROVE  CanonicalWrite
<1>1. PICK fresh \in [Legacy(canon) -> Keys] : WriteCollection(Keyed(canon, fresh))
  BY DEF MigrateLegacyKeys
<1>2. canon \in Collection
  BY DEF TypeOK
<1>3. \A j \in Ids : LawfulAt(j, canon, Keyed(canon, fresh), tombs)
  BY <1>2, KeyedCollection DEF LawfulAt, Stored
<1>4. stage = "idle"
  BY DEF MigrateLegacyKeys
<1> QED BY <1>1, <1>2, <1>3, <1>4, KeyedCollection
        DEF WriteCollection, CanonicalWrite, Lawful

\* A batch that passed its checks is lawful as a whole.
LEMMA BatchWrites ==
  ASSUME TypeOK, NEW touched \in SUBSET Ids, NEW changes \in [touched -> Input],
         BatchAdmits(changes)
  PROVE  /\ BatchResult(changes) \in Collection
         /\ UniqueKeys(BatchResult(changes))
         /\ Lawful(canon, BatchResult(changes), tombs)
         /\ Legacy(BatchResult(changes)) = {}
<1> DEFINE next == BatchResult(changes)
<1>1. ASSUME NEW i \in Ids
      PROVE  next[i] \in Credential \cup {None} /\ LawfulAt(i, canon, next, tombs)
  <2>1. CASE i \notin touched
    <3>1. next[i] = canon[i]
      BY <2>1 DEF BatchResult
    <3> QED BY <3>1 DEF TypeOK, Collection, LawfulAt
  <2>2. CASE i \in touched
    <3>1. next[i] = changes[i] /\ changes[i] \in Credential
      BY <2>2 DEF BatchResult, Input
    <3>2. next[i] # None
      BY <3>1, CredentialIsNotNone
    <3>3. CASE Insertable(i)
      BY <3>1, <3>2, <3>3 DEF LawfulAt, Insertable
    <3>4. CASE canon[i] # None /\ Replaceable(canon[i], changes[i], FALSE)
      BY <3>1, <3>2, <3>4 DEF LawfulAt, Replaceable, Successor
    <3> QED BY <2>2, <3>1, <3>3, <3>4 DEF BatchAdmits
  <2> QED BY <2>1, <2>2
<1>2. next \in Collection
  BY <1>1 DEF BatchResult, Collection
<1>3. UniqueKeys(next)
  BY DEF BatchAdmits
<1>4. Legacy(next) = {}
  <2>1. \A i \in touched : changes[i].key # NoKey
    BY DEF Input
  <2>2. Legacy(canon) = {}
    BY DEF BatchAdmits
  <2> QED BY <2>1, <2>2 DEF Legacy, Stored, BatchResult
<1> QED BY <1>1, <1>2, <1>3, <1>4 DEF Lawful

-----------------------------------------------------------------------------
(* The inductive invariant.                                                 *)

LEMMA InitIsSound == Init => IInv
<1> SUFFICES ASSUME Init PROVE IInv
  OBVIOUS
<1>1. TypeOK
  BY EmptyCollection DEF Init, TypeOK, Stages, Outcomes
<1>2. KeysNeverCollide
  BY DEF Init, KeysNeverCollide
<1>3. UniqueKeys(prev) /\ Legacy(prev) = {}
  BY EmptyCollection DEF Init
<1>4. CleanOutcomeInSync /\ BatchIsLawful
  BY DEF Init, CleanOutcomeInSync, BatchIsLawful, Clean, BatchStages
<1> QED BY <1>1, <1>2, <1>3, <1>4 DEF Init, IInv, KeyedBeforeProjected

\* The first write of a save, create, conditional save or migration.
LEMMA CanonicalWriteKeeps == IInv /\ CanonicalWrite => IInv'
<1> SUFFICES ASSUME IInv, CanonicalWrite PROVE IInv'
  OBVIOUS
<1>1. TypeOK'
  BY DEF IInv, TypeOK, CanonicalWrite, Stages
<1>2. KeysNeverCollide'
  BY DEF IInv, KeysNeverCollide, CanonicalWrite
<1>3. UniqueKeys(prev)'
  BY DEF IInv, CanonicalWrite
<1>4. (\A i \in tombs : canon[i] = None /\ prev[i] = None)'
  BY DEF IInv, TypeOK, CanonicalWrite, Lawful, LawfulAt
<1>5. CleanOutcomeInSync' /\ BatchIsLawful'
  BY DEF IInv, CanonicalWrite, CleanOutcomeInSync, BatchIsLawful, BatchStages
<1>6. KeyedBeforeProjected'
  BY DEF IInv, KeyedBeforeProjected, CanonicalWrite
<1> QED BY <1>1, <1>2, <1>3, <1>4, <1>5, <1>6 DEF IInv

LEMMA DeleteKeeps == ASSUME IInv, NEW i \in Ids, Delete(i) PROVE IInv'
<1> USE DEF Delete
<1>1. TypeOK'
  <2>1. canon' \in Collection
    BY DEF IInv, TypeOK, Collection
  <2> QED BY <2>1 DEF IInv, TypeOK, Stages
<1>2. KeysNeverCollide'
  BY DEF IInv, TypeOK, Collection, KeysNeverCollide, UniqueKeys, Stored
<1>3. prev = Empty /\ prev' = Empty
  BY DEF IInv, BatchIsLawful, BatchStages
<1>4. UniqueKeys(prev)'
  BY <1>3, EmptyCollection
<1>5. (\A j \in tombs : canon[j] = None /\ prev[j] = None)'
  BY <1>3 DEF IInv, TypeOK, Collection, Empty
<1>6. CleanOutcomeInSync' /\ BatchIsLawful'
  BY <1>3 DEF CleanOutcomeInSync, BatchIsLawful, BatchStages
<1>7. KeyedBeforeProjected'
  BY DEF IInv, TypeOK, Collection, KeyedBeforeProjected, Legacy, Stored
<1> QED BY <1>1, <1>2, <1>4, <1>5, <1>6, <1>7 DEF IInv

\* A batch writes its result, or fails to and has its own input to restore.
LEMMA ApplyBatchKeeps ==
  ASSUME IInv, NEW touched \in SUBSET Ids, NEW changes \in [touched -> Input],
         ApplyBatch(changes)
  PROVE  IInv'
<1> USE DEF ApplyBatch
<1>1. /\ canon' \in Collection
      /\ UniqueKeys(canon')
      /\ Lawful(canon, canon', tombs)
      /\ Legacy(canon') = {}
  <2>1. TypeOK /\ BatchAdmits(changes)
    BY DEF IInv
  <2>2. CASE canon' = BatchResult(changes)
    BY <2>1, <2>2, BatchWrites
  <2>3. CASE canon' = canon
    BY <2>1, <2>3, LawfulReflexive DEF IInv, TypeOK, KeysNeverCollide, BatchAdmits
  <2> QED BY <2>2, <2>3
<1>2. TypeOK'
  BY <1>1 DEF IInv, TypeOK, Stages, BatchStages
<1>3. KeysNeverCollide' /\ UniqueKeys(prev)'
  BY <1>1 DEF IInv, KeysNeverCollide
<1>4. (\A i \in tombs : canon[i] = None /\ prev[i] = None)'
  BY <1>1 DEF IInv, TypeOK, Lawful, LawfulAt
<1>5. CleanOutcomeInSync' /\ BatchIsLawful'
  BY <1>1 DEF CleanOutcomeInSync, BatchIsLawful, BatchStages
<1>6. KeyedBeforeProjected'
  BY <1>1 DEF IInv, KeyedBeforeProjected, BatchAdmits
<1> QED BY <1>2, <1>3, <1>4, <1>5, <1>6 DEF IInv

\* Every later write puts a collection back that the invariant already
\* covers: the canonical file takes canon or prev, the projection the
\* projection of one of them.
LEMMA LaterWriteKeeps ==
  ASSUME IInv, stage # "idle",
         canon' \in {canon, prev}, stage = "saveMeta" => canon' = canon,
         \/ meta' = meta
         \/ meta' = Projection(canon) /\ canon' = canon
         \/ meta' = Projection(prev) /\ stage \in {"undoMeta", "rollbackMeta"},
         tombs' = tombs
  PROVE  /\ canon' \in Collection
         /\ meta' \in [Ids -> Metadata \cup {None}] \cup {NoFile}
         /\ KeysNeverCollide'
         /\ \A i \in tombs' : canon'[i] = None
         /\ Legacy(canon') = {}
         /\ stage \in BatchStages => Lawful(prev, canon', tombs')
<1>1. /\ canon \in Collection /\ UniqueKeys(canon) /\ Legacy(canon) = {}
      /\ prev \in Collection /\ UniqueKeys(prev) /\ Legacy(prev) = {}
  BY DEF IInv, TypeOK, KeysNeverCollide, KeyedBeforeProjected
<1>2. canon' \in Collection /\ UniqueKeys(canon') /\ Legacy(canon') = {}
  BY <1>1
<1>3. meta' \in [Ids -> Metadata \cup {None}] \cup {NoFile}
  BY <1>1, ProjectionShape DEF IInv, TypeOK
<1>4. ASSUME meta' # NoFile, NEW i \in Ids, NEW j \in Ids,
             meta'[i] # None, meta'[j] # None, meta'[i].key = meta'[j].key
      PROVE  i = j
  <2>1. CASE meta' = meta
    BY <1>4, <2>1 DEF IInv, KeysNeverCollide
  <2>2. CASE meta' = Projection(canon)
    BY <1>1, <1>4, <2>2, ProjectionKeys
  <2>3. CASE meta' = Projection(prev)
    BY <1>1, <1>4, <2>3, ProjectionKeys
  <2> QED BY <2>1, <2>2, <2>3
<1>5. KeysNeverCollide'
  BY <1>2, <1>4 DEF KeysNeverCollide
<1>6. \A i \in tombs' : canon'[i] = None
  BY DEF IInv
<1>7. stage \in BatchStages => Lawful(prev, canon', tombs')
  BY LawfulReflexive DEF IInv, BatchIsLawful
<1> QED BY <1>2, <1>3, <1>5, <1>6, <1>7

\* An operation that ends leaves nothing to roll back, and the files agree
\* whenever it says so.
LEMMA EndKeeps ==
  ASSUME IInv, NEW outcome \in Outcomes, Finish(outcome),
         canon' \in Collection,
         meta' \in [Ids -> Metadata \cup {None}] \cup {NoFile},
         KeysNeverCollide', \A i \in tombs' : canon'[i] = None,
         Legacy(canon') = {}, tombs' = tombs,
         outcome \in Clean => meta' = Projection(canon')
  PROVE  IInv'
<1>1. stage' = "idle" /\ prev' = Empty /\ last' = outcome
  BY DEF Finish
<1>2. TypeOK'
  <2>1. torn' \in BOOLEAN
    BY DEF IInv, TypeOK, Finish
  <2> QED BY <1>1, <2>1, EmptyCollection DEF IInv, TypeOK, Stages
<1>3. UniqueKeys(prev)' /\ Legacy(prev)' = {}
  BY <1>1, EmptyCollection
<1>4. (\A i \in tombs : canon[i] = None /\ prev[i] = None)'
  BY <1>1 DEF IInv, TypeOK, Empty
<1>5. CleanOutcomeInSync' /\ BatchIsLawful'
  BY <1>1 DEF CleanOutcomeInSync, BatchIsLawful, BatchStages
<1>6. KeyedBeforeProjected'
  BY <1>3 DEF KeyedBeforeProjected
<1> QED BY <1>2, <1>3, <1>4, <1>5, <1>6 DEF IInv

\* A batch that moves on to its next write.
LEMMA BatchStepKeeps ==
  ASSUME IInv, stage \in BatchStages, stage' \in BatchStages,
         canon' \in {canon, prev},
         \/ meta' = meta
         \/ meta' = Projection(canon) /\ canon' = canon,
         stage' \in {"undoMeta", "rollbackMeta"} => canon' = prev,
         stage' = "batchAfter" => meta' = Projection(canon'),
         UNCHANGED <<tombs, prev, last, torn>>
  PROVE  IInv'
<1>1. /\ canon' \in Collection
      /\ meta' \in [Ids -> Metadata \cup {None}] \cup {NoFile}
      /\ KeysNeverCollide'
      /\ \A i \in tombs' : canon'[i] = None
      /\ Legacy(canon') = {}
      /\ stage \in BatchStages => Lawful(prev, canon', tombs')
  BY LaterWriteKeeps DEF BatchStages
<1>2. TypeOK'
  BY <1>1 DEF IInv, TypeOK, Stages
<1>3. CleanOutcomeInSync' /\ BatchIsLawful'
  BY <1>1 DEF CleanOutcomeInSync, BatchIsLawful, BatchStages
<1>4. UniqueKeys(prev)' /\ KeyedBeforeProjected'
  BY <1>1 DEF IInv, KeyedBeforeProjected
<1> QED BY <1>1, <1>2, <1>3, <1>4 DEF IInv

LEMMA CreateMetadataFileKeeps == IInv /\ CreateMetadataFile => IInv'
<1> SUFFICES ASSUME IInv, CreateMetadataFile PROVE IInv'
  OBVIOUS
<1> USE DEF CreateMetadataFile
<1>1. /\ canon \in Collection /\ UniqueKeys(canon) /\ Legacy(canon) = {}
  BY DEF IInv, TypeOK, KeysNeverCollide
<1>2. KeysNeverCollide'
  BY <1>1, ProjectionKeys DEF KeysNeverCollide
<1>3. meta' \in [Ids -> Metadata \cup {None}] \cup {NoFile}
  BY <1>1, ProjectionShape
<1>4. \A i \in tombs' : canon'[i] = None
  BY DEF IInv
<1> QED BY <1>1, <1>2, <1>3, <1>4, EndKeeps DEF Outcomes, Clean

\* The metadata write of a save, migration or delete, in both outcomes, and a
\* crash: the canonical file stays as it is and the operation ends.
LEMMA SaveMetadataKeeps ==
  IInv /\ (SaveMetadata \/ SaveMetadataFails \/ Crash) => IInv'
<1> SUFFICES ASSUME IInv, SaveMetadata \/ SaveMetadataFails \/ Crash PROVE IInv'
  OBVIOUS
<1>1. /\ stage # "idle" /\ canon' = canon /\ tombs' = tombs
      /\ meta' = meta \/ meta' = Projection(canon)
  BY DEF SaveMetadata, SaveMetadataFails, Crash
<1>2. /\ canon' \in Collection
      /\ meta' \in [Ids -> Metadata \cup {None}] \cup {NoFile}
      /\ KeysNeverCollide'
      /\ \A i \in tombs' : canon'[i] = None
      /\ Legacy(canon') = {}
  BY <1>1, LaterWriteKeeps
<1>3. PICK outcome \in Outcomes :
        Finish(outcome) /\ (outcome \in Clean => meta' = Projection(canon'))
  BY <1>1 DEF SaveMetadata, SaveMetadataFails, Crash, Outcomes, Clean
<1> QED BY <1>1, <1>2, <1>3, EndKeeps

\* Every step of a batch after its first write.
LEMMA BatchKeeps ==
  /\ IInv
  /\ \/ BatchMetadata \/ AfterCommitSucceeds \/ AfterCommitFails
     \/ UndoCanonical \/ UndoMetadata \/ RollbackCanonical \/ RollbackMetadata
  => IInv'
<1> SUFFICES ASSUME IInv,
                    \/ BatchMetadata \/ AfterCommitSucceeds \/ AfterCommitFails
                    \/ UndoCanonical \/ UndoMetadata
                    \/ RollbackCanonical \/ RollbackMetadata
             PROVE  IInv'
  OBVIOUS
<1>1. CASE BatchMetadata
  BY <1>1, BatchStepKeeps DEF BatchMetadata, BatchStages
<1>2. CASE AfterCommitFails
  BY <1>2, BatchStepKeeps DEF AfterCommitFails, BatchStages
<1>3. CASE UndoCanonical
  BY <1>3, BatchStepKeeps DEF UndoCanonical, BatchStages
<1>4. CASE UndoMetadata /\ stage' # "idle"
  <2>1. stage = "undoMeta" /\ stage' = "rollbackCanon" /\ UNCHANGED <<meta, prev, last, torn>>
    BY <1>4 DEF UndoMetadata, Finish
  <2> QED BY <1>4, <2>1, BatchStepKeeps DEF UndoMetadata, BatchStages
<1>5. CASE RollbackCanonical /\ stage' # "idle"
  <2>1. stage' = "rollbackMeta" /\ canon' = prev /\ UNCHANGED <<prev, last, torn>>
    BY <1>5 DEF RollbackCanonical, Finish
  <2> QED BY <1>5, <2>1, BatchStepKeeps DEF RollbackCanonical, BatchStages
<1>6. CASE /\ stage' = "idle"
           /\ AfterCommitSucceeds \/ UndoMetadata \/ RollbackCanonical \/ RollbackMetadata
  <2>1. /\ stage # "idle" /\ stage # "saveMeta" /\ canon' \in {canon, prev} /\ tombs' = tombs
        /\ \/ meta' = meta
           \/ meta' = Projection(prev) /\ stage \in {"undoMeta", "rollbackMeta"}
    BY <1>6 DEF AfterCommitSucceeds, UndoMetadata, RollbackCanonical, RollbackMetadata
  <2>2. /\ canon' \in Collection
        /\ meta' \in [Ids -> Metadata \cup {None}] \cup {NoFile}
        /\ KeysNeverCollide'
        /\ \A i \in tombs' : canon'[i] = None
        /\ Legacy(canon') = {}
    BY <2>1, LaterWriteKeeps
  <2>3. PICK outcome \in Outcomes :
          Finish(outcome) /\ (outcome \in Clean => meta' = Projection(canon'))
    <3>1. CASE AfterCommitSucceeds
      BY <3>1 DEF AfterCommitSucceeds, IInv, BatchIsLawful, Outcomes, Clean
    <3>2. CASE UndoMetadata
      BY <1>6, <3>2 DEF UndoMetadata, IInv, BatchIsLawful, Outcomes, Clean
    <3>3. CASE RollbackCanonical
      BY <1>6, <3>3 DEF RollbackCanonical, Outcomes, Clean
    <3>4. CASE RollbackMetadata
      BY <3>4 DEF RollbackMetadata, IInv, BatchIsLawful, Outcomes, Clean
    <3> QED BY <1>6, <3>1, <3>2, <3>3, <3>4
  <2> QED BY <2>1, <2>2, <2>3, EndKeeps
<1>7. (AfterCommitSucceeds \/ RollbackMetadata) => stage' = "idle"
  BY DEF AfterCommitSucceeds, RollbackMetadata, Finish
<1> QED BY <1>1, <1>2, <1>3, <1>4, <1>5, <1>6, <1>7

LEMMA Inductive == IInv /\ [Next]_vars => IInv'
<1> SUFFICES ASSUME IInv, [Next]_vars PROVE IInv'
  OBVIOUS
<1> USE DEF IInv
<1>1. ASSUME NEW i \in Ids, NEW new \in Input, Create(i, new) PROVE IInv'
  BY <1>1, CreateWrites, CanonicalWriteKeeps
<1>2. ASSUME NEW i \in Ids, NEW new \in Input, Save(i, new) PROVE IInv'
  BY <1>2, SaveWrites, CanonicalWriteKeeps
<1>3. ASSUME NEW i \in Ids, NEW new \in Input, NEW v \in Versions,
             NEW allow \in BOOLEAN, SaveConditional(i, new, v, allow)
      PROVE  IInv'
  BY <1>3, SaveConditionalWrites, CanonicalWriteKeeps
<1>4. ASSUME NEW i \in Ids, Delete(i) PROVE IInv'
  BY <1>4, DeleteKeeps
<1>5. CASE MigrateLegacyKeys
  BY <1>5, MigrationWrites, CanonicalWriteKeeps
<1>6. CASE FirstWriteFails
  BY <1>6 DEF FirstWriteFails, TypeOK, KeysNeverCollide, CleanOutcomeInSync,
              BatchIsLawful, KeyedBeforeProjected, Outcomes, Clean
<1>7. CASE CreateMetadataFile
  BY <1>7, CreateMetadataFileKeeps
<1>8. CASE SaveMetadata \/ SaveMetadataFails \/ Crash
  BY <1>8, SaveMetadataKeeps
<1>9. ASSUME NEW touched \in SUBSET Ids, NEW changes \in [touched -> Input],
             ApplyBatch(changes)
      PROVE  IInv'
  BY <1>9, ApplyBatchKeeps
<1>10. CASE \/ BatchMetadata \/ AfterCommitSucceeds \/ AfterCommitFails
            \/ UndoCanonical \/ UndoMetadata \/ RollbackCanonical \/ RollbackMetadata
  BY <1>10, BatchKeeps
<1>11. CASE UNCHANGED vars
  BY <1>11 DEF vars, TypeOK, KeysNeverCollide, CleanOutcomeInSync,
               BatchIsLawful, KeyedBeforeProjected
<1> QED BY <1>1, <1>2, <1>3, <1>4, <1>5, <1>6, <1>7, <1>8, <1>9, <1>10, <1>11 DEF Next

-----------------------------------------------------------------------------
(* The theorems.                                                            *)

LEMMA Invariance == Spec => []IInv
<1>1. Init => IInv
  BY InitIsSound
<1>2. IInv /\ [Next]_vars => IInv'
  BY Inductive
<1> QED BY <1>1, <1>2, PTL DEF Spec

\* Both files always hold well-formed records, through every failed write and
\* crash of CredentialCollectionStoreAdapter.
THEOREM TypeCorrect == Spec => []TypeOK
<1>1. IInv => TypeOK
  BY DEF IInv
<1> QED BY <1>1, Invariance, PTL

\* No two identities share a credentialKey, in either file, so the uniqueness
\* check of list and listMetadata never stops the service.
THEOREM KeysStayUnique == Spec => []KeysNeverCollide
<1>1. IInv => KeysNeverCollide
  BY DEF IInv
<1> QED BY <1>1, Invariance, PTL

\* A deleted identity stays deleted, also across the rollback of a batch.
THEOREM DeletedStaysDeleted == Spec => []NoResurrection
<1>1. IInv => NoResurrection
  BY DEF IInv, NoResurrection, Committed
<1> QED BY <1>1, Invariance, PTL

\* Whenever an operation tells its caller that it went through, or that its
\* failure was undone, the two files agree.
THEOREM CleanMeansInSync == Spec => []CleanOutcomeInSync
<1>1. IInv => CleanOutcomeInSync
  BY DEF IInv
<1> QED BY <1>1, Invariance, PTL

\* How the committed collection may change in one step: not at all, or
\* lawfully as a whole, or by the deletion of one identity.
LEMMA CommittedStep ==
  ASSUME IInv, [Next]_vars
  PROVE  \/ Committed' = Committed /\ tombs' = tombs
         \/ /\ Committed' \in Collection
            /\ UniqueKeys(Committed')
            /\ Lawful(Committed, Committed', tombs)
            /\ tombs' = tombs
         \/ \E i \in Ids : /\ Committed[i] # None
                           /\ Committed' = [Committed EXCEPT ![i] = None]
                           /\ tombs' = tombs \cup {i}
<1> DEFINE Goal == \/ Committed' = Committed /\ tombs' = tombs
                   \/ /\ Committed' \in Collection
                      /\ UniqueKeys(Committed')
                      /\ Lawful(Committed, Committed', tombs)
                      /\ tombs' = tombs
                   \/ \E i \in Ids : /\ Committed[i] # None
                                     /\ Committed' = [Committed EXCEPT ![i] = None]
                                     /\ tombs' = tombs \cup {i}
<1> SUFFICES Goal
  OBVIOUS
<1>1. ASSUME CanonicalWrite PROVE Goal
  BY <1>1 DEF CanonicalWrite, Committed, BatchStages
<1>2. ASSUME NEW i \in Ids, NEW new \in Input,
             \/ Create(i, new) \/ Save(i, new)
             \/ \E v \in Versions, allow \in BOOLEAN : SaveConditional(i, new, v, allow)
      PROVE  Goal
  BY <1>1, <1>2, CreateWrites, SaveWrites, SaveConditionalWrites DEF IInv
<1>3. CASE MigrateLegacyKeys
  BY <1>1, <1>3, MigrationWrites DEF IInv
<1>4. ASSUME NEW i \in Ids, Delete(i) PROVE Goal
  BY <1>4 DEF Delete, Committed, BatchStages
<1>5. CASE FirstWriteFails \/ CreateMetadataFile \/ UNCHANGED vars
  BY <1>5 DEF FirstWriteFails, CreateMetadataFile, vars, Finish, Committed, BatchStages
<1>6. CASE stage = "saveMeta" /\ (SaveMetadata \/ SaveMetadataFails \/ Crash)
  BY <1>6 DEF SaveMetadata, SaveMetadataFails, Crash, Finish, Committed, BatchStages
<1>7. ASSUME NEW touched \in SUBSET Ids, NEW changes \in [touched -> Input],
             ApplyBatch(changes)
      PROVE  Goal
  BY <1>7 DEF ApplyBatch, Committed, BatchStages
<1>8. CASE /\ stage \in BatchStages /\ stage' \in BatchStages
           /\ prev' = prev /\ tombs' = tombs
  BY <1>8 DEF Committed
<1>9. CASE /\ stage \in BatchStages /\ stage' = "idle"
           /\ canon' \in {canon, prev} /\ tombs' = tombs
  <2>1. Committed = prev /\ Committed' = canon'
    BY <1>9 DEF Committed, BatchStages
  <2> QED BY <1>9, <2>1 DEF IInv, TypeOK, KeysNeverCollide, BatchIsLawful
<1>10. CASE \/ BatchMetadata \/ AfterCommitSucceeds \/ AfterCommitFails
            \/ UndoCanonical \/ UndoMetadata \/ RollbackCanonical \/ RollbackMetadata
            \/ Crash /\ stage \in BatchStages
  <2>1. stage \in BatchStages /\ canon' \in {canon, prev} /\ tombs' = tombs
    BY <1>10 DEF BatchMetadata, AfterCommitSucceeds, AfterCommitFails, UndoCanonical,
                 UndoMetadata, RollbackCanonical, RollbackMetadata, Crash, BatchStages
  <2>2. stage' = "idle" \/ (stage' \in BatchStages /\ prev' = prev)
    BY <1>10 DEF BatchMetadata, AfterCommitSucceeds, AfterCommitFails, UndoCanonical,
                 UndoMetadata, RollbackCanonical, RollbackMetadata, Crash, Finish, BatchStages
  <2> QED BY <1>8, <1>9, <2>1, <2>2
<1>11. (SaveMetadata \/ SaveMetadataFails) => stage = "saveMeta"
  BY DEF SaveMetadata, SaveMetadataFails
<1>12. Crash => stage = "saveMeta" \/ stage \in BatchStages
  BY DEF Crash, IInv, TypeOK, Stages
<1> HIDE DEF Goal
<1> QED BY <1>2, <1>3, <1>4, <1>5, <1>6, <1>7, <1>10, <1>11, <1>12 DEF Next

\* No reader ever sees a revoked or deleted Credential become live again.
THEOREM TerminalStatesAreFinal == Spec => TerminalIsFinal
<1> DEFINE Final == \A i \in Ids :
                      (Committed[i] # None /\ Committed'[i] # None
                         /\ Committed[i].state \in Terminal)
                      => Committed'[i].state = Committed[i].state
<1>1. ASSUME IInv, [Next]_vars PROVE Final
  <2>1. Committed \in Collection
    BY <1>1 DEF IInv, TypeOK, Committed
  <2>2. CASE Committed' = Committed
    BY <2>2
  <2>3. CASE Lawful(Committed, Committed', tombs)
    BY <2>3 DEF Lawful, LawfulAt, Successor
  <2>4. ASSUME NEW i \in Ids, Committed' = [Committed EXCEPT ![i] = None] PROVE Final
    BY <2>1, <2>4 DEF Collection
  <2> QED BY <1>1, <2>2, <2>3, <2>4, CommittedStep
<1>2. IInv /\ [Next]_vars => [Final]_vars
  BY <1>1
<1> QED BY <1>2, Invariance, PTL DEF Spec, TerminalIsFinal

\* A batch is all or nothing: what it tells its caller is what both files hold.
THEOREM BatchesAreAtomic == Spec => BatchAllOrNothing
<1> DEFINE Atomic == (stage \in BatchStages /\ stage' = "idle") =>
             /\ last' \in {"undone", "commitFailed"} =>
                  canon' = prev /\ meta' = Projection(prev)
             /\ last' = "ok" => canon' = canon /\ meta' = Projection(canon)
<1>1. ASSUME IInv, [Next]_vars, stage \in BatchStages, stage' = "idle",
             last' \in {"undone", "commitFailed", "ok"}
      PROVE  Atomic
  <2>1. \/ AfterCommitSucceeds \/ UndoMetadata \/ RollbackMetadata
        \/ RollbackCanonical \/ Crash
    BY <1>1 DEF Next, vars, BatchStages, Create, Save, SaveConditional, Delete,
                MigrateLegacyKeys, FirstWriteFails, CreateMetadataFile, SaveMetadata,
                SaveMetadataFails, ApplyBatch, BatchMetadata, AfterCommitFails, UndoCanonical
  <2>2. CASE AfterCommitSucceeds
    BY <1>1, <2>2 DEF AfterCommitSucceeds, Finish, IInv, BatchIsLawful
  <2>3. CASE UndoMetadata
    BY <1>1, <2>3 DEF UndoMetadata, Finish, IInv, BatchIsLawful
  <2>4. CASE RollbackMetadata
    BY <1>1, <2>4 DEF RollbackMetadata, Finish, IInv, BatchIsLawful
  <2>5. CASE RollbackCanonical \/ Crash
    BY <1>1, <2>5 DEF RollbackCanonical, Crash, Finish
  <2> QED BY <2>1, <2>2, <2>3, <2>4, <2>5
<1>2. IInv /\ [Next]_vars => [Atomic]_vars
  BY <1>1
<1> QED BY <1>2, Invariance, PTL DEF Spec, BatchAllOrNothing

-----------------------------------------------------------------------------
(* Lookups.  While no undo was cut short, an entry of the projection either  *)
(* belongs to a deleted identity or names the stored Credential's own key.   *)

Routed ==
  (~torn /\ stage \notin UndoStages /\ meta # NoFile) =>
    \A i \in Ids : meta[i] # None =>
       i \in tombs \/ (canon[i] # None /\ meta[i].key = canon[i].key)

\* A projection just written routes every key.
LEMMA ProjectionRoutes ==
  ASSUME NEW i \in Ids, Projection(canon)[i] # None
  PROVE  canon[i] # None /\ Projection(canon)[i].key = canon[i].key
BY DEF Projection, MetadataOf

\* A lawful change of the canonical file leaves old entries valid.
LEMMA LawfulKeepsRouted ==
  ASSUME IInv, Routed, stage \notin UndoStages, Lawful(canon, canon', tombs),
         UNCHANGED <<tombs, meta, torn>>
  PROVE  Routed'
<1> SUFFICES ASSUME ~torn, meta # NoFile, NEW i \in Ids, meta[i] # None,
                    i \notin tombs
             PROVE  canon'[i] # None /\ meta[i].key = canon'[i].key
  BY DEF Routed
<1>1. canon[i] # None /\ meta[i].key = canon[i].key
  BY DEF Routed
<1>2. canon[i].key # NoKey
  BY <1>1 DEF IInv, KeyedBeforeProjected, Legacy, Stored
<1> QED BY <1>1, <1>2 DEF Lawful, LawfulAt, Successor

LEMMA RoutedInductive == IInv /\ Routed /\ [Next]_vars => Routed'
<1> SUFFICES ASSUME IInv, Routed, [Next]_vars PROVE Routed'
  OBVIOUS
<1>1. ASSUME CanonicalWrite PROVE Routed'
  BY <1>1, LawfulKeepsRouted DEF CanonicalWrite, UndoStages, BatchStages
<1>2. ASSUME NEW i \in Ids, NEW new \in Input,
             \/ Create(i, new) \/ Save(i, new)
             \/ \E v \in Versions, allow \in BOOLEAN : SaveConditional(i, new, v, allow)
      PROVE  Routed'
  BY <1>1, <1>2, CreateWrites, SaveWrites, SaveConditionalWrites DEF IInv
<1>3. CASE MigrateLegacyKeys
  BY <1>1, <1>3, MigrationWrites DEF IInv
<1>4. ASSUME NEW i \in Ids, Delete(i) PROVE Routed'
  BY <1>4 DEF Delete, Routed, UndoStages, BatchStages, IInv, TypeOK, Collection
<1>5. CASE FirstWriteFails \/ UNCHANGED vars
  BY <1>5 DEF FirstWriteFails, vars, Routed
<1>6. CASE meta' = Projection(canon) /\ canon' = canon
  BY <1>6, ProjectionRoutes DEF Routed
<1>7. CASE canon' = canon /\ meta' = meta /\ tombs' = tombs /\ Crash
  BY <1>7 DEF Crash, Finish, Clean, Routed
<1>8. CASE SaveMetadataFails
  BY <1>8 DEF SaveMetadataFails, Finish, Clean, Routed, UndoStages, BatchStages
<1>9. ASSUME NEW touched \in SUBSET Ids, NEW changes \in [touched -> Input],
             ApplyBatch(changes)
      PROVE  Routed'
  <2>1. CASE stage' = "batchMeta"
    <3>1. canon' = BatchResult(changes)
      BY <1>9, <2>1 DEF ApplyBatch
    <3>2. Lawful(canon, canon', tombs)
      BY <1>9, <3>1, BatchWrites DEF ApplyBatch, IInv
    <3> QED BY <1>9, <3>2, LawfulKeepsRouted DEF ApplyBatch, UndoStages, BatchStages
  <2>2. CASE stage' = "rollbackCanon"
    BY <2>2 DEF Routed, UndoStages, BatchStages
  <2> QED BY <1>9, <2>1, <2>2 DEF ApplyBatch
<1>10. CASE stage' \in UndoStages
  BY <1>10 DEF Routed
<1>11. CASE stage \in UndoStages /\ stage' = "idle" /\ (UndoMetadata \/ RollbackMetadata
                                                      \/ RollbackCanonical)
  <2>1. (canon' = prev /\ meta' = Projection(canon')) \/ torn'
    BY <1>11 DEF UndoMetadata, RollbackMetadata, RollbackCanonical, Finish, Clean,
                 IInv, BatchIsLawful
  <2> QED BY <2>1 DEF Routed, Projection, MetadataOf
<1>12. CASE AfterCommitSucceeds
  BY <1>12, ProjectionRoutes DEF AfterCommitSucceeds, IInv, BatchIsLawful, Routed
<1>13. (SaveMetadata \/ CreateMetadataFile) => meta' = Projection(canon) /\ canon' = canon
  BY DEF SaveMetadata, CreateMetadataFile
<1>14. Crash => canon' = canon /\ meta' = meta /\ tombs' = tombs
  BY DEF Crash
<1>15. BatchMetadata \/ AfterCommitFails \/ UndoCanonical =>
         stage' \in UndoStages \/ (meta' = Projection(canon) /\ canon' = canon)
  BY DEF BatchMetadata, AfterCommitFails, UndoCanonical, UndoStages, BatchStages
<1>16. UndoMetadata \/ RollbackMetadata \/ RollbackCanonical =>
         stage \in UndoStages /\ stage' \in UndoStages \cup {"idle"}
  BY DEF UndoMetadata, RollbackMetadata, RollbackCanonical, Finish, UndoStages, BatchStages
<1> QED BY <1>2, <1>3, <1>4, <1>5, <1>6, <1>7, <1>8, <1>9, <1>10, <1>11, <1>12,
           <1>13, <1>14, <1>15, <1>16 DEF Next

\* A lookup by credentialKey never returns a Credential of another key, after
\* any failed write and any crash that did not interrupt the undo of a batch.
THEOREM LookupsAreSound == Spec => []LookupNeverMisroutes
<1>1. Init => Routed
  BY DEF Init, Routed
<1>2. IInv /\ Routed => LookupNeverMisroutes
  <2> SUFFICES ASSUME IInv, Routed, stage = "idle", ~torn, NEW k \in Keys,
                      LoadByCredentialKey(k) # None
               PROVE  LoadByCredentialKey(k).key = k
    BY DEF LookupNeverMisroutes
  <2> DEFINE found == {i \in Ids : ListMetadata[i] # None /\ ListMetadata[i].key = k}
             i == CHOOSE j \in found : TRUE
  <2>1. found # {} /\ LoadByCredentialKey(k) = canon[i]
    BY DEF LoadByCredentialKey
  <2>2. i \in Ids /\ ListMetadata[i] # None /\ ListMetadata[i].key = k
    BY <2>1
  <2> HIDE DEF i, found
  <2>3. CASE meta = NoFile
    BY <2>1, <2>2, <2>3, ProjectionRoutes DEF ListMetadata
  <2>4. CASE meta # NoFile
    <3>1. ListMetadata = meta
      BY <2>4 DEF ListMetadata
    <3>2. i \notin tombs
      BY <2>1, <2>2 DEF IInv
    <3>3. meta[i].key = canon[i].key
      BY <2>2, <2>4, <3>1, <3>2 DEF Routed, UndoStages, BatchStages
    <3> QED BY <2>1, <2>2, <3>1, <3>3
  <2> QED BY <2>3, <2>4
<1> QED BY <1>1, <1>2, Invariance, RoutedInductive, PTL DEF Spec

-----------------------------------------------------------------------------
(* Refinement.                                                              *)

\* The abstract registry states its rules in the same words.
LEMMA SameRules ==
  /\ Registry!Collection = Collection
  /\ \A c : Registry!UniqueKeys(c) = UniqueKeys(c)
  /\ \A c, d, b : Registry!Lawful(c, d, b) = Lawful(c, d, b)
BY DEF Registry!Collection, Collection, Registry!Credential, Credential,
       Registry!States, States, Registry!Terminal, Terminal,
       Registry!UniqueKeys, UniqueKeys, Registry!Stored, Stored,
       Registry!Lawful, Lawful, Registry!LawfulAt, LawfulAt,
       Registry!Successor, Successor

\* The two files, with all their failed and interrupted writes, implement the
\* registry: every operation takes effect at one instant or never.
THEOREM StoreImplementsRegistry == Spec => ImplementsRegistry
<1>1. Init => Registry!Init
  <2> SUFFICES ASSUME Init PROVE Registry!Init
    OBVIOUS
  <2>1. Committed = canon /\ tombs = {}
    BY DEF Init, Committed, BatchStages
  <2> QED BY <2>1, SameRules DEF Init, Registry!Init
<1>2. IInv /\ [Next]_vars => [Registry!Next]_(Registry!registryVars)
  <2> SUFFICES ASSUME IInv, [Next]_vars
               PROVE  [Registry!Next]_(Registry!registryVars)
    OBVIOUS
  <2>1. CASE Committed' = Committed /\ tombs' = tombs
    BY <2>1 DEF Registry!registryVars
  <2>2. CASE /\ Committed' \in Collection
             /\ UniqueKeys(Committed')
             /\ Lawful(Committed, Committed', tombs)
             /\ tombs' = tombs
    BY <2>2, SameRules DEF Registry!Next, Registry!Amend
  <2>3. ASSUME NEW i \in Ids, Committed[i] # None,
               Committed' = [Committed EXCEPT ![i] = None],
               tombs' = tombs \cup {i}
        PROVE  Registry!Next
    BY <2>3 DEF Registry!Next, Registry!Retire
  <2> QED BY <2>1, <2>2, <2>3, CommittedStep
<1> QED BY <1>1, <1>2, Invariance, PTL DEF Spec, ImplementsRegistry, Registry!Spec

-----------------------------------------------------------------------------
(* The files under the storage path and the audit log in them.              *)

Process == [at : {"down", "migrating", "serving"}, conf : Confs \cup {Nil},
            next : Nat \ {0}, held : Content \cup {Nil}]
Up(p) == proc[p].at # "down"
UnderActiveKey(conf, c) ==
  Readable(conf, c) /\ c.sealed /\ KeyVersion(c) = CurrentKeyVersion(conf)

FilesTypeOK ==
  /\ disk \in [Files -> Content \cup {Nil}]
  /\ proc \in [Processes -> Process]
  /\ foreign \in BOOLEAN /\ overlapped \in BOOLEAN

\* What runs has an environment, and the server's is configured; only the server
\* migrates, what it holds is of the file it is at, and it serves after the last.
ProcessesAreSound ==
  /\ \A p \in Processes : Up(p) => Conf(p) \in Confs
  /\ Up("server") => AssertConfigured(Conf("server"))
  /\ proc["cli"].at # "migrating"
  /\ proc["server"].held # Nil =>
       proc["server"].at = "migrating" /\ proc["server"].next \in 1 .. Len(Listed)
  /\ proc["server"].at = "serving" => proc["server"].next > Len(Listed)

\* Every file the server's migration has passed is under its active key, unless a
\* command with other keys has run beside it.
MigratedSoFar ==
  (Up("server") /\ ~foreign) =>
    \A k \in 1 .. Len(Listed) :
      (k < proc["server"].next /\ ~Absent(disk[Listed[k]])) =>
        UnderActiveKey(Conf("server"), disk[Listed[k]])

SameConfiguration ==
  (Up("server") /\ Up("cli") /\ ~foreign) => Conf("cli") = Conf("server")

FilesInv == FilesTypeOK /\ ProcessesAreSound /\ MigratedSoFar /\ SameConfiguration

LEMMA ListedFiles ==
  /\ Len(Listed) \in Nat
  /\ \A k \in 1 .. Len(Listed) : Listed[k] \in Files
  /\ \A f \in ToSet(Listed) : f \in Files /\ \E k \in 1 .. Len(Listed) : f = Listed[k]
BY StorageAssumption DEF Files, ToSet

LEMMA SealedIsSound ==
  ASSUME NEW conf \in Confs, AssertConfigured(conf), NEW body \in (SUBSET StoredEntry) \cup {Broken}
  PROVE  /\ Sealed(conf, body) \in Content /\ Sealed(conf, body) # Nil
         /\ Sealed(conf, body).body = body
         /\ UnderActiveKey(conf, Sealed(conf, body))
<1> DEFINE v == CurrentKeyVersion(conf)
<1>1. v \in DOMAIN conf.keys /\ v \in Nat /\ v # Nil /\ conf.keys[v] # "unfit"
  BY StorageAssumption DEF AssertConfigured, Fit
<1>2. conf.keys[v] \in KeyValues
  BY <1>1 DEF KeyValues
<1>3. Sealed(conf, body) \in Content
  BY <1>1, <1>2 DEF Sealed, Content
<1>4. KeyVersion(Sealed(conf, body)) = v
  BY <1>1 DEF Sealed, KeyVersion
<1>5. UnderActiveKey(conf, Sealed(conf, body))
  BY <1>1, <1>4 DEF Sealed, UnderActiveKey, Readable, Fit
<1> QED
  BY <1>3, <1>5, AuditAssumption DEF Sealed

LEMMA FilesInit == StorageInit => FilesInv
<1> SUFFICES ASSUME StorageInit PROVE FilesInv
  OBVIOUS
<1>1. \A p \in Processes : proc[p] = Down
  BY DEF StorageInit
<1>2. FilesTypeOK
  <2>1. Down \in Process
    BY DEF Process, Down
  <2>2. disk \in [Files -> Content \cup {Nil}]
    BY AuditAssumption DEF StorageInit
  <2> QED
    BY <2>1, <2>2 DEF StorageInit, FilesTypeOK
<1>3. proc["server"] = Down /\ proc["cli"] = Down
  BY <1>1 DEF Processes
<1>4. ProcessesAreSound /\ MigratedSoFar /\ SameConfiguration
  BY <1>1, <1>3 DEF ProcessesAreSound, MigratedSoFar, SameConfiguration, Up, Down
<1> QED
  BY <1>2, <1>4 DEF FilesInv

\* A store writes its file under the active key of its process.
LEMMA WriteKeeps ==
  ASSUME FilesInv, NEW p \in Processes, NEW f \in Files,
         NEW body \in (SUBSET StoredEntry) \cup {Broken}, Write(p, f, body),
         UNCHANGED <<proc, foreign>>, overlapped' \in BOOLEAN
  PROVE  /\ FilesInv' /\ disk'[f] \in Content /\ disk'[f] # Nil /\ disk'[f].body = body
         /\ \A g \in Files \ {f} : disk'[g] = disk[g]
<1> DEFINE c == Sealed(Conf(p), body)
<1>1. Conf(p) \in Confs /\ AssertConfigured(Conf(p)) /\ Up(p)
  BY DEF Write, Running, FilesInv, ProcessesAreSound, Up
<1>2. c \in Content /\ c # Nil /\ c.body = body /\ UnderActiveKey(Conf(p), c)
  BY <1>1, SealedIsSound
<1>3. disk' = [disk EXCEPT ![f] = c]
  BY DEF Write
<1>4. disk'[f] = c /\ \A g \in Files \ {f} : disk'[g] = disk[g]
  BY <1>3 DEF FilesInv, FilesTypeOK
<1>5. FilesTypeOK'
  BY <1>2, <1>3 DEF FilesInv, FilesTypeOK
<1>6. ProcessesAreSound' /\ SameConfiguration'
  BY DEF FilesInv, ProcessesAreSound, SameConfiguration, Up, Conf, AssertConfigured
<1>7. MigratedSoFar'
  <2> SUFFICES ASSUME Up("server"), ~foreign, NEW k \in 1 .. Len(Listed),
                      k < proc["server"].next, ~Absent(disk'[Listed[k]])
               PROVE  UnderActiveKey(Conf("server"), disk'[Listed[k]])
    BY DEF MigratedSoFar, Up, Conf
  <2>1. CASE Listed[k] = f
    <3>1. Conf(p) = Conf("server")
      BY <1>1 DEF FilesInv, SameConfiguration, Processes
    <3> QED
      BY <2>1, <3>1, <1>2, <1>4
  <2>2. CASE Listed[k] # f
    BY <2>2, <1>4, ListedFiles DEF FilesInv, MigratedSoFar, Absent
  <2> QED
    BY <2>1, <2>2
<1> QED
  BY <1>2, <1>4, <1>5, <1>6, <1>7 DEF FilesInv

LEMMA ExitKeeps ==
  ASSUME FilesInv, NEW p \in Processes, Exit(p), UNCHANGED <<disk, foreign>>,
         overlapped' \in BOOLEAN
  PROVE  FilesInv'
<1>1. proc' = [proc EXCEPT ![p] = Down] /\ proc'[p] = Down
  BY DEF Exit, FilesInv, FilesTypeOK
<1>2. \A q \in Processes \ {p} : proc'[q] = proc[q]
  BY <1>1 DEF FilesInv, FilesTypeOK
<1>3. FilesTypeOK'
  BY <1>1 DEF FilesInv, FilesTypeOK, Process, Down
<1>4. CASE p = "server"
  BY <1>1, <1>2, <1>3, <1>4 DEF FilesInv, ProcessesAreSound, MigratedSoFar, SameConfiguration,
     Up, Conf, Down, Processes, AssertConfigured
<1>5. CASE p = "cli"
  <2>1. proc'["server"] = proc["server"]
    BY <1>2, <1>5 DEF Processes
  <2> QED
    BY <1>1, <1>2, <1>3, <1>5, <2>1 DEF FilesInv, ProcessesAreSound, MigratedSoFar,
       SameConfiguration, Up, Conf, Down, Processes, AssertConfigured
<1> QED
  BY <1>4, <1>5 DEF Processes

LEMMA StartKeeps ==
  ASSUME FilesInv, NEW p \in Processes, NEW conf \in Confs, Start(p, conf)
  PROVE  FilesInv'
<1> DEFINE at == IF p = "cli" THEN "serving" ELSE "migrating"
<1>1. /\ proc'[p] = [at |-> at, conf |-> conf, next |-> 1, held |-> Nil]
      /\ \A q \in Processes \ {p} : proc'[q] = proc[q]
  BY DEF Start, FilesInv, FilesTypeOK, Down
<1>2. FilesTypeOK'
  <2>1. proc' \in [Processes -> Process]
    <3>1. [at |-> at, conf |-> conf, next |-> 1, held |-> Nil] \in Process
      BY DEF Process
    <3> QED
      BY <1>1, <3>1 DEF Start, FilesInv, FilesTypeOK
  <2>2. disk' = disk /\ overlapped' = overlapped /\ foreign' \in BOOLEAN
    BY DEF Start, FilesInv, FilesTypeOK
  <2> QED
    BY <2>1, <2>2 DEF FilesInv, FilesTypeOK
<1>3. foreign' = \/ foreign /\ p = "cli"
                 \/ \E q \in Processes \ {p} : Up(q) /\ Conf(q) # conf
  BY DEF Start, Up, Conf
<1>4. CASE p = "server"
  <2>1. proc'["server"] = [at |-> "migrating", conf |-> conf, next |-> 1, held |-> Nil]
        /\ proc'["cli"] = proc["cli"]
    BY <1>1, <1>4 DEF Processes
  <2>2. AssertConfigured(conf)
    BY <1>4 DEF Start
  <2>3. ProcessesAreSound'
    BY <2>1, <2>2, ListedFiles DEF FilesInv, ProcessesAreSound, Processes, Up, Conf
  <2>4. MigratedSoFar'
    BY <2>1 DEF MigratedSoFar
  <2>5. SameConfiguration'
    <3> SUFFICES ASSUME Up("cli")', ~foreign' PROVE Conf("cli")' = Conf("server")'
      BY DEF SameConfiguration
    <3>1. Up("cli") /\ Conf("cli")' = Conf("cli") /\ Conf("server")' = conf
      BY <2>1 DEF Up, Conf
    <3> QED
      BY <3>1, <1>3, <1>4 DEF Processes
  <2> QED
    BY <1>2, <2>3, <2>4, <2>5 DEF FilesInv
<1>5. CASE p = "cli"
  <2>1. proc'["cli"] = [at |-> "serving", conf |-> conf, next |-> 1, held |-> Nil]
        /\ proc'["server"] = proc["server"] /\ disk' = disk
    BY <1>1, <1>5 DEF Processes, Start
  <2>2. ProcessesAreSound'
    BY <2>1 DEF FilesInv, ProcessesAreSound, Processes, Up, Conf, AssertConfigured
  <2>3. ~foreign' => ~foreign
    BY <1>3, <1>5
  <2>4. MigratedSoFar'
    BY <2>1, <2>3 DEF FilesInv, MigratedSoFar, Up, Conf
  <2>5. SameConfiguration'
    <3> SUFFICES ASSUME Up("server")', ~foreign' PROVE Conf("cli")' = Conf("server")'
      BY DEF SameConfiguration
    <3>1. Up("server") /\ Conf("server")' = Conf("server") /\ Conf("cli")' = conf
      BY <2>1 DEF Up, Conf
    <3> QED
      BY <3>1, <1>3, <1>5 DEF Processes
  <2> QED
    BY <1>2, <2>2, <2>4, <2>5 DEF FilesInv
<1> QED
  BY <1>4, <1>5 DEF Processes

\* What the migration passes over is absent or under the active key already.
LEMMA InspectKeeps == FilesInv /\ Inspect => FilesInv'
<1> SUFFICES ASSUME FilesInv, Inspect PROVE FilesInv'
  OBVIOUS
<1> DEFINE s == proc["server"]  f == Listed[s.next]  c == disk[f]
           skipped == Absent(c) \/ (Readable(s.conf, c) /\ ~NeedsReEncryption(s.conf, c))
           refused == ~Absent(c) /\ ~(Supported(c) /\ Readable(s.conf, c))
<1>1. /\ s \in Process /\ s.at = "migrating" /\ s.next \in 1 .. Len(Listed) /\ f \in Files
      /\ c \in Content \cup {Nil} /\ s.conf \in Confs
  BY ListedFiles DEF Inspect, FilesInv, FilesTypeOK, Processes, Process, ProcessesAreSound, Up, Conf
<1>2. UNCHANGED <<disk, foreign, overlapped>>
  BY DEF Inspect
<1>3. CASE skipped
  <2>1. proc' = [proc EXCEPT !["server"].next = s.next + 1]
    BY <1>3 DEF Inspect
  <2>2. /\ proc'["server"] = [s EXCEPT !.next = s.next + 1] /\ proc'["cli"] = proc["cli"]
        /\ proc' \in [Processes -> Process]
    BY <1>1, <2>1 DEF FilesInv, FilesTypeOK, Processes, Process
  <2>3. FilesTypeOK' /\ ProcessesAreSound' /\ SameConfiguration'
    BY <1>1, <1>2, <2>2 DEF Inspect, FilesInv, FilesTypeOK, ProcessesAreSound, SameConfiguration,
       Processes, Process, Up, Conf, AssertConfigured
  <2>4. MigratedSoFar'
    <3> SUFFICES ASSUME ~foreign, NEW k \in 1 .. Len(Listed), k < s.next + 1, ~Absent(disk[Listed[k]])
                 PROVE  UnderActiveKey(s.conf, disk[Listed[k]])
      BY <1>1, <1>2, <2>2 DEF MigratedSoFar, Up, Conf, Process
    <3>1. CASE k = s.next
      BY <1>3, <3>1 DEF UnderActiveKey, NeedsReEncryption
    <3>2. CASE k # s.next
      <4>1. k < s.next
        BY <1>1, <3>2, ListedFiles
      <4> QED
        BY <1>1, <4>1 DEF FilesInv, MigratedSoFar, Up, Conf
    <3> QED
      BY <3>1, <3>2
  <2> QED
    BY <2>3, <2>4 DEF FilesInv
<1>4. CASE ~skipped /\ refused
  <2>1. Exit("server")
    BY <1>4 DEF Inspect
  <2> QED
    BY <1>2, <2>1, ExitKeeps DEF FilesInv, FilesTypeOK, Processes
<1>5. CASE ~skipped /\ ~refused
  <2>1. proc' = [proc EXCEPT !["server"].held = c]
    BY <1>5 DEF Inspect
  <2>2. /\ proc'["server"] = [s EXCEPT !.held = c] /\ proc'["cli"] = proc["cli"]
        /\ proc' \in [Processes -> Process]
    BY <1>1, <2>1 DEF FilesInv, FilesTypeOK, Processes, Process
  <2>3. FilesTypeOK' /\ ProcessesAreSound' /\ SameConfiguration'
    BY <1>1, <1>2, <2>2 DEF Inspect, FilesInv, FilesTypeOK, ProcessesAreSound, SameConfiguration,
       Processes, Process, Up, Conf, AssertConfigured
  <2>4. MigratedSoFar'
    BY <1>1, <1>2, <2>2 DEF FilesInv, MigratedSoFar, Up, Conf, Process
  <2> QED
    BY <2>3, <2>4 DEF FilesInv
<1> QED
  BY <1>3, <1>4, <1>5

\* What the migration writes back is under the active key.
LEMMA ResealKeeps == FilesInv /\ Reseal => FilesInv'
<1> SUFFICES ASSUME FilesInv, Reseal PROVE FilesInv'
  OBVIOUS
<1> DEFINE s == proc["server"]  f == Listed[s.next]  c == Sealed(s.conf, s.held.body)
<1>1. /\ s \in Process /\ s.at = "migrating" /\ s.next \in 1 .. Len(Listed) /\ f \in Files
      /\ s.held \in Content /\ s.conf \in Confs /\ AssertConfigured(s.conf)
  BY ListedFiles DEF Reseal, FilesInv, FilesTypeOK, Processes, Process, ProcessesAreSound, Up, Conf
<1>2. c \in Content /\ UnderActiveKey(s.conf, c)
  <2>1. s.held.body \in (SUBSET StoredEntry) \cup {Broken}
    BY <1>1 DEF Content
  <2> QED
    BY <1>1, <2>1, SealedIsSound
<1>3. CASE /\ disk' = [disk EXCEPT ![f] = c]
           /\ proc' = [proc EXCEPT !["server"].held = Nil, !["server"].next = @ + 1]
           /\ overlapped' = (overlapped \/ disk[f] # s.held)
  <2>1. /\ proc'["server"] = [s EXCEPT !.held = Nil, !.next = s.next + 1]
        /\ proc'["cli"] = proc["cli"] /\ proc' \in [Processes -> Process]
    BY <1>1, <1>3 DEF FilesInv, FilesTypeOK, Processes, Process
  <2>2. disk' \in [Files -> Content \cup {Nil}]
    BY <1>1, <1>2, <1>3 DEF FilesInv, FilesTypeOK
  <2>3. foreign' = foreign /\ overlapped' \in BOOLEAN
    BY <1>3 DEF Reseal
  <2>4. FilesTypeOK' /\ ProcessesAreSound' /\ SameConfiguration'
    BY <1>1, <2>1, <2>2, <2>3 DEF FilesInv, FilesTypeOK, ProcessesAreSound, SameConfiguration,
       Processes, Process, Up, Conf, AssertConfigured
  <2>5. MigratedSoFar'
    <3> SUFFICES ASSUME ~foreign, NEW k \in 1 .. Len(Listed), k < s.next + 1, ~Absent(disk'[Listed[k]])
                 PROVE  UnderActiveKey(s.conf, disk'[Listed[k]])
      BY <1>1, <2>1, <2>3 DEF MigratedSoFar, Up, Conf, Process
    <3>1. CASE Listed[k] = f
      BY <1>1, <1>2, <1>3, <3>1 DEF FilesInv, FilesTypeOK
    <3>2. CASE Listed[k] # f
      <4>1. k < s.next /\ disk'[Listed[k]] = disk[Listed[k]]
        BY <1>1, <1>3, <3>2, ListedFiles DEF FilesInv, FilesTypeOK
      <4> QED
        BY <1>1, <4>1 DEF FilesInv, MigratedSoFar, Up, Conf
    <3> QED
      BY <3>1, <3>2
  <2> QED
    BY <2>2, <2>4, <2>5 DEF FilesInv
<1>4. CASE Exit("server") /\ UNCHANGED <<disk, overlapped>>
  BY <1>4, ExitKeeps DEF FilesInv, FilesTypeOK, Processes, Reseal
<1> QED
  BY <1>3, <1>4 DEF Reseal

LEMMA ServeKeeps == FilesInv /\ Serve => FilesInv'
<1> SUFFICES ASSUME FilesInv, Serve PROVE FilesInv'
  OBVIOUS
<1> DEFINE s == proc["server"]
<1>1. s \in Process /\ s.at = "migrating" /\ s.next > Len(Listed) /\ s.held = Nil
  BY ListedFiles DEF Serve, FilesInv, FilesTypeOK, Processes, Process, ProcessesAreSound
<1>2. /\ proc'["server"] = [s EXCEPT !.at = "serving"] /\ proc'["cli"] = proc["cli"]
      /\ proc' \in [Processes -> Process]
  BY <1>1 DEF Serve, FilesInv, FilesTypeOK, Processes, Process
<1>3. FilesTypeOK' /\ ProcessesAreSound' /\ SameConfiguration'
  BY <1>1, <1>2 DEF Serve, FilesInv, FilesTypeOK, ProcessesAreSound, SameConfiguration,
     Processes, Process, Up, Conf, AssertConfigured
<1>4. MigratedSoFar'
  BY <1>1, <1>2 DEF Serve, FilesInv, MigratedSoFar, Up, Conf, Process
<1> QED
  BY <1>3, <1>4 DEF FilesInv

LEMMA ServingIsMigrated == FilesInv => ServedUnderActiveKey
<1> SUFFICES ASSUME FilesInv, proc["server"].at = "serving", ~foreign, NEW f \in ToSet(Listed),
                    ~Absent(disk[f])
             PROVE  UnderActiveKey(Conf("server"), disk[f])
  BY DEF ServedUnderActiveKey, UnderActiveKey
<1>1. PICK k \in 1 .. Len(Listed) : f = Listed[k]
  BY ListedFiles
<1>2. k < proc["server"].next
  BY <1>1, ListedFiles DEF FilesInv, FilesTypeOK, ProcessesAreSound, Process, Processes
<1> QED
  BY <1>1, <1>2 DEF FilesInv, MigratedSoFar, Up

-----------------------------------------------------------------------------
\* Entry e is in S, or has come of age by time k, or A has as many newer ones as
\* the log holds.
StillKept(e, S, A, k) ==
  \/ e \in S
  \/ e.t + RetentionAge <= k
  \/ Cardinality({d \in A : Newer(d, e)}) >= MaxEvents

LogTypeOK ==
  /\ clock \in Nat /\ peak \in Nat /\ clock <= peak /\ minted \in Nat
  /\ job \in [Processes -> [do : {"none", "record", "read"}, entry : Entry \cup {Nil},
                            seen : SUBSET Entry, raw : Content \cup {Nil}]]
  /\ acked \in SUBSET Entry /\ IsFiniteSet(acked) /\ waived \in SUBSET Entry
  /\ restore \in [at : {"none", "taken", "replaced"}, snap : SUBSET Entry,
                  acked : SUBSET Entry, waived : SUBSET Entry]

\* What is in the log was answered, in the file and in the hands of the migration.
LogIsAnswered ==
  /\ Raw \subseteq acked
  /\ (proc["server"].held # Nil /\ Listed[proc["server"].next] = Log) =>
       EntriesOf(proc["server"].held) \subseteq acked

\* A queue has dropped nothing of what it read but what may go.
QueueIsHonest ==
  \A p \in Processes : job[p].do # "none" =>
    /\ job[p].do = "record" => job[p].entry \in Entry
    /\ job[p].seen \subseteq acked
    /\ \A e \in EntriesOf(job[p].raw) : StillKept(e, job[p].seen, acked, peak)

\* A restore can give back all that had been answered before it.
RestoreIsHonest ==
  restore.at # "none" =>
    /\ restore.snap \subseteq restore.acked /\ restore.acked \subseteq acked
    /\ ~overlapped => \A e \in restore.acked \ restore.waived :
                        StillKept(e, restore.snap, acked, peak)

LogInv == FilesInv /\ LogTypeOK /\ LogIsAnswered /\ QueueIsHonest /\ RestoreIsHonest
            /\ AnsweredStaysLogged

LEMMA LogIsListed == Log \in Files
BY AuditAssumption, ListedFiles

LEMMA NewerIsAnOrder ==
  ASSUME NEW a \in Entry, NEW b \in Entry, NEW c \in Entry
  PROVE  ~Newer(a, a) /\ (Newer(a, b) /\ Newer(b, c) => Newer(a, c))
BY DEF Newer, Entry

LEMMA BoundedIsPart == ASSUME NEW S, NEW now PROVE Bounded(S, now) \subseteq S
BY DEF Bounded, NewestOf, RetainedByAge

LEMMA StillKeptGrows ==
  ASSUME NEW A, NEW B \in SUBSET Entry, A \subseteq B, IsFiniteSet(B), NEW S, NEW T, S \subseteq T,
         NEW k \in Nat, NEW l \in Nat, k <= l, NEW e \in Entry, StillKept(e, S, A, k)
  PROVE  StillKept(e, T, B, l)
<1> DEFINE X == {d \in A : Newer(d, e)}  Y == {d \in B : Newer(d, e)}
<1>1. CASE Cardinality(X) >= MaxEvents
  <2>1. IsFiniteSet(Y) /\ X \in SUBSET Y
    BY FS_Subset
  <2>2. IsFiniteSet(X) /\ Cardinality(X) <= Cardinality(Y)
    BY <2>1, FS_Subset
  <2>3. Cardinality(X) \in Nat /\ Cardinality(Y) \in Nat
    BY <2>1, <2>2, FS_CardinalityType
  <2>4. Cardinality(Y) >= MaxEvents
    BY <1>1, <2>2, <2>3, AuditAssumption
  <2> QED
    BY <2>4 DEF StillKept
<1>2. CASE e \in S \/ e.t + RetentionAge <= k
  BY <1>2, AuditAssumption DEF StillKept, Entry
<1> QED
  BY <1>1, <1>2 DEF StillKept

\* The bounds drop what has come of age and what enough newer ones surpass.
LEMMA BoundsDropLawfully ==
  ASSUME NEW A \in SUBSET Entry, IsFiniteSet(A), NEW S \in SUBSET A, NEW now \in Nat, NEW k \in Nat,
         now <= k, NEW e \in S
  PROVE  StillKept(e, Bounded(S, now), A, k)
<1> DEFINE R == RetainedByAge(S, now)
<1>1. CASE e.t + RetentionAge <= now
  BY <1>1, AuditAssumption DEF StillKept, Entry
<1>2. CASE e \in Bounded(S, now)
  BY <1>2 DEF StillKept
<1>3. CASE ~(e.t + RetentionAge <= now) /\ e \notin Bounded(S, now)
  <2>1. e \in R
    BY <1>3, AuditAssumption DEF RetainedByAge, Entry
  <2>2. ~(Cardinality({d \in R : Newer(d, e)}) < MaxEvents)
    BY <1>3, <2>1 DEF Bounded, NewestOf
  <2>3. R \subseteq A
    BY DEF RetainedByAge
  <2>4. IsFiniteSet({d \in R : Newer(d, e)})
    BY <2>3, FS_Subset
  <2>5. Cardinality({d \in R : Newer(d, e)}) >= MaxEvents
    BY <2>2, <2>4, FS_CardinalityType, AuditAssumption
  <2>6. StillKept(e, {}, R, k)
    BY <2>5 DEF StillKept
  <2> QED
    BY <2>3, <2>6, StillKeptGrows
<1> QED
  BY <1>1, <1>2, <1>3

\* An entry that the bounds drop at once takes nothing with it.
LEMMA RecordDropsLawfully ==
  ASSUME NEW A \in SUBSET Entry, IsFiniteSet(A), NEW S \in SUBSET A, NEW entry \in Entry,
         NEW now \in Nat, NEW k \in Nat, now <= k, NEW e \in S,
         entry \notin Bounded(S \cup {entry}, now)
  PROVE  StillKept(e, Bounded(S \cup {entry}, now), A, k)
<1> DEFINE T == S \cup {entry}  R == RetainedByAge(T, now)
           Above(x) == {d \in R : Newer(d, x)}
<1>1. CASE e.t + RetentionAge <= now
  BY <1>1, AuditAssumption DEF StillKept, Entry
<1>2. CASE e \in Bounded(T, now)
  BY <1>2 DEF StillKept
<1>3. CASE ~(e.t + RetentionAge <= now) /\ e \notin Bounded(T, now)
  <2>1. R \subseteq T /\ IsFiniteSet(S) /\ IsFiniteSet(T) /\ T \subseteq Entry
    BY FS_Subset, FS_AddElement DEF RetainedByAge
  <2>2. IsFiniteSet(R)
    BY <2>1, FS_Subset
  <2>3. ASSUME NEW x \in R, x \notin Bounded(T, now) PROVE Cardinality(Above(x)) >= MaxEvents
    <3>1. ~(Cardinality(Above(x)) < MaxEvents)
      BY <2>3 DEF Bounded, NewestOf
    <3>2. IsFiniteSet(Above(x))
      BY <2>2, FS_Subset
    <3> QED
      BY <3>1, <3>2, FS_CardinalityType, AuditAssumption
  <2>4. e \in R
    BY <1>3, AuditAssumption DEF RetainedByAge, Entry
  <2>5. PICK x \in R : Above(x) \subseteq {d \in A : Newer(d, e)} /\ x \notin Bounded(T, now)
    <3>1. CASE entry \in R /\ Newer(entry, e)
      <4>1. Above(entry) \subseteq {d \in A : Newer(d, e)}
        <5> SUFFICES ASSUME NEW d \in R, Newer(d, entry) PROVE d \in A /\ Newer(d, e)
          OBVIOUS
        <5>1. d \in Entry /\ e \in Entry
          BY <2>1
        <5>2. d # entry /\ Newer(d, e)
          BY <3>1, <5>1, NewerIsAnOrder
        <5> QED
          BY <2>1, <5>2
      <4> QED
        BY <3>1, <4>1
    <3>2. CASE ~(entry \in R /\ Newer(entry, e))
      BY <1>3, <2>1, <2>4, <3>2
    <3> QED
      BY <3>1, <3>2
  <2>6. StillKept(e, {}, {d \in A : Newer(d, e)}, k)
    <3> DEFINE Y == {d \in A : Newer(d, e)}
    <3>1. IsFiniteSet(Y) /\ IsFiniteSet(Above(x)) /\ Cardinality(Above(x)) <= Cardinality(Y)
      <4>1. IsFiniteSet(Y)
        BY FS_Subset
      <4> QED
        BY <2>5, <4>1, FS_Subset
    <3>2. Cardinality(Above(x)) >= MaxEvents
      BY <2>3, <2>5
    <3>3. Cardinality(Above(x)) \in Nat /\ Cardinality(Y) \in Nat
      BY <3>1, FS_CardinalityType
    <3>4. Cardinality(Y) >= MaxEvents
      BY <3>1, <3>2, <3>3, AuditAssumption
    <3>5. {d \in Y : Newer(d, e)} = Y
      OBVIOUS
    <3> QED
      BY <3>4, <3>5 DEF StillKept
  <2>7. {d \in A : Newer(d, e)} \subseteq A
    OBVIOUS
  <2> QED
    BY <2>6, <2>7, StillKeptGrows
<1> QED
  BY <1>1, <1>2, <1>3

LEMMA EntriesAreSound == ASSUME NEW c \in Content \cup {Nil} PROVE EntriesOf(c) \subseteq Entry
<1> SUFFICES ASSUME ~Absent(c), c.body # Broken, NEW e \in c.body, e.t # Nil PROVE e \in Entry
  BY DEF EntriesOf, WellFormed
<1>1. c.body \subseteq StoredEntry
  BY DEF Content, Absent
<1> QED
  BY <1>1, AuditAssumption DEF StoredEntry, Entry


LEMMA SealedEntries ==
  /\ \A conf, S : S \in SUBSET Entry => EntriesOf(Sealed(conf, S)) = S \/ Absent(Sealed(conf, S))
  /\ \A conf, c : c # Nil /\ Sealed(conf, c.body) # Nil => EntriesOf(Sealed(conf, c.body)) = EntriesOf(c)
<1>1. \A S : S \in SUBSET Entry => S # Broken /\ WellFormed(S) = S
  <2> SUFFICES ASSUME NEW S \in SUBSET Entry PROVE S # Broken /\ WellFormed(S) = S
    OBVIOUS
  <2>1. Nil \notin Entry
    BY AuditAssumption DEF Entry, StoredEntry
  <2>2. \A e \in S : e.t # Nil
    BY StorageAssumption DEF Entry
  <2> QED
    BY <2>1, <2>2 DEF Broken, WellFormed
<1> QED
  BY <1>1 DEF EntriesOf, Sealed, Absent

\* A store of entries makes them the log.
LEMMA LogWritten ==
  ASSUME FilesInv, NEW p \in Processes, NEW S \in SUBSET Entry, Write(p, Log, S),
         UNCHANGED <<proc, foreign>>, overlapped' \in BOOLEAN
  PROVE  FilesInv' /\ Raw' = S
<1>1. S \in SUBSET StoredEntry
  BY DEF Entry, StoredEntry
<1>2. FilesInv' /\ disk'[Log] # Nil
  BY <1>1, WriteKeeps, LogIsListed
<1>3. disk'[Log] = Sealed(Conf(p), S)
  BY LogIsListed DEF Write, FilesInv, FilesTypeOK
<1> QED
  BY <1>2, <1>3, SealedEntries DEF Raw, Absent

\* A step of the migration, a start or a store to another file leaves the log with
\* the entries it has, and what overwrites them is the known exception.
LEMMA StorageKeepsLog ==
  ASSUME FilesInv, LogIsAnswered, StorageNext, acked' = acked
  PROVE  FilesInv' /\ LogIsAnswered' /\ (overlapped => overlapped') /\ (~overlapped' => Raw' = Raw)
<1> DEFINE s == proc["server"]  f == Listed[s.next]
<1>1. ASSUME NEW p \in Processes, NEW conf \in Confs, Start(p, conf)
      PROVE  FilesInv' /\ LogIsAnswered' /\ UNCHANGED <<disk, overlapped>>
  <2>1. proc'["server"] = s \/ proc'["server"].held = Nil
    BY <1>1 DEF Start, FilesInv, FilesTypeOK, Processes, Down
  <2>2. UNCHANGED <<disk, overlapped>>
    BY <1>1 DEF Start
  <2> QED
    BY <1>1, <2>1, <2>2, StartKeeps DEF LogIsAnswered, Raw
<1>2. CASE Inspect
  <2>1. \/ proc'["server"].held = Nil
        \/ proc'["server"].next = s.next /\ proc'["server"].held = disk[f]
    BY <1>2 DEF Inspect, Exit, Down, FilesInv, FilesTypeOK, Processes, Process
  <2>2. UNCHANGED <<disk, overlapped>>
    BY <1>2 DEF Inspect
  <2> QED
    BY <1>2, <2>1, <2>2, InspectKeeps DEF LogIsAnswered, Raw
<1>3. CASE Reseal
  <2>1. proc'["server"].held = Nil
    BY <1>3 DEF Reseal, Exit, Down, FilesInv, FilesTypeOK, Processes, Process
  <2>2. FilesInv'
    BY <1>3, ResealKeeps
  <2>3. CASE UNCHANGED <<disk, overlapped>>
    BY <2>1, <2>2, <2>3 DEF LogIsAnswered, Raw
  <2>4. CASE /\ disk' = [disk EXCEPT ![f] = Sealed(s.conf, s.held.body)]
             /\ overlapped' = (overlapped \/ disk[f] # s.held)
    <3>1. CASE f = Log
      <4>1. s.held \in Content /\ s.held # Nil /\ s.conf \in Confs /\ AssertConfigured(s.conf)
        BY <1>3 DEF Reseal, FilesInv, FilesTypeOK, ProcessesAreSound, Processes, Process, Up, Conf
      <4>2. Sealed(s.conf, s.held.body) # Nil
        BY <4>1, SealedIsSound DEF Content
      <4>3. Raw' = EntriesOf(s.held)
        BY <2>4, <3>1, <4>1, <4>2, SealedEntries, LogIsListed DEF Raw, FilesInv, FilesTypeOK
      <4>4. Raw' \subseteq acked /\ (~overlapped' => Raw' = Raw)
        BY <2>4, <3>1, <4>1, <4>3 DEF LogIsAnswered, Raw
      <4> QED
        BY <2>1, <2>2, <2>4, <4>4 DEF LogIsAnswered
    <3>2. CASE f # Log
      <4>1. Raw' = Raw
        BY <2>4, <3>2, LogIsListed DEF Raw, FilesInv, FilesTypeOK
      <4> QED
        BY <2>1, <2>2, <2>4, <4>1 DEF LogIsAnswered
    <3> QED
      BY <3>1, <3>2
  <2> QED
    BY <1>3, <2>3, <2>4 DEF Reseal
<1>4. CASE Serve
  <2>1. proc'["server"].held = s.held /\ proc'["server"].next = s.next
    BY <1>4 DEF Serve, FilesInv, FilesTypeOK, Processes, Process
  <2>2. UNCHANGED <<disk, overlapped>>
    BY <1>4 DEF Serve
  <2> QED
    BY <1>4, <2>1, <2>2, ServeKeeps DEF LogIsAnswered, Raw
<1> QED
  <2>1. FilesInv' /\ LogIsAnswered' /\ UNCHANGED <<disk, overlapped>> => Raw' = Raw
    BY DEF Raw
  <2>2. CASE \E p \in Processes, conf \in Confs : Start(p, conf)
    BY <1>1, <2>2 DEF Raw
  <2>3. CASE Inspect
    BY <1>2, <2>3 DEF Inspect
  <2>4. CASE Serve
    BY <1>4, <2>4 DEF Serve
  <2> QED
    BY <1>3, <2>2, <2>3, <2>4 DEF StorageNext

\* Whatever is still kept stays so when more is answered and time goes on.
LEMMA QueueStaysHonest ==
  ASSUME LogTypeOK, LogTypeOK', acked \subseteq acked', peak <= peak', NEW p \in Processes,
         job'[p] = job[p], job[p].do # "none", QueueIsHonest
  PROVE  /\ job'[p].do = "record" => job'[p].entry \in Entry
         /\ job'[p].seen \subseteq acked'
         /\ \A e \in EntriesOf(job'[p].raw) : StillKept(e, job'[p].seen, acked', peak')
<1>1. EntriesOf(job[p].raw) \subseteq Entry
  BY EntriesAreSound DEF LogTypeOK
<1>2. ASSUME NEW e \in EntriesOf(job[p].raw)
      PROVE  StillKept(e, job[p].seen, acked', peak')
  <2>1. StillKept(e, job[p].seen, acked, peak)
    BY <1>2 DEF QueueIsHonest
  <2>2. e \in Entry
    BY <1>1, <1>2
  <2> QED
    BY <2>1, <2>2, StillKeptGrows DEF LogTypeOK
<1>3. /\ job[p].do = "record" => job[p].entry \in Entry
      /\ job[p].seen \subseteq acked'
  BY DEF QueueIsHonest
<1> QED
  BY <1>2, <1>3


\* A restore that runs on can still give back what it found.
LEMMA RestoreStaysHonest ==
  ASSUME LogTypeOK, LogTypeOK', acked \subseteq acked', peak <= peak', restore' = restore,
         overlapped => overlapped', RestoreIsHonest
  PROVE  RestoreIsHonest'
<1> SUFFICES ASSUME restore.at # "none"
             PROVE  /\ restore.snap \subseteq restore.acked /\ restore.acked \subseteq acked'
                    /\ ~overlapped' => \A e \in restore.acked \ restore.waived :
                                         StillKept(e, restore.snap, acked', peak')
  BY DEF RestoreIsHonest
<1>1. restore.acked \subseteq Entry
  BY DEF LogTypeOK
<1>2. ASSUME ~overlapped', NEW e \in restore.acked \ restore.waived
      PROVE  StillKept(e, restore.snap, acked', peak')
  <2>1. StillKept(e, restore.snap, acked, peak)
    BY <1>2 DEF RestoreIsHonest
  <2> QED
    BY <1>1, <2>1, StillKeptGrows DEF LogTypeOK
<1> QED
  BY <1>2 DEF RestoreIsHonest

LEMMA LogStaysKept ==
  ASSUME LogTypeOK, LogTypeOK', acked' = acked, peak <= peak', waived' = waived,
         overlapped => overlapped', ~overlapped' => Raw' = Raw, AnsweredStaysLogged
  PROVE  AnsweredStaysLogged'
<1> SUFFICES ASSUME ~overlapped', NEW e \in acked \ waived PROVE StillKept(e, Raw, acked, peak')
  BY DEF AnsweredStaysLogged, StillKept
<1>1. StillKept(e, Raw, acked, peak)
  BY DEF AnsweredStaysLogged, StillKept
<1> QED
  BY <1>1, StillKeptGrows DEF LogTypeOK

\* What a bounded reading of the log drops may go.
LEMMA ReadingIsLawful ==
  ASSUME LogTypeOK, Raw \subseteq acked
  PROVE  /\ Bounded(Raw, clock) \subseteq Raw
         /\ \A e \in Raw : StillKept(e, Bounded(Raw, clock), acked, peak)
BY BoundedIsPart, BoundsDropLawfully DEF LogTypeOK

LEMMA LogInit == AuditInit => LogInv
<1> SUFFICES ASSUME AuditInit PROVE LogInv
  OBVIOUS
<1>1. FilesInv
  BY FilesInit DEF AuditInit
<1>2. WellFormed(Earlier) \subseteq Entry /\ IsFiniteSet(WellFormed(Earlier))
  <2>1. WellFormed(Earlier) \in SUBSET Earlier
    BY DEF WellFormed
  <2>2. WellFormed(Earlier) \subseteq Entry
    BY AuditAssumption DEF WellFormed, StoredEntry, Entry
  <2> QED
    BY <2>1, <2>2, AuditAssumption, FS_Subset
<1>3. acked = WellFormed(Earlier) /\ waived \subseteq acked
  BY DEF AuditInit
<1>4. LogTypeOK
  <2>1. minted \in Nat
    BY AuditAssumption, FS_CardinalityType DEF AuditInit
  <2>2. Idle \in [do : {"none", "record", "read"}, entry : Entry \cup {Nil},
                  seen : SUBSET Entry, raw : Content \cup {Nil}]
    BY DEF Idle
  <2>3. restore \in [at : {"none", "taken", "replaced"}, snap : SUBSET Entry,
                     acked : SUBSET Entry, waived : SUBSET Entry]
    BY DEF AuditInit, NoRestore
  <2> QED
    BY <1>2, <1>3, <2>1, <2>2, <2>3 DEF AuditInit, LogTypeOK
<1>5. disk \in Disks
  BY DEF AuditInit, StorageInit
<1>6. Absent(disk[Log]) \/ disk[Log].body = Broken \/ disk[Log].body = Earlier
  BY <1>5, AuditAssumption
<1>7. LogIsAnswered
  <2>1. proc["server"].held = Nil
    BY DEF AuditInit, StorageInit, Processes, Down
  <2> QED
    BY <1>3, <1>6, <2>1 DEF LogIsAnswered, Raw, EntriesOf
<1>8. QueueIsHonest /\ RestoreIsHonest
  BY DEF AuditInit, QueueIsHonest, RestoreIsHonest, Idle, NoRestore
<1>9. AnsweredStaysLogged
  BY <1>3, <1>6 DEF AuditInit, AnsweredStaysLogged, Raw, EntriesOf
<1> QED
  BY <1>1, <1>4, <1>7, <1>8, <1>9 DEF LogInv


\* The parts of the invariant when a step leaves the queues' work alone, or ends it.
LEMMA QueuesGoOn ==
  ASSUME LogTypeOK, LogTypeOK', acked \subseteq acked', peak <= peak', QueueIsHonest,
         \A q \in Processes : job'[q] = job[q] \/ job'[q] = Idle
  PROVE  QueueIsHonest'
<1> SUFFICES ASSUME NEW q \in Processes, job'[q].do # "none"
             PROVE  /\ job'[q].do = "record" => job'[q].entry \in Entry
                    /\ job'[q].seen \subseteq acked'
                    /\ \A e \in EntriesOf(job'[q].raw) : StillKept(e, job'[q].seen, acked', peak')
  BY DEF QueueIsHonest
<1>1. job'[q] = job[q]
  BY DEF Idle
<1> QED
  BY <1>1, QueueStaysHonest

LEMMA LogGoesOn ==
  ASSUME LogInv, Storage, FilesInv', LogIsAnswered', overlapped => overlapped',
         ~overlapped' => Raw' = Raw
  PROVE  LogInv'
<1>1. LogTypeOK'
  BY DEF LogInv, LogTypeOK, Storage
<1>2. peak <= peak' /\ acked' = acked /\ waived' = waived /\ restore' = restore /\ job' = job
  BY DEF LogInv, LogTypeOK, Storage
<1>3. QueueIsHonest'
  BY <1>1, <1>2, QueuesGoOn DEF LogInv
<1>4. RestoreIsHonest'
  BY <1>1, <1>2, RestoreStaysHonest DEF LogInv
<1>5. AnsweredStaysLogged'
  BY <1>1, <1>2, LogStaysKept DEF LogInv
<1> QED
  BY <1>1, <1>3, <1>4, <1>5 DEF LogInv

LEMMA StorageKeepsLogInv == LogInv /\ StorageNext /\ Storage => LogInv'
<1> SUFFICES ASSUME LogInv, StorageNext, Storage PROVE LogInv'
  OBVIOUS
<1>1. acked' = acked
  BY DEF Storage
<1> QED
  BY <1>1, StorageKeepsLog, LogGoesOn DEF LogInv

LEMMA SaveFileKeeps ==
  ASSUME LogInv, NEW p \in Processes, NEW f \in Files \ {Log}, SaveFile(p, f), Storage
  PROVE  LogInv'
<1>1. {} \in (SUBSET StoredEntry) \cup {Broken} /\ UNCHANGED <<proc, foreign, overlapped>>
  BY DEF SaveFile
<1>2. FilesInv' /\ disk'[Log] = disk[Log]
  BY <1>1, WriteKeeps, LogIsListed DEF SaveFile, LogInv, FilesInv, FilesTypeOK
<1>3. Raw' = Raw /\ LogIsAnswered'
  BY <1>1, <1>2 DEF Raw, LogIsAnswered, LogInv, Storage
<1> QED
  BY <1>1, <1>2, <1>3, LogGoesOn

LEMMA FilesUntouched == FilesInv /\ UNCHANGED <<disk, proc, foreign, overlapped>> => FilesInv'
BY DEF FilesInv, FilesTypeOK, ProcessesAreSound, MigratedSoFar, SameConfiguration, Up, Conf,
   AssertConfigured

\* A queue reads the log: what it leaves out of what it read may go.
LEMMA LoadKeeps ==
  ASSUME LogInv, NEW p \in Processes, NEW what \in {"record", "read"}, NEW entry \in Entry \cup {Nil},
         what = "record" => entry \in Entry, Load(p, what, entry), minted' \in Nat
  PROVE  LogInv'
<1> DEFINE new == [do |-> what, entry |-> entry, seen |-> Bounded(Raw, clock), raw |-> disk[Log]]
<1>1. UNCHANGED <<disk, proc, foreign, overlapped, clock, peak, acked, waived, restore>>
  BY DEF Load, LogRest
<1>2. Raw \subseteq acked /\ Bounded(Raw, clock) \subseteq Raw
      /\ \A e \in Raw : StillKept(e, Bounded(Raw, clock), acked, peak)
  BY ReadingIsLawful DEF LogInv, LogIsAnswered
<1>3. /\ job' = [job EXCEPT ![p] = new] /\ job'[p] = new
      /\ \A q \in Processes \ {p} : job'[q] = job[q]
  BY DEF Load, LogInv, LogTypeOK
<1>4. LogTypeOK'
  <2>1. new \in [do : {"none", "record", "read"}, entry : Entry \cup {Nil},
                 seen : SUBSET Entry, raw : Content \cup {Nil}]
    BY <1>2, LogIsListed DEF LogInv, LogTypeOK, FilesInv, FilesTypeOK
  <2>2. job' \in [Processes -> [do : {"none", "record", "read"}, entry : Entry \cup {Nil},
                                seen : SUBSET Entry, raw : Content \cup {Nil}]]
    BY <1>3, <2>1 DEF LogInv, LogTypeOK
  <2> QED
    BY <1>1, <2>2 DEF LogInv, LogTypeOK
<1>5. QueueIsHonest'
  <2> SUFFICES ASSUME NEW q \in Processes, job'[q].do # "none"
               PROVE  /\ job'[q].do = "record" => job'[q].entry \in Entry
                      /\ job'[q].seen \subseteq acked
                      /\ \A e \in EntriesOf(job'[q].raw) : StillKept(e, job'[q].seen, acked, peak)
    BY <1>1 DEF QueueIsHonest
  <2>1. CASE q = p
    BY <1>2, <1>3, <2>1 DEF Raw
  <2>2. CASE q # p
    BY <1>3, <2>2 DEF LogInv, QueueIsHonest
  <2> QED
    BY <2>1, <2>2
<1>6. FilesInv' /\ LogIsAnswered' /\ RestoreIsHonest' /\ AnsweredStaysLogged'
  BY <1>1, FilesUntouched DEF LogInv, LogIsAnswered, RestoreIsHonest, AnsweredStaysLogged, Raw
<1> QED
  BY <1>4, <1>5, <1>6 DEF LogInv

LEMMA RecordKeeps == ASSUME LogInv, NEW p \in Processes, Record(p) PROVE LogInv'
<1>1. NewEntry \in Entry /\ minted' \in Nat
  BY DEF Record, NewEntry, Entry, LogInv, LogTypeOK
<1> QED
  BY <1>1, LoadKeeps DEF Record

LEMMA ReadKeeps == ASSUME LogInv, NEW p \in Processes, Read(p) PROVE LogInv'
<1>1. minted' \in Nat
  BY DEF Read, LogInv, LogTypeOK
<1> QED
  BY <1>1, LoadKeeps DEF Read

\* A queue writes the log.
LEMMA WroteKeeps ==
  ASSUME LogInv, NEW p \in Processes, NEW S \in SUBSET Entry, Wrote(p, S),
         S \subseteq acked', acked' \in SUBSET Entry, acked \subseteq acked', IsFiniteSet(acked'),
         \A e \in EntriesOf(job[p].raw) : StillKept(e, S, acked', peak),
         \A e \in acked' \ acked : e \in S,
         UNCHANGED <<proc, foreign, clock, peak, minted, waived, restore>>
  PROVE  LogInv'
<1>1. /\ Write(p, Log, S) /\ job' = [job EXCEPT ![p] = Idle]
      /\ overlapped' = (overlapped \/ disk[Log] # job[p].raw)
  BY DEF Wrote
<1>2. FilesInv' /\ Raw' = S
  BY <1>1, LogWritten DEF LogInv
<1>3. LogTypeOK'
  <2>1. Idle \in [do : {"none", "record", "read"}, entry : Entry \cup {Nil},
                  seen : SUBSET Entry, raw : Content \cup {Nil}]
    BY DEF Idle
  <2> QED
    BY <1>1, <2>1 DEF LogInv, LogTypeOK
<1>4. peak <= peak' /\ (overlapped => overlapped')
  <2>1. peak <= peak'
    BY DEF LogInv, LogTypeOK
  <2>2. overlapped => overlapped'
    BY <1>1
  <2> QED
    BY <2>1, <2>2
<1>5. LogIsAnswered'
  BY <1>2 DEF LogInv, LogIsAnswered
<1>6. QueueIsHonest'
  <2>1. \A q \in Processes : job'[q] = job[q] \/ job'[q] = Idle
    BY <1>1 DEF LogInv, LogTypeOK
  <2> QED
    BY <1>3, <1>4, <2>1, QueuesGoOn DEF LogInv
<1>7. RestoreIsHonest'
  BY <1>3, <1>4, RestoreStaysHonest DEF LogInv
<1>8. AnsweredStaysLogged'
  <2> SUFFICES ASSUME ~overlapped', NEW e \in acked' \ waived PROVE StillKept(e, S, acked', peak)
    BY <1>2 DEF AnsweredStaysLogged, StillKept
  <2>1. CASE e \notin acked
    BY <2>1 DEF StillKept
  <2>2. CASE e \in acked
    <3>1. ~overlapped /\ Raw = EntriesOf(job[p].raw)
      BY <1>1 DEF Raw
    <3>2. CASE e \in Raw
      BY <3>1, <3>2
    <3>3. CASE e \notin Raw
      <4>1. StillKept(e, {}, acked, peak)
        BY <2>2, <3>1, <3>3 DEF LogInv, AnsweredStaysLogged, StillKept
      <4> QED
        BY <2>2, <4>1, StillKeptGrows DEF LogInv, LogTypeOK
    <3> QED
      BY <3>2, <3>3
  <2> QED
    BY <2>1, <2>2
<1> QED
  BY <1>2, <1>3, <1>5, <1>6, <1>7, <1>8 DEF LogInv

LEMMA EndRecordKeeps == ASSUME LogInv, NEW p \in Processes, EndRecord(p) PROVE LogInv'
<1> DEFINE entry == job[p].entry  seen == job[p].seen  kept == Bounded(seen \cup {entry}, clock)
<1>1. /\ Wrote(p, kept) /\ UNCHANGED <<proc, foreign, clock, peak, minted, waived, restore>>
      /\ acked' = IF entry \in kept THEN acked \cup {entry} ELSE acked
  BY DEF EndRecord, LogRest
<1>2. entry \in Entry /\ seen \subseteq acked
  BY DEF EndRecord, LogInv, QueueIsHonest
<1>3. kept \subseteq seen \cup {entry}
  BY BoundedIsPart
<1>4. /\ acked \in SUBSET Entry /\ IsFiniteSet(acked) /\ clock \in Nat /\ peak \in Nat
      /\ clock <= peak
  BY DEF LogInv, LogTypeOK
<1>5. IsFiniteSet(acked \cup {entry})
  BY <1>4, FS_AddElement
<1>6. /\ acked' \in SUBSET Entry /\ acked \subseteq acked' /\ IsFiniteSet(acked')
      /\ kept \subseteq acked' /\ \A e \in acked' \ acked : e \in kept
  BY <1>1, <1>2, <1>3, <1>4, <1>5
<1>7. ASSUME NEW e \in EntriesOf(job[p].raw) PROVE StillKept(e, kept, acked', peak)
  <2>1. StillKept(e, seen, acked, peak)
    BY <1>7 DEF LogInv, QueueIsHonest, EndRecord
  <2>2. e \in Entry
    BY <1>7, EntriesAreSound DEF LogInv, LogTypeOK
  <2>3. CASE e \in seen
    <3>1. CASE entry \in kept
      <4>1. seen \cup {entry} \in SUBSET acked'
        BY <1>1, <1>2, <3>1
      <4> QED
        BY <1>4, <1>6, <2>3, <4>1, BoundsDropLawfully
    <3>2. CASE entry \notin kept
      <4>1. acked' = acked
        BY <1>1, <3>2
      <4> QED
        BY <1>2, <1>4, <2>3, <3>2, <4>1, RecordDropsLawfully
    <3> QED
      BY <3>1, <3>2
  <2>4. CASE e \notin seen
    <3>1. StillKept(e, {}, acked, peak)
      BY <2>1, <2>4 DEF StillKept
    <3> QED
      BY <1>4, <1>6, <2>2, <3>1, StillKeptGrows
  <2> QED
    BY <2>3, <2>4
<1>8. kept \in SUBSET Entry
  BY <1>6
<1> QED
  BY <1>1, <1>6, <1>7, <1>8, WroteKeeps

LEMMA JobEnds ==
  ASSUME LogInv, FilesInv', LogIsAnswered', NEW p \in Processes, job' = [job EXCEPT ![p] = Idle],
         UNCHANGED <<disk, overlapped, clock, peak, minted, acked, waived>>,
         restore' = restore \/ restore' = NoRestore
  PROVE  LogInv'
<1>1. LogTypeOK'
  <2>1. Idle \in [do : {"none", "record", "read"}, entry : Entry \cup {Nil},
                  seen : SUBSET Entry, raw : Content \cup {Nil}]
    BY DEF Idle
  <2>2. NoRestore \in [at : {"none", "taken", "replaced"}, snap : SUBSET Entry,
                       acked : SUBSET Entry, waived : SUBSET Entry]
    BY DEF NoRestore
  <2> QED
    BY <2>1, <2>2 DEF LogInv, LogTypeOK
<1>2. QueueIsHonest'
  <2>1. \A q \in Processes : job'[q] = job[q] \/ job'[q] = Idle
    BY DEF LogInv, LogTypeOK
  <2>2. peak <= peak' /\ acked \subseteq acked'
    BY DEF LogInv, LogTypeOK
  <2> QED
    BY <1>1, <2>1, <2>2, QueuesGoOn DEF LogInv
<1>3. RestoreIsHonest' /\ AnsweredStaysLogged'
  BY DEF LogInv, RestoreIsHonest, AnsweredStaysLogged, Raw, NoRestore
<1> QED
  BY <1>1, <1>2, <1>3 DEF LogInv

LEMMA EndReadKeeps == ASSUME LogInv, NEW p \in Processes, EndRead(p) PROVE LogInv'
<1>1. UNCHANGED <<proc, foreign, clock, peak, minted, acked, waived, restore>>
  BY DEF EndRead, LogRest
<1>2. CASE Wrote(p, Bounded(job[p].seen, clock))
  <2> DEFINE seen == job[p].seen
  <2>1. /\ acked \in SUBSET Entry /\ IsFiniteSet(acked) /\ clock \in Nat /\ peak \in Nat
        /\ clock <= peak /\ seen \subseteq acked /\ Bounded(seen, clock) \subseteq seen
    BY BoundedIsPart DEF LogInv, LogTypeOK, QueueIsHonest, EndRead
  <2>2. ASSUME NEW e \in EntriesOf(job[p].raw) PROVE StillKept(e, Bounded(seen, clock), acked, peak)
    <3>1. StillKept(e, seen, acked, peak)
      BY <2>2 DEF LogInv, QueueIsHonest, EndRead
    <3>2. CASE e \in seen
      BY <2>1, <3>2, BoundsDropLawfully
    <3>3. CASE e \notin seen
      BY <3>1, <3>3 DEF StillKept
    <3> QED
      BY <3>2, <3>3
  <2>3. /\ Bounded(seen, clock) \in SUBSET Entry /\ acked \subseteq acked' /\ acked' \in SUBSET Entry
        /\ Bounded(seen, clock) \subseteq acked' /\ IsFiniteSet(acked')
        /\ \A e \in acked' \ acked : e \in Bounded(seen, clock)
    BY <1>1, <2>1
  <2>4. \A e \in EntriesOf(job[p].raw) : StillKept(e, Bounded(seen, clock), acked', peak)
    BY <1>1, <2>2
  <2> QED
    BY <1>1, <1>2, <2>3, <2>4, WroteKeeps
<1>3. CASE job' = [job EXCEPT ![p] = Idle] /\ UNCHANGED <<disk, overlapped>>
  <2>1. FilesInv' /\ LogIsAnswered'
    BY <1>1, <1>3, FilesUntouched DEF LogInv, LogIsAnswered, Raw
  <2> QED
    BY <1>1, <1>3, <2>1, JobEnds
<1> QED
  BY <1>2, <1>3 DEF EndRead

LEMMA FailedSaveKeeps == ASSUME LogInv, NEW p \in Processes, FailedSave(p) PROVE LogInv'
<1>1. FilesInv' /\ LogIsAnswered'
  BY FilesUntouched DEF FailedSave, LogInv, LogIsAnswered, Raw
<1> QED
  BY <1>1, JobEnds DEF FailedSave

LEMMA StopKeeps == ASSUME LogInv, NEW p \in Processes, Stop(p) PROVE LogInv'
<1>1. FilesInv'
  BY ExitKeeps DEF Stop, LogInv, FilesInv, FilesTypeOK
<1>2. proc'["server"] = proc["server"] \/ proc'["server"].held = Nil
  BY DEF Stop, Exit, Down, LogInv, FilesInv, FilesTypeOK, Processes
<1>3. LogIsAnswered'
  BY <1>2 DEF Stop, LogInv, LogIsAnswered, Raw
<1> QED
  BY <1>1, <1>3, JobEnds DEF Stop


LEMMA TickKeeps == LogInv /\ Tick => LogInv'
<1> SUFFICES ASSUME LogInv, Tick PROVE LogInv'
  OBVIOUS
<1>1. PICK now \in 1 .. MaxClock : clock' = now /\ peak' = IF now > peak THEN now ELSE peak
  BY DEF Tick
<1>2. UNCHANGED <<disk, proc, foreign, overlapped, minted, job, acked, waived, restore>>
  BY DEF Tick
<1>3. clock' \in Nat /\ peak' \in Nat /\ clock' <= peak' /\ peak <= peak'
  BY <1>1, AuditAssumption DEF LogInv, LogTypeOK
<1>4. LogTypeOK'
  BY <1>2, <1>3 DEF LogInv, LogTypeOK
<1>5. FilesInv' /\ LogIsAnswered' /\ Raw' = Raw
  BY <1>2, FilesUntouched DEF LogInv, LogIsAnswered, Raw
<1>6. QueueIsHonest'
  BY <1>2, <1>3, <1>4, QueuesGoOn DEF LogInv
<1>7. RestoreIsHonest'
  BY <1>2, <1>3, <1>4, RestoreStaysHonest DEF LogInv
<1>8. AnsweredStaysLogged'
  BY <1>2, <1>3, <1>4, <1>5, LogStaysKept DEF LogInv
<1> QED
  BY <1>4, <1>5, <1>6, <1>7, <1>8 DEF LogInv

LEMMA SnapshotKeeps == LogInv /\ Snapshot => LogInv'
<1> SUFFICES ASSUME LogInv, Snapshot PROVE LogInv'
  OBVIOUS
<1> DEFINE snap == Bounded(Raw, clock)
<1>1. /\ UNCHANGED <<disk, proc, foreign, overlapped, clock, peak, minted, job, acked, waived>>
      /\ restore' = [at |-> "taken", snap |-> snap, acked |-> acked, waived |-> waived]
  BY DEF Snapshot, LogRest
<1>2. snap \subseteq Raw /\ Raw \subseteq acked /\ \A e \in Raw : StillKept(e, snap, acked, peak)
  BY ReadingIsLawful DEF LogInv, LogIsAnswered
<1>3. LogTypeOK'
  <2>1. restore' \in [at : {"none", "taken", "replaced"}, snap : SUBSET Entry,
                      acked : SUBSET Entry, waived : SUBSET Entry]
    BY <1>1, <1>2 DEF LogInv, LogTypeOK
  <2> QED
    BY <1>1, <2>1 DEF LogInv, LogTypeOK
<1>4. ASSUME ~overlapped, NEW e \in acked \ waived PROVE StillKept(e, snap, acked, peak)
  <2>1. StillKept(e, Raw, acked, peak)
    BY <1>4 DEF LogInv, AnsweredStaysLogged, StillKept
  <2>2. CASE e \in Raw
    BY <1>2, <2>2
  <2>3. CASE e \notin Raw
    BY <2>1, <2>3 DEF StillKept
  <2> QED
    BY <2>2, <2>3
<1>5. RestoreIsHonest'
  <2>1. ~overlapped' => \A e \in restore'.acked \ restore'.waived :
                          StillKept(e, restore'.snap, acked', peak')
    BY <1>1, <1>4
  <2>2. restore'.snap \subseteq restore'.acked /\ restore'.acked \subseteq acked'
    BY <1>1, <1>2
  <2> QED
    BY <2>1, <2>2 DEF RestoreIsHonest
<1>6. FilesInv' /\ LogIsAnswered' /\ QueueIsHonest' /\ AnsweredStaysLogged'
  BY <1>1, FilesUntouched DEF LogInv, LogIsAnswered, QueueIsHonest, AnsweredStaysLogged, Raw
<1> QED
  BY <1>3, <1>5, <1>6 DEF LogInv

LEMMA ReplaceEntriesKeeps == LogInv /\ ReplaceEntries => LogInv'
<1> SUFFICES ASSUME LogInv, ReplaceEntries PROVE LogInv'
  OBVIOUS
<1>1. /\ UNCHANGED <<proc, foreign, overlapped, clock, peak, minted, job, acked>>
      /\ waived' = acked /\ Write("server", Log, {})
      /\ restore.at = "taken" /\ restore' = [restore EXCEPT !.at = "replaced"]
  BY DEF ReplaceEntries, LogRest
<1>2. FilesInv' /\ Raw' = {}
  <2>1. {} \in SUBSET Entry /\ "server" \in Processes /\ overlapped' \in BOOLEAN
    BY <1>1 DEF Processes, LogInv, FilesInv, FilesTypeOK
  <2> QED
    BY <1>1, <2>1, LogWritten DEF LogInv
<1>3. LogTypeOK'
  BY <1>1 DEF LogInv, LogTypeOK
<1>4. LogIsAnswered' /\ QueueIsHonest' /\ AnsweredStaysLogged'
  BY <1>1, <1>2 DEF LogInv, LogIsAnswered, QueueIsHonest, AnsweredStaysLogged
<1>5. RestoreIsHonest'
  <2>1. /\ restore'.snap = restore.snap /\ restore'.acked = restore.acked
        /\ restore'.waived = restore.waived /\ restore.at # "none"
    BY <1>1 DEF LogInv, LogTypeOK
  <2> QED
    BY <1>1, <2>1 DEF LogInv, RestoreIsHonest
<1> QED
  BY <1>2, <1>3, <1>4, <1>5 DEF LogInv

LEMMA EndRestoreKeeps == LogInv /\ EndRestore => LogInv'
<1> SUFFICES ASSUME LogInv, EndRestore PROVE LogInv'
  OBVIOUS
<1>1. /\ UNCHANGED <<disk, proc, foreign, overlapped, clock, peak, minted, job, acked, waived>>
      /\ restore' = NoRestore
  BY DEF EndRestore, LogRest
<1>2. LogTypeOK' /\ RestoreIsHonest'
  BY <1>1 DEF LogInv, LogTypeOK, RestoreIsHonest, NoRestore
<1>3. FilesInv' /\ LogIsAnswered' /\ QueueIsHonest' /\ AnsweredStaysLogged'
  BY <1>1, FilesUntouched DEF LogInv, LogIsAnswered, QueueIsHonest, AnsweredStaysLogged, Raw
<1> QED
  BY <1>2, <1>3 DEF LogInv

\* What is given back misses nothing of before that may not go.
LEMMA RestoreSnapshotKeeps == LogInv /\ RestoreSnapshot => LogInv'
<1> SUFFICES ASSUME LogInv, RestoreSnapshot PROVE LogInv'
  OBVIOUS
<1> DEFINE snap == restore.snap  back == Bounded(snap, clock)
<1>1. /\ UNCHANGED <<proc, foreign, overlapped, clock, peak, minted, job, acked>>
      /\ waived' = restore.waived \cup (acked \ restore.acked)
      /\ Write("server", Log, back) /\ restore' = NoRestore
  BY DEF RestoreSnapshot, LogRest
<1>2. snap \subseteq acked /\ restore.acked \subseteq acked /\ back \subseteq snap
  BY BoundedIsPart DEF RestoreSnapshot, LogInv, RestoreIsHonest
<1>3. back \in SUBSET Entry
  BY <1>2 DEF LogInv, LogTypeOK
<1>4. FilesInv' /\ Raw' = back
  <2>1. "server" \in Processes /\ overlapped' \in BOOLEAN
    BY <1>1 DEF Processes, LogInv, FilesInv, FilesTypeOK
  <2> QED
    BY <1>1, <1>3, <2>1, LogWritten DEF LogInv
<1>5. LogTypeOK'
  BY <1>1 DEF LogInv, LogTypeOK, NoRestore
<1>6. LogIsAnswered' /\ QueueIsHonest' /\ RestoreIsHonest'
  BY <1>1, <1>2, <1>4 DEF LogInv, LogIsAnswered, QueueIsHonest, RestoreIsHonest, NoRestore
<1>7. AnsweredStaysLogged'
  <2> SUFFICES ASSUME ~overlapped, NEW e \in acked, e \in restore.acked \ restore.waived
               PROVE  StillKept(e, back, acked, peak)
    BY <1>1, <1>4 DEF AnsweredStaysLogged, StillKept
  <2>1. StillKept(e, snap, acked, peak)
    BY DEF LogInv, RestoreIsHonest, RestoreSnapshot
  <2>2. CASE e \in snap
    BY <1>2, <2>2, BoundsDropLawfully DEF LogInv, LogTypeOK
  <2>3. CASE e \notin snap
    BY <2>1, <2>3 DEF StillKept
  <2> QED
    BY <2>2, <2>3
<1> QED
  BY <1>4, <1>5, <1>6, <1>7 DEF LogInv

LEMMA LogInductive == LogInv /\ [AuditNext]_auditVars => LogInv'
<1> SUFFICES ASSUME LogInv, [AuditNext]_auditVars PROVE LogInv'
  OBVIOUS
<1>1. CASE StorageNext /\ Storage
  BY <1>1, StorageKeepsLogInv
<1>2. ASSUME NEW p \in Processes, Record(p) PROVE LogInv'
  BY <1>2, RecordKeeps
<1>3. ASSUME NEW p \in Processes, Read(p) PROVE LogInv'
  BY <1>3, ReadKeeps
<1>4. ASSUME NEW p \in Processes, EndRecord(p) PROVE LogInv'
  BY <1>4, EndRecordKeeps
<1>5. ASSUME NEW p \in Processes, EndRead(p) PROVE LogInv'
  BY <1>5, EndReadKeeps
<1>6. ASSUME NEW p \in Processes, FailedSave(p) PROVE LogInv'
  BY <1>6, FailedSaveKeeps
<1>7. ASSUME NEW p \in Processes, Stop(p) PROVE LogInv'
  BY <1>7, StopKeeps
<1>8. ASSUME NEW p \in Processes, NEW f \in Files \ {Log}, SaveFile(p, f), Storage PROVE LogInv'
  BY <1>8, SaveFileKeeps
<1>9. CASE Snapshot \/ ReplaceEntries \/ EndRestore \/ RestoreSnapshot \/ Tick
  BY <1>9, SnapshotKeeps, ReplaceEntriesKeeps, EndRestoreKeeps, RestoreSnapshotKeeps, TickKeeps
<1>10. CASE UNCHANGED auditVars
  <2>1. Storage /\ UNCHANGED <<disk, proc, foreign, overlapped>>
    BY <1>10 DEF auditVars, storageVars, Storage
  <2>2. FilesInv' /\ LogIsAnswered' /\ Raw' = Raw
    BY <2>1, FilesUntouched DEF LogInv, LogIsAnswered, Raw, Storage
  <2> QED
    BY <2>1, <2>2, LogGoesOn
<1> QED
  BY <1>1, <1>2, <1>3, <1>4, <1>5, <1>6, <1>7, <1>8, <1>9, <1>10 DEF AuditNext

LEMMA LogInvariance == AuditSpec => []LogInv
<1>1. AuditInit => LogInv
  BY LogInit
<1>2. LogInv /\ [AuditNext]_auditVars => LogInv'
  BY LogInductive
<1> QED
  BY <1>1, <1>2, PTL DEF AuditSpec

\* The files, the processes and the log keep their types, and a queue reads and a
\* restore holds only entries that were answered.
THEOREM FilesAndLogStaySound == AuditSpec => [](FilesTypeOK /\ LogTypeOK /\ LogIsAnswered)
<1>1. LogInv => FilesTypeOK /\ LogTypeOK /\ LogIsAnswered
  BY DEF LogInv, FilesInv
<1> QED
  BY <1>1, LogInvariance, PTL

\* A server that serves has every listed file under its active key, wherever the
\* migrations of earlier starts were cut off, for every set of environments, files
\* and contents: EncryptionService and migrateBeforeServing.
THEOREM ServingMeansMigrated == AuditSpec => []ServedUnderActiveKey
<1>1. LogInv => ServedUnderActiveKey
  BY ServingIsMigrated DEF LogInv
<1> QED
  BY <1>1, LogInvariance, PTL

\* An answered record stays in the log until its age, newer entries or a restore take
\* it, for every bound on age and number, over crashes, restarts, migrations, failed
\* saves and jumps of the clock.
THEOREM AnsweredEntriesStay == AuditSpec => []AnsweredStaysLogged
<1>1. LogInv => AnsweredStaysLogged
  BY DEF LogInv
<1> QED
  BY <1>1, LogInvariance, PTL


-----------------------------------------------------------------------------
(* What an operation may ask for where: the locks in their order, the       *)
(* coordinators again by who is inside, and the two ways out of order.      *)

Rank == [l \in Locks |-> CASE l \in {"grants", "providers"}       -> 1
                           [] l = "boundary"                      -> 2
                           [] l = "binding"                       -> 3
                           [] l \in {"principals", "grantStore"}  -> 4
                           [] l \in {"apiTokens", "collection"}   -> 5
                           [] OTHER                               -> 6]

\* inside: the locks it is inside when it asks for l.
Ordered(inside, l) == \A m \in inside : Rank[m] < Rank[l]
MayAsk(inside, l) ==
  \/ Reentrant(l) /\ l \in inside
  \/ /\ l \notin inside /\ ("collection" \in inside => "binding" \in inside)
     /\ \/ Ordered(inside, l)
        \/ /\ l \in {"binding", "boundary"} /\ "binding" \notin inside
           /\ inside \cap {"principals", "versions"} # {}
        \/ l = "collection" /\ "binding" \in inside

Move == {"lock", "unlock"} \X Locks
Step(stack, move, next) ==
  \E l \in Locks :
    \/ move = <<"lock", l>> /\ MayAsk(ToSet(stack), l) /\ next = Append(stack, l)
    \/ /\ move = <<"unlock", l>> /\ stack # <<>> /\ stack[Len(stack)] = l
       /\ next = SubSeq(stack, 1, Len(stack) - 1)

\* From one stack of sections the moves lead to another, each of them allowed.
Leads(path, stack, moves, end) ==
  /\ path \in [1 .. Len(moves) + 1 -> Seq(Locks)]
  /\ path[1] = stack /\ path[Len(moves) + 1] = end
  /\ \A k \in 1 .. Len(moves) : Step(path[k], moves[k], path[k + 1])
Runs(stack, moves, end) == moves \in Seq(Move) /\ \E path : Leads(path, stack, moves, end)

LEMMA StepSound ==
  ASSUME NEW stack \in Seq(Locks), NEW move, NEW next, Step(stack, move, next)
  PROVE  move \in Move /\ next \in Seq(Locks)
<1>1. PICK l \in Locks :
        \/ move = <<"lock", l>> /\ next = Append(stack, l)
        \/ move = <<"unlock", l>> /\ stack # <<>> /\ next = SubSeq(stack, 1, Len(stack) - 1)
  BY DEF Step
<1>2. move \in Move
  BY <1>1 DEF Move
<1>3. CASE next = Append(stack, l)
  BY <1>2, <1>3
<1>4. CASE stack # <<>> /\ next = SubSeq(stack, 1, Len(stack) - 1)
  <2>1. Len(stack) \in Nat /\ Len(stack) - 1 \in 0 .. Len(stack)
    BY <1>4
  <2>2. next \in Seq(Locks)
    BY <1>4, <2>1, SubSeqProperties
  <2> QED
    BY <1>2, <2>2
<1> QED
  BY <1>1, <1>3, <1>4

LEMMA RunsNothing ==
  ASSUME NEW stack \in Seq(Locks) PROVE Runs(stack, <<>>, stack)
<1>1. Leads([k \in 1 .. 1 |-> stack], stack, <<>>, stack)
  BY DEF Leads
<1> QED
  BY <1>1 DEF Runs

LEMMA RunsOne ==
  ASSUME NEW stack \in Seq(Locks), NEW move, NEW next, Step(stack, move, next)
  PROVE  Runs(stack, <<move>>, next)
<1> DEFINE path == [k \in 1 .. 2 |-> IF k = 1 THEN stack ELSE next]
<1>1. move \in Move /\ next \in Seq(Locks)
  BY StepSound
<1>2. Len(<<move>>) = 1 /\ <<move>>[1] = move /\ <<move>> \in Seq(Move)
  BY <1>1
<1>3. path \in [1 .. 2 -> Seq(Locks)] /\ path[1] = stack /\ path[2] = next
  BY <1>1
<1> HIDE DEF path
<1>4. Leads(path, stack, <<move>>, next)
  BY <1>2, <1>3 DEF Leads
<1> QED
  BY <1>2, <1>4 DEF Runs

LEMMA RunsOn ==
  ASSUME NEW stack, NEW moves, NEW middle, NEW more, NEW end, Runs(stack, moves, middle), Runs(middle, more, end)
  PROVE  Runs(stack, moves \o more, end)
<1>1. PICK path : Leads(path, stack, moves, middle)
  BY DEF Runs
<1>2. PICK onward : Leads(onward, middle, more, end)
  BY DEF Runs
<1> DEFINE m == Len(moves)
           n == Len(more)
           whole == [k \in 1 .. m + n + 1 |-> IF k <= m THEN path[k] ELSE onward[k - m]]
<1>3. /\ moves \in Seq(Move) /\ more \in Seq(Move) /\ m \in Nat /\ n \in Nat
      /\ moves \o more \in Seq(Move) /\ Len(moves \o more) = m + n
      /\ \A k \in 1 .. m + n : (moves \o more)[k] = IF k <= m THEN moves[k] ELSE more[k - m]
  BY DEF Runs
<1>4. /\ path \in [1 .. m + 1 -> Seq(Locks)] /\ path[1] = stack /\ path[m + 1] = middle
      /\ onward \in [1 .. n + 1 -> Seq(Locks)] /\ onward[1] = middle /\ onward[n + 1] = end
      /\ \A k \in 1 .. m : Step(path[k], moves[k], path[k + 1])
      /\ \A k \in 1 .. n : Step(onward[k], more[k], onward[k + 1])
  BY <1>1, <1>2 DEF Leads
<1> HIDE DEF m, n
<1>5. /\ whole \in [1 .. m + n + 1 -> Seq(Locks)]
      /\ \A k \in 1 .. m : whole[k] = path[k]
      /\ \A k \in m + 1 .. m + n + 1 : whole[k] = onward[k - m]
  <2>1. ASSUME NEW k \in 1 .. m + n + 1, k <= m PROVE path[k] \in Seq(Locks)
    <3>1. k \in 1 .. m + 1
      BY <1>3, <2>1
    <3> QED
      BY <1>4, <3>1
  <2>2. ASSUME NEW k \in 1 .. m + n + 1, k > m PROVE onward[k - m] \in Seq(Locks)
    <3>1. k - m \in 1 .. n + 1
      BY <1>3, <2>2
    <3> QED
      BY <1>4, <3>1
  <2>3. \A k \in 1 .. m + n + 1 : (IF k <= m THEN path[k] ELSE onward[k - m]) \in Seq(Locks)
    BY <1>3, <2>1, <2>2
  <2>4. whole \in [1 .. m + n + 1 -> Seq(Locks)]
    BY <2>3
  <2>5. \A k \in 1 .. m : k \in 1 .. m + n + 1 /\ k <= m
    BY <1>3
  <2>6. \A k \in m + 1 .. m + n + 1 : k \in 1 .. m + n + 1 /\ ~(k <= m)
    BY <1>3
  <2> QED
    BY <2>4, <2>5, <2>6
<1>6. whole[1] = stack /\ whole[m + n + 1] = end
  BY <1>3, <1>4, <1>5
<1>7. \A k \in 1 .. m + 1 : whole[k] = path[k]
  BY <1>3, <1>4, <1>5
<1> HIDE DEF whole
<1>8. ASSUME NEW k \in 1 .. m + n PROVE Step(whole[k], (moves \o more)[k], whole[k + 1])
  <2>1. CASE k <= m
    <3>1. k \in 1 .. m /\ k \in 1 .. m + 1 /\ k + 1 \in 1 .. m + 1 /\ (moves \o more)[k] = moves[k]
      BY <1>3, <2>1
    <3>2. whole[k] = path[k] /\ whole[k + 1] = path[k + 1]
      BY <1>7, <3>1
    <3>3. Step(path[k], moves[k], path[k + 1])
      BY <1>4, <3>1
    <3> QED
      BY <3>1, <3>2, <3>3
  <2>2. CASE k > m
    <3>1. /\ k - m \in 1 .. n /\ (k + 1) - m = (k - m) + 1 /\ (moves \o more)[k] = more[k - m]
          /\ k \in m + 1 .. m + n + 1 /\ k + 1 \in m + 1 .. m + n + 1
      BY <1>3, <2>2
    <3>2. whole[k] = onward[k - m] /\ whole[k + 1] = onward[(k + 1) - m]
      BY <1>5, <3>1
    <3>3. Step(onward[k - m], more[k - m], onward[(k - m) + 1])
      BY <1>4, <3>1
    <3> QED
      BY <3>1, <3>2, <3>3
  <2> QED
    BY <1>3, <2>1, <2>2
<1>9. Leads(whole, stack, moves \o more, end)
  BY <1>3, <1>5, <1>6, <1>8 DEF Leads
<1> QED
  BY <1>3, <1>9 DEF Runs

\* What is left after the first move.
LEMMA RunsFirst ==
  ASSUME NEW stack, NEW moves, NEW end, Runs(stack, moves, end)
  PROVE  /\ moves \in Seq(Move) /\ stack \in Seq(Locks)
         /\ moves = <<>> => stack = end
         /\ moves # <<>> => \E next \in Seq(Locks) :
                              Step(stack, Head(moves), next) /\ Runs(next, Tail(moves), end)
<1>1. PICK path : Leads(path, stack, moves, end)
  BY DEF Runs
<1> DEFINE n == Len(moves)
           rest == [k \in 1 .. n |-> path[k + 1]]
<1>2. moves \in Seq(Move) /\ n \in Nat
  BY DEF Runs
<1>3. /\ path \in [1 .. n + 1 -> Seq(Locks)] /\ path[1] = stack /\ path[n + 1] = end
      /\ \A k \in 1 .. n : Step(path[k], moves[k], path[k + 1])
  BY <1>1 DEF Leads
<1>4. CASE moves = <<>>
  <2>1. n = 0
    BY <1>4
  <2> HIDE DEF n
  <2> QED
    BY <1>2, <1>3, <1>4, <2>1
<1>5. CASE moves # <<>>
  <2>1. /\ n >= 1 /\ Head(moves) = moves[1] /\ Tail(moves) \in Seq(Move) /\ Len(Tail(moves)) = n - 1
        /\ \A k \in 1 .. n - 1 : Tail(moves)[k] = moves[k + 1]
    BY <1>2, <1>5
  <2> HIDE DEF n
  <2>2. rest \in [1 .. n -> Seq(Locks)] /\ \A k \in 1 .. n : rest[k] = path[k + 1]
    BY <1>2, <1>3
  <2>3. path[2] \in Seq(Locks) /\ Step(stack, Head(moves), path[2])
    BY <1>2, <1>3, <2>1
  <2> HIDE DEF rest
  <2>4. \A k \in 1 .. n - 1 : Step(rest[k], Tail(moves)[k], rest[k + 1])
    <3> SUFFICES ASSUME NEW k \in 1 .. n - 1 PROVE Step(rest[k], Tail(moves)[k], rest[k + 1])
      OBVIOUS
    <3>1. k \in 1 .. n /\ k + 1 \in 1 .. n /\ rest[k] = path[k + 1] /\ rest[k + 1] = path[(k + 1) + 1]
      BY <1>2, <2>1, <2>2
    <3>2. Tail(moves)[k] = moves[k + 1]
      BY <2>1
    <3> QED
      BY <1>3, <3>1, <3>2
  <2>5. rest[1] = path[2] /\ rest[n] = end /\ (n - 1) + 1 = n
    BY <1>2, <1>3, <2>1, <2>2
  <2>6. Leads(rest, path[2], Tail(moves), end)
    BY <2>1, <2>2, <2>4, <2>5 DEF Leads
  <2> QED
    BY <1>2, <1>3, <2>1, <2>3, <2>6 DEF Runs
<1> QED
  BY <1>2, <1>3, <1>4, <1>5

-----------------------------------------------------------------------------
(* Every operation asks only for what it may: composed as it is nested.      *)

\* Run where exactly these locks are held, the moves come back to where they began.
Guarded(inside, moves) == \A stack \in Seq(Locks) : ToSet(stack) = inside => Runs(stack, moves, stack)

LEMMA GuardedNothing ==
  ASSUME NEW inside PROVE Guarded(inside, <<>>)
BY RunsNothing DEF Guarded

LEMMA GuardedBoth ==
  ASSUME NEW inside, NEW moves, NEW more, Guarded(inside, moves), Guarded(inside, more)
  PROVE  Guarded(inside, moves \o more)
BY RunsOn DEF Guarded

LEMMA GuardedWithin ==
  ASSUME NEW inside, NEW l \in Locks, MayAsk(inside, l), NEW body, Guarded(inside \cup {l}, body)
  PROVE  Guarded(inside, Within(l, body))
<1> SUFFICES ASSUME NEW stack \in Seq(Locks), ToSet(stack) = inside PROVE Runs(stack, Within(l, body), stack)
  BY DEF Guarded
<1> DEFINE deeper == Append(stack, l)
<1>1. deeper \in Seq(Locks) /\ ToSet(deeper) = inside \cup {l}
  <2>1. /\ deeper \in Seq(Locks) /\ Len(deeper) = Len(stack) + 1 /\ Len(stack) \in Nat
        /\ deeper[Len(stack) + 1] = l /\ \A k \in 1 .. Len(stack) : deeper[k] = stack[k]
        /\ DOMAIN deeper = 1 .. Len(stack) + 1 /\ DOMAIN stack = 1 .. Len(stack)
    BY AppendProperties
  <2> HIDE DEF deeper
  <2>2. ToSet(deeper) \subseteq inside \cup {l}
    BY <2>1 DEF ToSet
  <2>3. inside \cup {l} \subseteq ToSet(deeper)
    BY <2>1 DEF ToSet
  <2> QED
    BY <2>1, <2>2, <2>3
<1>2. Runs(deeper, body, deeper)
  BY <1>1 DEF Guarded
<1>3. Runs(stack, <<<<"lock", l>>>>, deeper)
  <2>1. Step(stack, <<"lock", l>>, deeper)
    BY DEF Step
  <2> QED
    BY <2>1, RunsOne
<1>4. Runs(deeper, <<<<"unlock", l>>>>, stack)
  <2>1. deeper # <<>> /\ deeper[Len(deeper)] = l /\ SubSeq(deeper, 1, Len(deeper) - 1) = stack
    <3>1. /\ deeper # <<>> /\ Len(deeper) = Len(stack) + 1 /\ Len(stack) \in Nat /\ deeper[Len(stack) + 1] = l
          /\ \A k \in 1 .. Len(stack) : deeper[k] = stack[k]
      BY AppendProperties
    <3>2. /\ Len(SubSeq(deeper, 1, Len(stack))) = Len(stack) /\ SubSeq(deeper, 1, Len(stack)) \in Seq(Locks)
          /\ \A k \in 1 .. Len(stack) : SubSeq(deeper, 1, Len(stack))[k] = stack[k]
      BY <1>1, <3>1
    <3>3. SubSeq(deeper, 1, Len(stack)) = stack
      BY <3>1, <3>2, SeqEqual
    <3> QED
      BY <3>1, <3>3
  <2>2. Step(deeper, <<"unlock", l>>, stack)
    BY <2>1 DEF Step
  <2> QED
    BY <1>1, <2>2, RunsOne
<1>5. Runs(stack, (<<<<"lock", l>>>> \o body) \o <<<<"unlock", l>>>>, stack)
  BY <1>2, <1>3, <1>4, RunsOn
<1> QED
  BY <1>5 DEF Within

\* The collection and its commits, wherever the coordinator may be asked for.
LEMMA CollectionGuarded ==
  ASSUME NEW inside, "collection" \notin inside, MayAsk(inside, "binding")
  PROVE  Guarded(inside, CollectionAccess)
<1>1. MayAsk(inside \cup {"binding"}, "collection")
  BY DEF MayAsk
<1>2. Guarded((inside \cup {"binding"}) \cup {"collection"}, <<>>)
  BY GuardedNothing
<1>3. Guarded(inside \cup {"binding"}, Within("collection", <<>>))
  BY <1>1, <1>2, GuardedWithin DEF Locks
<1> QED
  BY <1>3, GuardedWithin DEF CollectionAccess, Locks

LEMMA Asking ==
  /\ \A l \in Locks : MayAsk({}, l)
  /\ \A inside : \A l \in {"binding", "boundary"} : l \in inside => MayAsk(inside, l)
  /\ \A inside \in SUBSET {"grants", "providers", "boundary"} : MayAsk(inside, "binding")
  /\ MayAsk({"binding"}, "principals") /\ MayAsk({"binding"}, "apiTokens")
  /\ MayAsk({"binding", "principals"}, "apiTokens") /\ MayAsk({"boundary", "binding"}, "principals")
  /\ MayAsk({"principals"}, "binding")
  /\ MayAsk({"versions"}, "binding") /\ MayAsk({"versions"}, "boundary") /\ MayAsk({"versions", "boundary"}, "binding")
  /\ MayAsk({"boundary", "binding"}, "collection") /\ MayAsk({"boundary", "binding", "collection"}, "versions")
  /\ MayAsk({"grants", "binding"}, "grantStore")
<1> USE DEF MayAsk, Ordered, Reentrant
<1>0. /\ Rank["grants"] = 1 /\ Rank["providers"] = 1 /\ Rank["boundary"] = 2 /\ Rank["binding"] = 3
      /\ Rank["principals"] = 4 /\ Rank["grantStore"] = 4 /\ Rank["apiTokens"] = 5 /\ Rank["collection"] = 5
      /\ Rank["versions"] = 6
  BY DEF Rank, Locks
<1>1. \A l \in Locks : MayAsk({}, l)
  OBVIOUS
<1>2. \A inside : \A l \in {"binding", "boundary"} : l \in inside => MayAsk(inside, l)
  OBVIOUS
<1>3. \A inside \in SUBSET {"grants", "providers", "boundary"} : MayAsk(inside, "binding")
  BY <1>0
<1>4. /\ MayAsk({"binding"}, "principals") /\ MayAsk({"binding"}, "apiTokens")
      /\ MayAsk({"binding", "principals"}, "apiTokens") /\ MayAsk({"boundary", "binding"}, "principals")
  BY <1>0
<1>5. /\ MayAsk({"principals"}, "binding")
      /\ MayAsk({"versions"}, "binding") /\ MayAsk({"versions"}, "boundary") /\ MayAsk({"versions", "boundary"}, "binding")
  OBVIOUS
<1>6. /\ MayAsk({"boundary", "binding"}, "collection") /\ MayAsk({"boundary", "binding", "collection"}, "versions")
      /\ MayAsk({"grants", "binding"}, "grantStore")
  BY <1>0
<1> QED
  BY <1>1, <1>2, <1>3, <1>4, <1>5, <1>6

LEMMA GuardedInside ==
  ASSUME NEW inside, NEW l \in Locks, MayAsk(inside, l), NEW deeper, deeper = inside \cup {l},
         NEW body, Guarded(deeper, body)
  PROVE  Guarded(inside, Within(l, body))
BY GuardedWithin

LEMMA Collections ==
  /\ Guarded({}, CollectionAccess) /\ Guarded({"grants"}, CollectionAccess) /\ Guarded({"boundary"}, CollectionAccess)
  /\ Guarded({"versions"}, CollectionAccess) /\ Guarded({"versions", "boundary"}, CollectionAccess)
  /\ Guarded({"binding"}, CollectionAccess) /\ Guarded({"principals", "binding"}, CollectionAccess)
  /\ Guarded({"versions", "boundary", "binding"}, CollectionAccess)
  /\ Guarded({"grants", "binding", "grantStore"}, CollectionAccess)
  /\ Guarded({"providers", "binding"}, CollectionAccess)
<1>1. /\ MayAsk({}, "binding") /\ MayAsk({"grants"}, "binding") /\ MayAsk({"boundary"}, "binding")
      /\ MayAsk({"versions"}, "binding") /\ MayAsk({"versions", "boundary"}, "binding")
  BY Asking DEF Locks
<1>2. /\ MayAsk({"binding"}, "binding") /\ MayAsk({"principals", "binding"}, "binding")
      /\ MayAsk({"versions", "boundary", "binding"}, "binding")
      /\ MayAsk({"grants", "binding", "grantStore"}, "binding") /\ MayAsk({"providers", "binding"}, "binding")
  BY Asking
<1> QED
  BY <1>1, <1>2, CollectionGuarded

LEMMA Programmed == \A o \in Operations : Guarded({}, Program[o])
<1>c. \A inside : Guarded(inside, <<>>)
  BY GuardedNothing
<1>v. Guarded({}, RecordVersion) /\ Guarded({"boundary", "binding", "collection"}, RecordVersion)
  <2>1. \A inside : MayAsk(inside, "versions") => Guarded(inside, RecordVersion)
    BY <1>c, GuardedInside DEF RecordVersion, Locks
  <2> QED
    BY <2>1, Asking DEF Locks
<1>1. Guarded({}, Register)
  <2>1. Guarded({}, Within("binding", CollectionAccess))
    BY Collections, Asking, GuardedInside DEF Locks
  <2> QED
    BY <1>v, <2>1, GuardedBoth DEF Register
<1>2. Guarded({}, UpdateCredential)
  <2>1. Guarded({}, Within("binding", CollectionAccess))
    BY Collections, Asking, GuardedInside DEF Locks
  <2>2. Guarded({}, CollectionAccess \o Within("binding", CollectionAccess))
    BY <2>1, Collections, GuardedBoth
  <2> QED
    BY <1>v, <2>2, GuardedBoth DEF UpdateCredential
<1>3. Guarded({}, OAuthCallback)
  <2>1. Guarded({"principals", "binding"}, CollectionAccess \o CollectionAccess)
    BY Collections, GuardedBoth
  <2>2. MayAsk({"principals"}, "binding") /\ {"principals", "binding"} = {"principals"} \cup {"binding"}
    BY Asking
  <2>3. Guarded({"principals"}, ImportCredential)
    BY <2>1, <2>2, GuardedInside DEF ImportCredential, Locks
  <2> QED
    BY <2>3, Asking, GuardedInside DEF OAuthCallback, Locks
<1>4. Guarded({}, ImportCredentials)
  <2>1. Guarded({}, RestoreState)
    BY <1>c, Asking, GuardedInside DEF RestoreState, Locks
  <2>2. Guarded({"boundary", "binding"}, Within("collection", RecordVersion))
    <3>1. /\ MayAsk({"boundary", "binding"}, "collection")
          /\ {"boundary", "binding", "collection"} = {"boundary", "binding"} \cup {"collection"}
      BY Asking
    <3> QED
      BY <1>v, <3>1, GuardedInside DEF Locks
  <2>3. Guarded({"boundary"}, Within("binding", Within("collection", RecordVersion)))
    <3>1. MayAsk({"boundary"}, "binding") /\ {"boundary", "binding"} = {"boundary"} \cup {"binding"}
      BY Asking
    <3> QED
      BY <2>2, <3>1, GuardedInside DEF Locks
  <2>4. Guarded({"boundary"}, CollectionAccess \o Within("binding", Within("collection", RecordVersion)))
    BY <2>3, Collections, GuardedBoth
  <2>5. Guarded({}, Within("boundary", CollectionAccess \o Within("binding", Within("collection", RecordVersion))))
    BY <2>4, Asking, GuardedInside DEF Locks
  <2> QED
    BY <2>1, <2>5, GuardedBoth DEF ImportCredentials
<1>5. Guarded({}, RollbackSecrets)
  <2>1. Guarded({"versions", "boundary"}, Within("binding", CollectionAccess))
    <3>1. /\ MayAsk({"versions", "boundary"}, "binding")
          /\ {"versions", "boundary", "binding"} = {"versions", "boundary"} \cup {"binding"}
      BY Asking
    <3> QED
      BY <3>1, Collections, GuardedInside DEF Locks
  <2>2. Guarded({"versions", "boundary"}, CollectionAccess \o Within("binding", CollectionAccess))
    BY <2>1, Collections, GuardedBoth
  <2>3. Guarded({"versions"}, Within("boundary", CollectionAccess \o Within("binding", CollectionAccess)))
    <3>1. MayAsk({"versions"}, "boundary") /\ {"versions", "boundary"} = {"versions"} \cup {"boundary"}
      BY Asking
    <3> QED
      BY <2>2, <3>1, GuardedInside DEF Locks
  <2>4. Guarded({"versions"}, CollectionAccess \o Within("boundary", CollectionAccess \o Within("binding", CollectionAccess)))
    BY <2>3, Collections, GuardedBoth
  <2> QED
    BY <2>4, Asking, GuardedInside DEF RollbackSecrets, Locks
<1>g. ASSUME NEW revalidate, Guarded({"grants", "binding", "grantStore"}, revalidate)
      PROVE  Guarded({}, Within("grants", CollectionAccess \o SaveGrants(revalidate)))
  <2>1. Guarded({"grants", "binding"}, Within("grantStore", revalidate))
    <3>1. /\ MayAsk({"grants", "binding"}, "grantStore")
          /\ {"grants", "binding", "grantStore"} = {"grants", "binding"} \cup {"grantStore"}
      BY Asking
    <3> QED
      BY <1>g, <3>1, GuardedInside DEF Locks
  <2>2. Guarded({"grants"}, SaveGrants(revalidate))
    <3>1. MayAsk({"grants"}, "binding") /\ {"grants", "binding"} = {"grants"} \cup {"binding"}
      BY Asking
    <3> QED
      BY <2>1, <3>1, GuardedInside DEF SaveGrants, Locks
  <2>3. Guarded({"grants"}, CollectionAccess \o SaveGrants(revalidate))
    BY <2>2, Collections, GuardedBoth
  <2> QED
    BY <2>3, Asking, GuardedInside DEF Locks
<1>6. Guarded({}, DeleteCredential)
  <2>1. Guarded({}, Within("grants", CollectionAccess \o SaveGrants(<<>>)))
    BY <1>c, <1>g
  <2>2. Guarded({}, CollectionAccess \o Within("grants", CollectionAccess \o SaveGrants(<<>>)))
    BY <2>1, Collections, GuardedBoth
  <2>3. Guarded({}, (CollectionAccess \o Within("grants", CollectionAccess \o SaveGrants(<<>>))) \o RecordVersion)
    BY <1>v, <2>2, GuardedBoth
  <2> QED
    BY <2>3, Collections, GuardedBoth DEF DeleteCredential
<1>7. Guarded({}, UpdateUser) /\ Guarded({"boundary"}, UpdateUser)
  <2>1. Guarded({"binding"}, Within("principals", <<>>)) /\ Guarded({"boundary", "binding"}, Within("principals", <<>>))
    BY <1>c, Asking, GuardedInside DEF Locks
  <2>2. MayAsk({"boundary"}, "binding") /\ {"boundary", "binding"} = {"boundary"} \cup {"binding"}
    BY Asking
  <2> QED
    BY <2>1, <2>2, Asking, GuardedInside DEF UpdateUser, Locks
<1>8. Guarded({}, RevokeTokens) /\ Guarded({"binding", "principals"}, RevokeTokens)
  <2>1. /\ Guarded({"binding"}, Within("apiTokens", <<>>))
        /\ Guarded({"binding", "principals"}, Within("apiTokens", <<>>))
    BY <1>c, Asking, GuardedInside DEF Locks
  <2>2. /\ MayAsk({"binding", "principals"}, "binding")
        /\ {"binding", "principals"} = {"binding", "principals"} \cup {"binding"}
    BY Asking
  <2> QED
    BY <2>1, <2>2, Asking, GuardedInside DEF RevokeTokens, Locks
<1>9. Guarded({}, DeleteUser)
  <2>1. Guarded({"binding"}, Within("principals", RevokeTokens))
    <3>1. MayAsk({"binding"}, "principals") /\ {"binding", "principals"} = {"binding"} \cup {"principals"}
      BY Asking
    <3> QED
      BY <1>8, <3>1, GuardedInside DEF Locks
  <2> QED
    BY <2>1, Asking, GuardedInside DEF DeleteUser, Locks
<1>10. Guarded({}, AuthenticateToken)
  BY <1>c, Asking, GuardedInside DEF AuthenticateToken, Locks
<1>11. Guarded({}, RestoreManagement)
  BY <1>7, Asking, GuardedInside DEF RestoreManagement, Locks
<1>12. Guarded({}, RestoreToken)
  <2>1. Guarded({}, Within("boundary", CollectionAccess))
    BY Collections, Asking, GuardedInside DEF Locks
  <2> QED
    BY <2>1, Collections, GuardedBoth DEF RestoreToken
<1>13. Guarded({}, CreateGrant)
  BY <1>g, Collections DEF CreateGrant
<1>14. Guarded({}, ResolveSecrets) /\ Guarded({}, RemoveConfiguration)
  <2>1. Guarded({}, Within("binding", CollectionAccess))
    BY Collections, Asking, GuardedInside DEF Locks
  <2> QED
    BY <2>1, Collections, GuardedBoth DEF ResolveSecrets, RemoveConfiguration
<1>15. Guarded({}, DeleteProvider)
  <2>1. /\ MayAsk({"providers", "binding"}, "binding") /\ MayAsk({"providers"}, "binding")
        /\ {"providers", "binding"} = {"providers", "binding"} \cup {"binding"}
        /\ {"providers", "binding"} = {"providers"} \cup {"binding"}
    BY Asking
  <2>2. Guarded({"providers", "binding"}, Within("binding", CollectionAccess))
    BY <2>1, Collections, GuardedInside DEF Locks
  <2>3. Guarded({"providers"}, Within("binding", Within("binding", CollectionAccess)))
    BY <2>1, <2>2, GuardedInside DEF Locks
  <2> QED
    BY <2>3, Asking, GuardedInside DEF DeleteProvider, Locks
<1> QED
  BY <1>1, <1>2, <1>3, <1>4, <1>5, <1>6, <1>7, <1>8, <1>9, <1>10, <1>11, <1>12, <1>13, <1>14, <1>15
  DEF Operations, Program

\* A rejected section: what was entered is left, from the innermost out.
LEMMA Unwinds ==
  ASSUME NEW stack \in Seq(Locks)
  PROVE  Runs(stack, [k \in 1 .. Len(stack) |-> <<"unlock", Reverse(stack)[k]>>], <<>>)
<1> DEFINE n == Len(stack)
           moves == [k \in 1 .. n |-> <<"unlock", Reverse(stack)[k]>>]
           path == [k \in 1 .. n + 1 |-> SubSeq(stack, 1, n + 1 - k)]
<1>1. n \in Nat /\ \A k \in 1 .. n : stack[k] \in Locks
  OBVIOUS
<1>2. ASSUME NEW k \in 0 .. n
      PROVE  /\ SubSeq(stack, 1, k) \in Seq(Locks) /\ Len(SubSeq(stack, 1, k)) = k
             /\ \A j \in 1 .. k : SubSeq(stack, 1, k)[j] = stack[j]
  <2>1. \A j \in 1 .. k : stack[j] \in Locks
    BY <1>1
  <2> HIDE DEF n
  <2> QED
    BY <1>1, <2>1, SubSeqProperties
<1>3. \A k \in 1 .. n : moves[k] = <<"unlock", stack[n + 1 - k]>> /\ n + 1 - k \in 1 .. n
  BY <1>1 DEF Reverse
<1>4. moves \in Seq(Move) /\ Len(moves) = n
  <2>1. \A k \in 1 .. n : moves[k] \in Move
    BY <1>1, <1>3 DEF Move
  <2>2. moves \in [1 .. n -> Move]
    BY <2>1
  <2> HIDE DEF moves
  <2> QED
    BY <1>1, <2>2
<1>5. path \in [1 .. n + 1 -> Seq(Locks)] /\ path[1] = stack /\ path[n + 1] = <<>>
  <2>1. \A k \in 1 .. n + 1 : n + 1 - k \in 0 .. n
    BY <1>1
  <2>2. \A k \in 1 .. n + 1 : SubSeq(stack, 1, n + 1 - k) \in Seq(Locks)
    BY <1>2, <2>1
  <2>3. SubSeq(stack, 1, n) = stack
    <3>1. n \in 0 .. n
      BY <1>1
    <3>2. /\ SubSeq(stack, 1, n) \in Seq(Locks) /\ Len(SubSeq(stack, 1, n)) = Len(stack)
          /\ \A j \in 1 .. Len(stack) : SubSeq(stack, 1, n)[j] = stack[j]
      BY <1>2, <3>1
    <3> HIDE DEF n
    <3> QED
      BY <3>2, SeqEqual
  <2>4. SubSeq(stack, 1, 0) = <<>>
    BY <1>1, <1>2
  <2>5. n + 1 - 1 = n /\ n + 1 - (n + 1) = 0 /\ 1 \in 1 .. n + 1 /\ n + 1 \in 1 .. n + 1
    BY <1>1
  <2> HIDE DEF n
  <2> QED
    BY <2>2, <2>3, <2>4, <2>5
<1>6. ASSUME NEW k \in 1 .. n PROVE Step(path[k], moves[k], path[k + 1])
  <2> DEFINE here == n + 1 - k
  <2>1. here \in 1 .. n /\ here \in 0 .. n /\ here - 1 \in 0 .. n /\ n + 1 - (k + 1) = here - 1
        /\ k \in 1 .. n + 1 /\ k + 1 \in 1 .. n + 1
    BY <1>1
  <2>2. path[k] = SubSeq(stack, 1, here) /\ path[k + 1] = SubSeq(stack, 1, here - 1)
    BY <2>1
  <2>3. path[k] \in Seq(Locks) /\ Len(path[k]) = here /\ \A j \in 1 .. here : path[k][j] = stack[j]
    BY <1>2, <2>1, <2>2
  <2>4. SubSeq(path[k], 1, here - 1) = SubSeq(stack, 1, here - 1)
    <3>1. /\ SubSeq(stack, 1, here - 1) \in Seq(Locks) /\ Len(SubSeq(stack, 1, here - 1)) = here - 1
          /\ \A j \in 1 .. here - 1 : SubSeq(stack, 1, here - 1)[j] = stack[j]
      BY <1>2, <2>1
    <3>2. \A j \in 1 .. here - 1 : path[k][j] = stack[j] /\ stack[j] \in Locks
      BY <1>1, <2>1, <2>3
    <3> HIDE DEF path
    <3>3. /\ SubSeq(path[k], 1, here - 1) \in Seq(Locks) /\ Len(SubSeq(path[k], 1, here - 1)) = here - 1
          /\ \A j \in 1 .. here - 1 : SubSeq(path[k], 1, here - 1)[j] = path[k][j]
      <4>1. \A j \in 1 .. here - 1 : path[k][j] \in Locks
        BY <3>2
      <4>2. here - 1 \in Nat
        BY <2>1
      <4> HIDE DEF here
      <4> QED
        BY <4>1, <4>2, SubSeqProperties
    <3> QED
      BY <3>1, <3>2, <3>3, SeqEqual
  <2>5. path[k] # <<>> /\ path[k][Len(path[k])] = stack[here] /\ stack[here] \in Locks
    <3> HIDE DEF path, here, n
    <3>1. here \in Nat /\ here >= 1 /\ here \in 1 .. here
      BY <1>1, <2>1
    <3> QED
      BY <1>1, <2>1, <2>3, <3>1
  <2>6. moves[k] = <<"unlock", stack[here]>>
    BY <1>3
  <2> HIDE DEF path, moves, here
  <2> QED
    BY <2>2, <2>3, <2>4, <2>5, <2>6 DEF Step
<1> HIDE DEF path, moves
<1>7. Leads(path, stack, moves, <<>>)
  BY <1>4, <1>5, <1>6 DEF Leads
<1>8. Runs(stack, moves, <<>>)
  BY <1>4, <1>7 DEF Runs
<1> QED
  BY <1>8 DEF moves

-----------------------------------------------------------------------------
(* Who is in a queue: the one inside, first, and those who wait.             *)

Queued(l) ==
  /\ \A i, j \in 1 .. Len(queue[l]) : queue[l][i] = queue[l][j] => i = j
  /\ \A a \in Actors : a \in ToSet(queue[l]) <=> (Inside(a, l) \/ Awaits(a, l))
  /\ \A a \in Actors : Inside(a, l) => queue[l] # <<>> /\ Head(queue[l]) = a
LocksInv ==
  /\ queue \in [Locks -> Seq(Actors)] /\ held \in [Actors -> Seq(Locks)]
  /\ waiting \in [Actors -> BOOLEAN] /\ todo \in [Actors -> Seq(Move)]
  /\ \A a \in Actors : Runs(held[a], todo[a], <<>>)
  /\ \A a \in Actors : waiting[a] => \E l \in Locks : Asks(a, l) /\ ~Inside(a, l)
  /\ \A l \in Locks : Queued(l)

LEMMA LocksStart == LocksInit => LocksInv
<1> SUFFICES ASSUME LocksInit PROVE LocksInv
  OBVIOUS
<1>1. /\ queue \in [Locks -> Seq(Actors)] /\ held \in [Actors -> Seq(Locks)]
      /\ waiting \in [Actors -> BOOLEAN] /\ todo \in [Actors -> Seq(Move)]
  BY DEF LocksInit
<1>2. \A a \in Actors : held[a] = <<>> /\ todo[a] = <<>> /\ waiting[a] = FALSE
  BY DEF LocksInit
<1>3. \A a \in Actors : Runs(held[a], todo[a], <<>>)
  <2>1. <<>> \in Seq(Locks)
    OBVIOUS
  <2>2. Runs(<<>>, <<>>, <<>>)
    BY <2>1, RunsNothing
  <2> QED
    BY <1>2, <2>2
<1>4. \A a \in Actors, l \in Locks : ~Inside(a, l) /\ ~Awaits(a, l)
  BY <1>2 DEF Inside, Awaits, ToSet
<1>5. \A l \in Locks : queue[l] = <<>> /\ ToSet(queue[l]) = {}
  BY DEF LocksInit, ToSet
<1>6. \A l \in Locks : Queued(l)
  BY <1>4, <1>5 DEF Queued
<1> QED
  BY <1>1, <1>2, <1>3, <1>6 DEF LocksInv

\* Where nobody's place changes, the queue is as sound as it was.
LEMMA QueueStays ==
  ASSUME NEW l, Queued(l), queue'[l] = queue[l],
         \A a \in Actors : (Inside(a, l)' <=> Inside(a, l)) /\ (Awaits(a, l)' <=> Awaits(a, l))
  PROVE  Queued(l)'
BY DEF Queued

LEMMA OthersStay ==
  ASSUME LocksInv, NEW a \in Actors, NEW stack, NEW moves, NEW waits,
         held' = [held EXCEPT ![a] = stack], todo' = [todo EXCEPT ![a] = moves],
         waiting' = [waiting EXCEPT ![a] = waits]
  PROVE  \A b \in Actors \ {a}, l \in Locks :
           (Inside(b, l)' <=> Inside(b, l)) /\ (Asks(b, l)' <=> Asks(b, l)) /\ (Awaits(b, l)' <=> Awaits(b, l))
<1> SUFFICES ASSUME NEW b \in Actors \ {a}, NEW l \in Locks
             PROVE  (Inside(b, l)' <=> Inside(b, l)) /\ (Asks(b, l)' <=> Asks(b, l)) /\ (Awaits(b, l)' <=> Awaits(b, l))
  OBVIOUS
<1>1. held'[b] = held[b] /\ todo'[b] = todo[b] /\ waiting'[b] = waiting[b]
  BY DEF LocksInv
<1> QED
  BY <1>1 DEF Inside, Asks, Awaits

\* One actor moves: what has to be shown of it.
LEMMA OneMoves ==
  ASSUME LocksInv, NEW a \in Actors, NEW stack \in Seq(Locks), NEW moves \in Seq(Move), NEW waits \in BOOLEAN,
         held' = [held EXCEPT ![a] = stack], todo' = [todo EXCEPT ![a] = moves],
         waiting' = [waiting EXCEPT ![a] = waits], queue' \in [Locks -> Seq(Actors)],
         Runs(stack, moves, <<>>), waits => \E l \in Locks : Asks(a, l)' /\ ~Inside(a, l)',
         \A l \in Locks : Queued(l)'
  PROVE  LocksInv'
<1>1. /\ held' \in [Actors -> Seq(Locks)] /\ todo' \in [Actors -> Seq(Move)] /\ waiting' \in [Actors -> BOOLEAN]
      /\ held'[a] = stack /\ todo'[a] = moves /\ waiting'[a] = waits
      /\ \A b \in Actors \ {a} : held'[b] = held[b] /\ todo'[b] = todo[b] /\ waiting'[b] = waiting[b]
  BY DEF LocksInv
<1>2. \A b \in Actors : Runs(held'[b], todo'[b], <<>>)
  BY <1>1 DEF LocksInv
<1>3. ASSUME NEW b \in Actors, waiting'[b] PROVE \E l \in Locks : Asks(b, l)' /\ ~Inside(b, l)'
  <2>1. CASE b = a
    BY <1>1, <1>3, <2>1
  <2>2. CASE b # a
    <3>1. PICK l \in Locks : Asks(b, l) /\ ~Inside(b, l)
      BY <1>1, <1>3, <2>2 DEF LocksInv
    <3>2. Asks(b, l)' /\ ~Inside(b, l)'
      BY <2>2, <3>1, OthersStay
    <3> QED
      BY <3>2
  <2> QED
    BY <2>1, <2>2
<1> QED
  BY <1>1, <1>2, <1>3 DEF LocksInv

LEMMA AsksOne ==
  ASSUME NEW a \in Actors, NEW l, NEW m, Asks(a, l), Asks(a, m) PROVE l = m
BY DEF Asks

\* Whoever asks is allowed to; whoever leaves, leaves the innermost section.
LEMMA NextMove ==
  ASSUME LocksInv, NEW a \in Actors, NEW l \in Locks
  PROVE  /\ Asks(a, l) => /\ MayAsk(ToSet(held[a]), l)
                          /\ Append(held[a], l) \in Seq(Locks) /\ Tail(todo[a]) \in Seq(Move)
                          /\ Runs(Append(held[a], l), Tail(todo[a]), <<>>)
         /\ todo[a] # <<>> /\ Head(todo[a]) = <<"unlock", l>> =>
              /\ held[a] # <<>> /\ held[a][Len(held[a])] = l
              /\ Front(held[a]) \in Seq(Locks) /\ Tail(todo[a]) \in Seq(Move)
              /\ Runs(Front(held[a]), Tail(todo[a]), <<>>)
<1>1. Runs(held[a], todo[a], <<>>) /\ held[a] \in Seq(Locks) /\ todo[a] \in Seq(Move)
  BY DEF LocksInv
<1>2. CASE todo[a] # <<>>
  <2>1. PICK next \in Seq(Locks) : Step(held[a], Head(todo[a]), next) /\ Runs(next, Tail(todo[a]), <<>>)
    BY <1>1, <1>2, RunsFirst
  <2>2. PICK m \in Locks :
          \/ Head(todo[a]) = <<"lock", m>> /\ MayAsk(ToSet(held[a]), m) /\ next = Append(held[a], m)
          \/ /\ Head(todo[a]) = <<"unlock", m>> /\ held[a] # <<>> /\ held[a][Len(held[a])] = m
             /\ next = SubSeq(held[a], 1, Len(held[a]) - 1)
    BY <2>1 DEF Step
  <2>3. Tail(todo[a]) \in Seq(Move)
    BY <1>1, <1>2
  <2>4. CASE Asks(a, l)
    <3>1. m = l /\ MayAsk(ToSet(held[a]), l) /\ next = Append(held[a], l) /\ Head(todo[a]) # <<"unlock", l>>
      BY <2>2, <2>4 DEF Asks
    <3> QED
      BY <2>1, <2>3, <3>1
  <2>5. CASE Head(todo[a]) = <<"unlock", l>>
    <3>1. /\ m = l /\ held[a] # <<>> /\ held[a][Len(held[a])] = l /\ next = SubSeq(held[a], 1, Len(held[a]) - 1)
          /\ ~Asks(a, l)
      BY <2>2, <2>5 DEF Asks
    <3> QED
      BY <2>1, <2>3, <3>1 DEF Front
  <2> QED
    BY <2>4, <2>5
<1>3. CASE todo[a] = <<>>
  BY <1>3 DEF Asks
<1> QED
  BY <1>2, <1>3

LEMMA Deeper ==
  ASSUME NEW stack \in Seq(Locks), NEW l \in Locks
  PROVE  ToSet(Append(stack, l)) = ToSet(stack) \cup {l}
<1> DEFINE deeper == Append(stack, l)
<1>1. /\ DOMAIN deeper = 1 .. Len(stack) + 1 /\ DOMAIN stack = 1 .. Len(stack) /\ Len(stack) \in Nat
      /\ deeper[Len(stack) + 1] = l /\ \A k \in 1 .. Len(stack) : deeper[k] = stack[k]
  BY AppendProperties
<1> HIDE DEF deeper
<1>2. ToSet(deeper) \subseteq ToSet(stack) \cup {l}
  BY <1>1 DEF ToSet
<1>3. ToSet(stack) \cup {l} \subseteq ToSet(deeper)
  BY <1>1 DEF ToSet
<1> QED
  BY <1>2, <1>3 DEF deeper

LEMMA Shallower ==
  ASSUME NEW stack \in Seq(Locks), stack # <<>>
  PROVE  ToSet(stack) = ToSet(Front(stack)) \cup {stack[Len(stack)]}
<1>1. Len(stack) \in Nat \ {0} /\ DOMAIN stack = 1 .. Len(stack) /\ \A k \in 1 .. Len(stack) : stack[k] \in Locks
  BY EmptySeq
<1>2. /\ Front(stack) \in Seq(Locks) /\ Len(Front(stack)) = Len(stack) - 1
      /\ \A k \in 1 .. Len(stack) - 1 : Front(stack)[k] = stack[k]
  BY <1>1, SubSeqProperties DEF Front
<1>3. DOMAIN Front(stack) = 1 .. Len(stack) - 1
  BY <1>2
<1>4. ToSet(stack) \subseteq ToSet(Front(stack)) \cup {stack[Len(stack)]}
  BY <1>1, <1>2, <1>3 DEF ToSet
<1>5. ToSet(Front(stack)) \cup {stack[Len(stack)]} \subseteq ToSet(stack)
  BY <1>1, <1>2, <1>3 DEF ToSet
<1> QED
  BY <1>4, <1>5

LEMMA LocksGoOn == LocksInv /\ LocksNext => LocksInv'
<1> SUFFICES ASSUME LocksInv, LocksNext PROVE LocksInv'
  OBVIOUS
<1>0. PICK a \in Actors : (\E o \in Requests : Begin(a, o)) \/ Proceed(a) \/ Fail(a)
  BY DEF LocksNext
<1>1. /\ queue \in [Locks -> Seq(Actors)] /\ held \in [Actors -> Seq(Locks)]
      /\ waiting \in [Actors -> BOOLEAN] /\ todo \in [Actors -> Seq(Move)]
      /\ held[a] \in Seq(Locks) /\ todo[a] \in Seq(Move) /\ waiting[a] \in BOOLEAN
      /\ Runs(held[a], todo[a], <<>>) /\ \A l \in Locks : Queued(l)
  BY DEF LocksInv
<1>2. \A l \in Locks : Awaits(a, l) => ~Inside(a, l)
  <2> SUFFICES ASSUME NEW l \in Locks, Awaits(a, l) PROVE ~Inside(a, l)
    OBVIOUS
  <2>1. PICK m \in Locks : Asks(a, m) /\ ~Inside(a, m)
    BY DEF LocksInv, Awaits
  <2> QED
    BY <2>1, AsksOne DEF Awaits
<1>3. ASSUME NEW o \in Requests, Begin(a, o) PROVE LocksInv'
  <2>1. /\ todo[a] = <<>> /\ todo' = [todo EXCEPT ![a] = Program[o]] /\ UNCHANGED <<queue, held, waiting>>
    BY <1>3 DEF Begin
  <2>2. held[a] = <<>> /\ waiting[a] = FALSE
    <3>1. held[a] = <<>>
      BY <1>1, <2>1, RunsFirst
    <3>2. \A l \in Locks : ~Asks(a, l)
      BY <2>1 DEF Asks
    <3> QED
      BY <1>1, <3>1, <3>2 DEF LocksInv
  <2>3. Runs(<<>>, Program[o], <<>>) /\ Program[o] \in Seq(Move)
    <3>1. Guarded({}, Program[o])
      BY Programmed, RequestsAssumption
    <3>2. <<>> \in Seq(Locks) /\ ToSet(<<>>) = {}
      BY DEF ToSet
    <3> QED
      BY <3>1, <3>2 DEF Guarded, Runs
  <2>4. held' = [held EXCEPT ![a] = held[a]] /\ waiting' = [waiting EXCEPT ![a] = FALSE]
    BY <1>1, <2>1, <2>2
  <2>5. \A l \in Locks : Queued(l)'
    <3> SUFFICES ASSUME NEW l \in Locks PROVE Queued(l)'
      OBVIOUS
    <3>1. ~Awaits(a, l) /\ ~Awaits(a, l)' /\ (Inside(a, l)' <=> Inside(a, l))
      BY <2>1, <2>2 DEF Awaits, Inside
    <3>2. \A b \in Actors : (Inside(b, l)' <=> Inside(b, l)) /\ (Awaits(b, l)' <=> Awaits(b, l))
      BY <2>1, <2>4, <3>1, OthersStay
    <3> QED
      BY <1>1, <2>1, <3>2, QueueStays
  <2> QED
    BY <1>1, <2>1, <2>2, <2>3, <2>4, <2>5, OneMoves
<1>4. ASSUME Fail(a) PROVE LocksInv'
  <2> DEFINE moves == [k \in 1 .. Len(held[a]) |-> <<"unlock", Reverse(held[a])[k]>>]
  <2>1. waiting[a] = FALSE /\ todo' = [todo EXCEPT ![a] = moves] /\ UNCHANGED <<queue, held, waiting>>
    BY <1>1, <1>4 DEF Fail
  <2>2. Runs(held[a], moves, <<>>) /\ moves \in Seq(Move)
    BY <1>1, Unwinds DEF Runs
  <2> HIDE DEF moves
  <2>3. held' = [held EXCEPT ![a] = held[a]] /\ waiting' = [waiting EXCEPT ![a] = FALSE]
    BY <1>1, <2>1
  <2>4. \A l \in Locks : Queued(l)'
    <3> SUFFICES ASSUME NEW l \in Locks PROVE Queued(l)'
      OBVIOUS
    <3>1. ~Awaits(a, l) /\ ~Awaits(a, l)' /\ (Inside(a, l)' <=> Inside(a, l))
      BY <2>1 DEF Awaits, Inside
    <3>2. \A b \in Actors : (Inside(b, l)' <=> Inside(b, l)) /\ (Awaits(b, l)' <=> Awaits(b, l))
      BY <2>1, <2>3, <3>1, OthersStay
    <3> QED
      BY <1>1, <2>1, <3>2, QueueStays
  <2> QED
    BY <1>1, <2>1, <2>2, <2>3, <2>4, OneMoves
<1>5. ASSUME NEW l \in Locks, Enqueue(a, l) PROVE LocksInv'
  <2>1. /\ Asks(a, l) /\ waiting[a] = FALSE /\ ~(Reentrant(l) /\ Inside(a, l))
        /\ queue' = [queue EXCEPT ![l] = Append(queue[l], a)] /\ waiting' = [waiting EXCEPT ![a] = TRUE]
        /\ UNCHANGED <<held, todo>>
    BY <1>1, <1>5 DEF Enqueue
  <2>2. ~Inside(a, l)
    BY <2>1, NextMove DEF MayAsk, Inside
  <2>3. held' = [held EXCEPT ![a] = held[a]] /\ todo' = [todo EXCEPT ![a] = todo[a]]
    BY <1>1, <2>1
  <2>4. /\ \A m \in Locks : (Inside(a, m)' <=> Inside(a, m)) /\ (Asks(a, m)' <=> Asks(a, m))
        /\ \A m \in Locks : ~Awaits(a, m) /\ (Awaits(a, m)' <=> Asks(a, m))
    BY <1>1, <2>1 DEF Inside, Asks, Awaits
  <2>5. \A b \in Actors \ {a}, m \in Locks : (Inside(b, m)' <=> Inside(b, m)) /\ (Awaits(b, m)' <=> Awaits(b, m))
    BY <2>1, <2>3, OthersStay
  <2>6. ASSUME NEW m \in Locks \ {l} PROVE Queued(m)'
    <3>1. queue'[m] = queue[m] /\ ~Asks(a, m)
      BY <1>1, <2>1, <2>6, AsksOne
    <3>2. \A b \in Actors : (Inside(b, m)' <=> Inside(b, m)) /\ (Awaits(b, m)' <=> Awaits(b, m))
      BY <2>4, <2>5, <2>6, <3>1
    <3> QED
      BY <1>1, <2>6, <3>1, <3>2, QueueStays
  <2>7. Queued(l)'
    <3> DEFINE q == queue[l]
               n == Len(q)
    <3>1. /\ q \in Seq(Actors) /\ n \in Nat /\ queue'[l] = Append(q, a) /\ Queued(l)
      BY <1>1, <2>1
    <3>2. /\ Len(Append(q, a)) = n + 1 /\ Append(q, a)[n + 1] = a /\ \A k \in 1 .. n : Append(q, a)[k] = q[k]
          /\ DOMAIN Append(q, a) = 1 .. n + 1 /\ DOMAIN q = 1 .. n
      BY <3>1, AppendProperties
    <3>3. a \notin ToSet(q)
      BY <2>2, <2>4, <3>1 DEF Queued
    <3>4. ToSet(Append(q, a)) = ToSet(q) \cup {a}
      <4> HIDE DEF q, n
      <4>1. ToSet(Append(q, a)) \subseteq ToSet(q) \cup {a}
        BY <3>1, <3>2 DEF ToSet
      <4>2. ToSet(q) \cup {a} \subseteq ToSet(Append(q, a))
        BY <3>1, <3>2 DEF ToSet
      <4> QED
        BY <4>1, <4>2
    <3>5. \A i, j \in 1 .. n + 1 : Append(q, a)[i] = Append(q, a)[j] => i = j
      <4>1. \A i, j \in 1 .. n : q[i] = q[j] => i = j
        BY <3>1 DEF Queued
      <4>2. \A i \in 1 .. n : q[i] # a
        BY <3>2, <3>3 DEF ToSet
      <4> HIDE DEF q, n
      <4> QED
        BY <3>1, <3>2, <4>1, <4>2
    <3>6. \A b \in Actors : b \in ToSet(queue'[l]) <=> (Inside(b, l)' \/ Awaits(b, l)')
      BY <2>1, <2>4, <2>5, <3>1, <3>4 DEF Queued
    <3>7. ASSUME NEW b \in Actors, Inside(b, l)' PROVE queue'[l] # <<>> /\ Head(queue'[l]) = b
      <4>1. Inside(b, l)
        BY <2>4, <2>5, <3>7
      <4>2. q # <<>> /\ Head(q) = b
        BY <3>1, <4>1 DEF Queued
      <4> HIDE DEF q, n
      <4>3. Append(q, a) # <<>> /\ Head(Append(q, a)) = b
        BY <3>1, <3>2, <4>2
      <4> QED
        BY <3>1, <4>3
    <3> HIDE DEF q, n
    <3> QED
      BY <3>1, <3>2, <3>5, <3>6, <3>7 DEF Queued
  <2>8. queue' \in [Locks -> Seq(Actors)] /\ \A m \in Locks : Queued(m)'
    <3>1. Append(queue[l], a) \in Seq(Actors)
      BY <1>1
    <3> QED
      BY <1>1, <2>1, <2>6, <2>7, <3>1
  <2> QED
    BY <1>1, <2>1, <2>2, <2>3, <2>4, <2>8, OneMoves
<1>6. ASSUME NEW l \in Locks, Enter(a, l) PROVE LocksInv'
  <2>1. /\ Awaits(a, l) /\ Asks(a, l) /\ Head(queue[l]) = a /\ ~Inside(a, l)
        /\ held' = [held EXCEPT ![a] = Append(held[a], l)] /\ todo' = [todo EXCEPT ![a] = Tail(todo[a])]
        /\ waiting' = [waiting EXCEPT ![a] = FALSE] /\ queue' = queue
    BY <1>6 DEF Enter, EnterSection, Admitted, Awaits
  <2>2. /\ Append(held[a], l) \in Seq(Locks) /\ Tail(todo[a]) \in Seq(Move)
        /\ Runs(Append(held[a], l), Tail(todo[a]), <<>>)
    BY <2>1, NextMove
  <2>3. \A m \in Locks : (Inside(a, m)' <=> Inside(a, m) \/ m = l) /\ ~Awaits(a, m)'
    <3>1. ToSet(held'[a]) = ToSet(held[a]) \cup {l} /\ waiting'[a] = FALSE
      BY <1>1, <2>1, Deeper
    <3> QED
      BY <3>1 DEF Inside, Awaits
  <2>4. \A m \in Locks : Awaits(a, m) => m = l
    BY <2>1, AsksOne DEF Awaits
  <2>5. \A b \in Actors \ {a}, m \in Locks : (Inside(b, m)' <=> Inside(b, m)) /\ (Awaits(b, m)' <=> Awaits(b, m))
    BY <2>1, OthersStay
  <2>6. ASSUME NEW m \in Locks \ {l} PROVE Queued(m)'
    <3>1. \A b \in Actors : (Inside(b, m)' <=> Inside(b, m)) /\ (Awaits(b, m)' <=> Awaits(b, m))
      BY <2>3, <2>4, <2>5, <2>6
    <3> QED
      BY <1>1, <2>1, <2>6, <3>1, QueueStays
  <2>7. Queued(l)'
    <3>1. Queued(l) /\ queue[l] # <<>>
      <4>1. a \in ToSet(queue[l])
        BY <1>1, <2>1 DEF Queued
      <4> QED
        BY <1>1, <4>1 DEF ToSet
    <3>2. \A b \in Actors : b \in ToSet(queue'[l]) <=> (Inside(b, l)' \/ Awaits(b, l)')
      BY <2>1, <2>3, <2>5, <3>1 DEF Queued
    <3>3. \A b \in Actors : Inside(b, l)' => queue'[l] # <<>> /\ Head(queue'[l]) = b
      BY <2>1, <2>3, <2>5, <3>1 DEF Queued
    <3> QED
      BY <2>1, <3>1, <3>2, <3>3 DEF Queued
  <2> QED
    BY <1>1, <2>1, <2>2, <2>6, <2>7, OneMoves
<1>7. ASSUME NEW l \in Locks, Reenter(a, l) PROVE LocksInv'
  <2>1. /\ Asks(a, l) /\ Inside(a, l) /\ UNCHANGED <<queue, waiting>>
        /\ held' = [held EXCEPT ![a] = Append(held[a], l)] /\ todo' = [todo EXCEPT ![a] = Tail(todo[a])]
    BY <1>7 DEF Reenter, EnterSection
  <2>2. waiting[a] = FALSE
    BY <1>1, <1>2, <2>1 DEF Awaits
  <2>3. waiting' = [waiting EXCEPT ![a] = FALSE]
    BY <1>1, <2>1, <2>2
  <2>4. /\ Append(held[a], l) \in Seq(Locks) /\ Tail(todo[a]) \in Seq(Move)
        /\ Runs(Append(held[a], l), Tail(todo[a]), <<>>)
    BY <2>1, NextMove
  <2>5. \A m \in Locks : (Inside(a, m)' <=> Inside(a, m)) /\ ~Awaits(a, m) /\ ~Awaits(a, m)'
    <3>1. ToSet(held'[a]) = ToSet(held[a]) \cup {l} /\ waiting'[a] = FALSE
      BY <1>1, <2>1, <2>3, Deeper
    <3> QED
      BY <2>1, <2>2, <3>1 DEF Inside, Awaits
  <2>6. \A m \in Locks : Queued(m)'
    <3> SUFFICES ASSUME NEW m \in Locks PROVE Queued(m)'
      OBVIOUS
    <3>1. \A b \in Actors : (Inside(b, m)' <=> Inside(b, m)) /\ (Awaits(b, m)' <=> Awaits(b, m))
      BY <2>1, <2>3, <2>5, OthersStay
    <3> QED
      BY <1>1, <2>1, <3>1, QueueStays
  <2> QED
    BY <1>1, <2>1, <2>3, <2>4, <2>6, OneMoves
<1>8. ASSUME NEW l \in Locks, Leave(a, l) PROVE LocksInv'
  <2> DEFINE rest == Front(held[a])
  <2>1. /\ todo[a] # <<>> /\ Head(todo[a]) = <<"unlock", l>> /\ waiting' = waiting
        /\ held' = [held EXCEPT ![a] = rest] /\ todo' = [todo EXCEPT ![a] = Tail(todo[a])]
        /\ l \in ToSet(rest) => queue' = queue
        /\ l \notin ToSet(rest) => queue' = [queue EXCEPT ![l] = Tail(queue[l])]
    BY <1>8 DEF Leave
  <2>2. /\ held[a] # <<>> /\ held[a][Len(held[a])] = l /\ rest \in Seq(Locks) /\ Tail(todo[a]) \in Seq(Move)
        /\ Runs(rest, Tail(todo[a]), <<>>)
    BY <2>1, NextMove
  <2>3. waiting[a] = FALSE
    BY <1>1, <2>1 DEF LocksInv, Asks
  <2>4. waiting' = [waiting EXCEPT ![a] = FALSE]
    BY <1>1, <2>1, <2>3
  <2>5. ToSet(held[a]) = ToSet(rest) \cup {l} /\ held'[a] = rest
    BY <1>1, <2>1, <2>2, Shallower
  <2> HIDE DEF rest
  <2>6. \A m \in Locks : /\ ~Awaits(a, m) /\ ~Awaits(a, m)'
                         /\ Inside(a, m)' <=> m \in ToSet(rest)
                         /\ Inside(a, m) <=> m \in ToSet(rest) \/ m = l
    BY <1>1, <2>3, <2>4, <2>5 DEF Inside, Awaits
  <2>7. \A b \in Actors \ {a}, m \in Locks : (Inside(b, m)' <=> Inside(b, m)) /\ (Awaits(b, m)' <=> Awaits(b, m))
    BY <2>1, <2>4, OthersStay
  <2>8. ASSUME NEW m \in Locks, m # l \/ l \in ToSet(rest) PROVE Queued(m)'
    <3>1. queue'[m] = queue[m]
      BY <1>1, <2>1, <2>8
    <3>2. \A b \in Actors : (Inside(b, m)' <=> Inside(b, m)) /\ (Awaits(b, m)' <=> Awaits(b, m))
      BY <2>6, <2>7, <2>8
    <3> QED
      BY <1>1, <3>1, <3>2, QueueStays
  <2>9. ASSUME l \notin ToSet(rest) PROVE Queued(l)' /\ queue' \in [Locks -> Seq(Actors)]
    <3> DEFINE q == queue[l]
               n == Len(q)
    <3>1. q \in Seq(Actors) /\ n \in Nat /\ queue'[l] = Tail(q) /\ Queued(l)
      BY <1>1, <2>1, <2>9
    <3>2. q # <<>> /\ Head(q) = a
      BY <2>6, <3>1 DEF Queued
    <3>3. \A i, j \in 1 .. n : q[i] = q[j] => i = j
      BY <3>1 DEF Queued
    <3>4. \A b \in Actors \ {a} : ~Inside(b, l)
      BY <3>1, <3>2 DEF Queued
    <3>5. \A b \in Actors : b \in ToSet(q) <=> Inside(b, l) \/ Awaits(b, l)
      BY <3>1 DEF Queued
    <3> HIDE DEF q, n
    <3>6. /\ n >= 1 /\ q[1] = a /\ Tail(q) \in Seq(Actors) /\ Len(Tail(q)) = n - 1
          /\ \A k \in 1 .. n - 1 : Tail(q)[k] = q[k + 1]
          /\ DOMAIN Tail(q) = 1 .. n - 1 /\ DOMAIN q = 1 .. n
      BY <3>1, <3>2, HeadTailProperties DEF n
    <3>7. ToSet(Tail(q)) = ToSet(q) \ {a}
      <4>1. ToSet(Tail(q)) \subseteq ToSet(q) \ {a}
        <5>1. \A k \in 1 .. n - 1 : k + 1 \in 1 .. n /\ k + 1 # 1 /\ 1 \in 1 .. n
          BY <3>1, <3>6
        <5> QED
          BY <3>3, <3>6, <5>1 DEF ToSet
      <4>2. ToSet(q) \ {a} \subseteq ToSet(Tail(q))
        <5>1. \A k \in 2 .. n : k - 1 \in 1 .. n - 1 /\ Tail(q)[k - 1] = q[k]
          BY <3>1, <3>6
        <5>2. \A k \in 1 .. n : q[k] # a => k \in 2 .. n
          BY <3>1, <3>6
        <5> QED
          BY <3>6, <5>1, <5>2 DEF ToSet
      <4> QED
        BY <4>1, <4>2
    <3>8. \A i, j \in 1 .. n - 1 : Tail(q)[i] = Tail(q)[j] => i = j
      <4> SUFFICES ASSUME NEW i \in 1 .. n - 1, NEW j \in 1 .. n - 1, Tail(q)[i] = Tail(q)[j] PROVE i = j
        OBVIOUS
      <4>1. i + 1 \in 1 .. n /\ j + 1 \in 1 .. n /\ q[i + 1] = q[j + 1]
        BY <3>1, <3>6
      <4>2. i + 1 = j + 1
        BY <3>3, <4>1
      <4> QED
        BY <3>1, <4>2
    <3>9. \A b \in Actors : b \in ToSet(queue'[l]) <=> (Inside(b, l)' \/ Awaits(b, l)')
      BY <2>6, <2>7, <2>9, <3>1, <3>4, <3>5, <3>7
    <3>10. \A b \in Actors : ~Inside(b, l)'
      BY <2>6, <2>7, <2>9, <3>4
    <3>11. Queued(l)'
      BY <3>1, <3>6, <3>8, <3>9, <3>10 DEF Queued
    <3>12. queue' \in [Locks -> Seq(Actors)]
      BY <1>1, <2>1, <2>9, <3>1, <3>6 DEF q
    <3> QED
      BY <3>11, <3>12
  <2>10. queue' \in [Locks -> Seq(Actors)] /\ \A m \in Locks : Queued(m)'
    BY <1>1, <2>1, <2>8, <2>9
  <2> QED
    BY <2>1, <2>2, <2>4, <2>10, OneMoves
<1> QED
  BY <1>0, <1>3, <1>4, <1>5, <1>6, <1>7, <1>8 DEF Proceed

-----------------------------------------------------------------------------
(* Circles.                                                                  *)

\* Who blocks another that is blocked itself is inside what the other waits for.
LEMMA BlockerInside ==
  ASSUME LocksInv, NEW a \in Actors, NEW b \in Actors, NEW c \in Actors, NEW l \in Locks,
         Awaits(a, l), ~Admitted(a, l), Head(queue[l]) = b, BlockedBy(b, c)
  PROVE  Inside(b, l) /\ ~Inside(a, l) /\ b # a
<1>1. Queued(l)
  BY DEF LocksInv
<1>2. \A d \in Actors, m \in Locks : Awaits(d, m) => ~Inside(d, m)
  <2> SUFFICES ASSUME NEW d \in Actors, NEW m \in Locks, Awaits(d, m) PROVE ~Inside(d, m)
    OBVIOUS
  <2>1. PICK k \in Locks : Asks(d, k) /\ ~Inside(d, k)
    BY DEF LocksInv, Awaits
  <2> QED
    BY <2>1, AsksOne DEF Awaits
<1>3. b # a
  BY <1>2 DEF Admitted
<1>4. Inside(b, l) \/ Awaits(b, l)
  <2>1. a \in ToSet(queue[l])
    BY <1>1 DEF Queued
  <2>2. queue[l] \in Seq(Actors) /\ queue[l] # <<>>
    BY <2>1 DEF LocksInv, ToSet
  <2>3. b \in ToSet(queue[l])
    BY <2>2 DEF ToSet
  <2> QED
    BY <1>1, <2>3 DEF Queued
<1>5. ~Awaits(b, l)
  <2> SUFFICES ASSUME Awaits(b, l) PROVE FALSE
    OBVIOUS
  <2>1. PICK m \in Locks : Awaits(b, m) /\ ~Admitted(b, m)
    BY DEF BlockedBy
  <2>2. m = l
    BY <2>1, AsksOne DEF Awaits
  <2> QED
    BY <1>2, <2>1, <2>2 DEF Admitted
<1> QED
  BY <1>2, <1>3, <1>4, <1>5

\* What an operation in a circle asks for: not what it holds, and allowed.
LEMMA WaiterAsks ==
  ASSUME LocksInv, NEW a \in Actors, NEW l \in Locks, Awaits(a, l)
  PROVE  LET inside == ToSet(held[a]) IN
         /\ l \notin inside /\ ("collection" \in inside => "binding" \in inside)
         /\ \/ Ordered(inside, l)
            \/ /\ l \in {"binding", "boundary"} /\ "binding" \notin inside
               /\ inside \cap {"principals", "versions"} # {}
            \/ l = "collection" /\ "binding" \in inside
<1>1. PICK k \in Locks : Asks(a, k) /\ ~Inside(a, k)
  BY DEF LocksInv, Awaits
<1>2. k = l
  BY <1>1, AsksOne DEF Awaits
<1>3. MayAsk(ToSet(held[a]), l)
  BY NextMove DEF Awaits
<1> QED
  BY <1>1, <1>2, <1>3 DEF MayAsk, Inside

LEMMA RankTop ==
  ASSUME NEW L \in SUBSET Locks, L # {} PROVE \E top \in L : \A l \in L : Rank[l] <= Rank[top]
<1>1. \A l \in Locks : Rank[l] \in 1 .. 6
  BY DEF Rank
<1> DEFINE Highest(r) == \E top \in L : Rank[top] = r /\ \A l \in L : Rank[l] <= r
<1>2. \/ Highest(1) \/ Highest(2) \/ Highest(3) \/ Highest(4) \/ Highest(5) \/ Highest(6)
  <2>1. CASE \E l \in L : Rank[l] = 6
    BY <1>1, <2>1
  <2>2. CASE (\A l \in L : Rank[l] < 6) /\ \E l \in L : Rank[l] = 5
    BY <1>1, <2>2
  <2>3. CASE (\A l \in L : Rank[l] < 5) /\ \E l \in L : Rank[l] = 4
    BY <1>1, <2>3
  <2>4. CASE (\A l \in L : Rank[l] < 4) /\ \E l \in L : Rank[l] = 3
    BY <1>1, <2>4
  <2>5. CASE (\A l \in L : Rank[l] < 3) /\ \E l \in L : Rank[l] = 2
    BY <1>1, <2>5
  <2>6. CASE \A l \in L : Rank[l] < 2
    BY <1>1, <2>6
  <2> QED
    BY <1>1, <2>1, <2>2, <2>3, <2>4, <2>5, <2>6
<1> QED
  BY <1>2

LEMMA CirclesExplained ==
  ASSUME LocksInv, NEW S \in SUBSET Actors, Circle(S)
  PROVE  Cardinality(S) > 1 /\ \E a \in S : OutOfOrder(a) /\ \E b \in S : ~OutOfOrder(b)
<1>1. \A a \in S : \E l \in Locks, b \in S : /\ Awaits(a, l) /\ ~Inside(a, l)
                                             /\ Inside(b, l) /\ b # a
  <2> SUFFICES ASSUME NEW a \in S
               PROVE  \E l \in Locks, b \in S : Awaits(a, l) /\ ~Inside(a, l) /\ Inside(b, l) /\ b # a
    OBVIOUS
  <2>1. PICK b \in S : BlockedBy(a, b)
    BY DEF Circle
  <2>2. PICK c \in S : BlockedBy(b, c)
    BY DEF Circle
  <2>3. PICK l \in Locks : Awaits(a, l) /\ ~Admitted(a, l) /\ Head(queue[l]) = b
    BY <2>1 DEF BlockedBy
  <2> QED
    BY <2>2, <2>3, BlockerInside
<1>2. \A a \in S, l \in Locks, m \in Locks : Awaits(a, l) /\ Awaits(a, m) => l = m
  BY AsksOne DEF Awaits
<1>3. \A a \in S, b \in S, l \in Locks : Inside(a, l) /\ Inside(b, l) => a = b
  BY DEF LocksInv, Queued
\* Nobody waits for the collection from inside the binding lock: who is inside the
\* collection and waits holds that lock, too.
<1>4. \A a \in S : ~(Awaits(a, "collection") /\ Inside(a, "binding"))
  <2> SUFFICES ASSUME NEW a \in S, Awaits(a, "collection"), Inside(a, "binding") PROVE FALSE
    OBVIOUS
  <2>1. "collection" \in Locks /\ "binding" \in Locks
    BY DEF Locks
  <2>2. PICK b \in S : Inside(b, "collection") /\ b # a
    BY <1>1, <1>2, <2>1
  <2>3. PICK l \in Locks : Awaits(b, l)
    BY <1>1
  <2>4. Inside(b, "binding")
    BY <2>2, <2>3, WaiterAsks DEF Inside
  <2> QED
    BY <1>3, <2>1, <2>2, <2>4
<1>5. \E a \in S : OutOfOrder(a)
  <2> DEFINE L == {l \in Locks : \E a \in S : Awaits(a, l)}
  <2>1. L # {}
    BY <1>1 DEF Circle
  <2>2. PICK top \in L : \A l \in L : Rank[l] <= Rank[top]
    BY <2>1, RankTop
  <2>3. PICK a \in S : Awaits(a, top)
    OBVIOUS
  <2>4. PICK b \in S : Inside(b, top)
    BY <1>1, <1>2, <2>3
  <2>5. PICK l \in Locks : Awaits(b, l)
    BY <1>1
  <2>6. l \in L /\ Rank[l] <= Rank[top] /\ Rank[l] \in 1 .. 6 /\ Rank[top] \in 1 .. 6
    BY <2>2, <2>5 DEF Rank
  <2>7. ~Ordered(ToSet(held[b]), l)
    BY <2>4, <2>6 DEF Ordered, Inside
  <2>8. l \in {"binding", "boundary"} /\ ToSet(held[b]) \cap {"principals", "versions"} # {}
    BY <1>4, <2>5, <2>7, WaiterAsks DEF Inside
  <2> QED
    BY <2>5, <2>8 DEF OutOfOrder, Inside
<1>6. \E b \in S : ~OutOfOrder(b)
  <2> SUFFICES ASSUME \A b \in S : OutOfOrder(b) PROVE FALSE
    OBVIOUS
  <2>1. \A a \in S : \E l \in {"binding", "boundary"} : Awaits(a, l) /\ ~Inside(a, "binding")
    <3> SUFFICES ASSUME NEW a \in S PROVE \E l \in {"binding", "boundary"} : Awaits(a, l) /\ ~Inside(a, "binding")
      OBVIOUS
    <3>1. PICK l \in {"binding", "boundary"}, m \in {"principals", "versions"} : Awaits(a, l) /\ Inside(a, m)
      BY DEF OutOfOrder
    <3>2. l \in Locks /\ Rank[l] < 4 /\ Rank[m] >= 4 /\ Rank[m] \in Nat /\ Rank[l] \in Nat
      BY DEF Rank, Locks
    <3>3. ~Ordered(ToSet(held[a]), l)
      BY <3>1, <3>2 DEF Ordered, Inside
    <3>4. "binding" \notin ToSet(held[a])
      BY <3>1, <3>2, <3>3, WaiterAsks
    <3> QED
      BY <3>1, <3>4 DEF Inside
  <2>2. "binding" \in Locks /\ "boundary" \in Locks
    BY DEF Locks
  <2>3. \A a \in S : ~Awaits(a, "binding")
    BY <1>1, <1>2, <2>1, <2>2
  <2>4. PICK a \in S : TRUE
    BY DEF Circle
  <2>5. Awaits(a, "boundary")
    BY <2>1, <2>3
  <2>6. PICK b \in S : Inside(b, "boundary")
    BY <1>1, <1>2, <2>2, <2>5
  <2>7. Awaits(b, "boundary")
    BY <2>1, <2>3
  <2> QED
    BY <2>2, <2>6, <2>7, WaiterAsks DEF Inside
<1>7. Cardinality(S) > 1
  <2>1. PICK a \in S, b \in S : a # b
    BY <1>5, <1>6
  <2>2. IsFiniteSet(S)
    BY RequestsAssumption, FS_Subset
  <2>3. Cardinality({a, b}) = 2
    <3>1. IsFiniteSet({a}) /\ Cardinality({a}) = 1
      BY FS_Singleton
    <3>2. {a, b} = {a} \cup {b} /\ b \notin {a}
      BY <2>1
    <3>3. Cardinality({a} \cup {b}) = Cardinality({a}) + 1
      BY <3>1, <3>2, FS_AddElement, Zenon
    <3> QED
      BY <3>1, <3>2, <3>3
  <2>4. Cardinality({a, b}) <= Cardinality(S) /\ Cardinality(S) \in Nat
    BY <2>1, <2>2, FS_Subset, FS_CardinalityType
  <2> QED
    BY <2>3, <2>4
<1> QED
  BY <1>5, <1>6, <1>7

\* Operations wait for each other in a circle, and none for itself, only where one of
\* them asks for a coordinator from inside the queue of principals or of versions and
\* another has taken both in their order (binding-commit-coordinator.js, the queues of
\* the services): for any number of requests and any choice of operations.
THEOREM CirclesAskOutOfOrder == LocksSpec => []CirclesAreOutOfOrder
<1>1. LocksInv /\ UNCHANGED lockVars => LocksInv'
  <2> SUFFICES ASSUME LocksInv, UNCHANGED lockVars PROVE LocksInv'
    OBVIOUS
  <2>1. queue' = queue /\ held' = held /\ waiting' = waiting /\ todo' = todo
    BY DEF lockVars
  <2>2. ASSUME NEW l \in Locks PROVE Queued(l)'
    BY <2>1 DEF LocksInv, Queued, Inside, Awaits, Asks
  <2>3. ASSUME NEW a \in Actors, waiting'[a] PROVE \E l \in Locks : Asks(a, l)' /\ ~Inside(a, l)'
    BY <2>1, <2>3 DEF LocksInv, Inside, Asks
  <2> QED
    BY <2>1, <2>2, <2>3 DEF LocksInv
<1>2. LocksInv => CirclesAreOutOfOrder
  BY CirclesExplained DEF CirclesAreOutOfOrder
<1> QED
  BY LocksStart, LocksGoOn, <1>1, <1>2, PTL DEF LocksSpec

=============================================================================
