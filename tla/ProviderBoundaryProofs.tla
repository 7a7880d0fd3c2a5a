------------------------ MODULE ProviderBoundaryProofs ------------------------
(***************************************************************************)
(* What the two sides of the provider framework promise: CustomProviders   *)
(* for any profiles and any number of mutations and faults, ProviderCalls  *)
(* for any set of calls, any answers of the name lookups and any policy.   *)
(* The sides share no state, so each has its invariant.                    *)
(*                                                                         *)
(* A mutation is between two agreements of registry and file: the          *)
(* invariant says, stage by stage, how far apart it has taken them and     *)
(* what it remembers to bring them together again.  A deletion owns the    *)
(* binding lock meanwhile, a registration while it saves.                  *)
(*                                                                         *)
(* A call carries what it read, what was judged for its request and what   *)
(* its renewal gave and took: the invariant says what it carries at which  *)
(* stage, that a number is given out once, and that the stored token is    *)
(* accepted, spent by a call under way, or lost by one that did not store. *)
(***************************************************************************)
EXTENDS CustomProviders, ProviderCalls, TLAPS

Stages == {"idle", "load", "check", "save", "audit", "undo"}
FileStates == Definitions \cup {NoDefinition}
Mutation == [kind : Kinds \cup {"none"}, at : Stages, next : FileStates, was : FileStates,
             listed : BOOLEAN]

TypeOK ==
  /\ stored \in FileStates /\ registered \in Profiles \cup {None}
  /\ cred \in Profiles \cup {None} /\ granted \in BOOLEAN
  /\ reg \in [at : {"idle", "lock", "save"}, profile : Profiles \cup {None}]
  /\ op \in Mutation
  /\ lock \in {None, "reg", "op"} /\ drift \in BOOLEAN

\* What the mutation knows of the file.
FileFits ==
  /\ op.kind = "none" <=> op.at = "idle"
  /\ op.at = "idle" => op = NoOp
  /\ op.at # "idle" => op.next \in Definitions
  /\ op.at \in {"load", "check"} => op.was = stored
  /\ op.at = "check" => op.kind \in {"update", "delete"}
  /\ op.kind = "delete" => op.at # "undo"
  /\ op.kind = "update" /\ op.at # "load" => op.was # NoDefinition
  /\ At("update", "save") \/ At("delete", "save") => op.was = stored
  /\ At("update", "audit") => stored.enabled = op.was.enabled
  /\ At("disable", "save") => stored.enabled /\ op.was = stored
  /\ At("disable", "audit") \/ At("disable", "undo") =>
       op.was.enabled /\ stored = [op.was EXCEPT !.enabled = FALSE]
  /\ op.kind = "enable" /\ op.at # "load" => stored # NoDefinition
  /\ At("enable", "audit") => stored.enabled
  /\ At("delete", "audit") => stored = NoDefinition

\* How far the registry is from the file, unless an earlier mutation left them apart.
RegistryFits ==
  /\ \/ op.at \in {"idle", "load", "check"}
     \/ At("create", "save") \/ At("disable", "save")
     \/ At("update", "audit") \/ At("enable", "audit")
     \/ At("disable", "audit") \/ At("disable", "undo")
     \/ At("delete", "audit")
     => registered = Hydrated(stored)
  /\ At("create", "save") \/ At("create", "undo") \/ At("update", "save") \/ At("enable", "undo")
       \/ At("delete", "save") => registered = None
  /\ At("create", "audit") \/ At("enable", "save") => registered = Projected(stored)
  /\ op.kind = "update" /\ op.at \in {"save", "audit", "undo"} => op.listed = op.was.enabled
  /\ op.kind = "delete" /\ op.at \in {"save", "audit"} => op.listed = op.was.enabled
  /\ At("update", "undo") /\ ~op.listed => registered = None

\* Who owns the binding lock.
LockFits ==
  /\ lock = "op" <=> op.kind = "delete" /\ op.at # "load"
  /\ lock = "reg" <=> reg.at = "save"
  /\ op.kind = "delete" /\ op.at \in {"save", "audit"} => cred = None /\ ~granted

IInv == TypeOK /\ FileFits /\ (~drift => RegistryFits) /\ LockFits
-----------------------------------------------------------------------------
LEMMA Definite ==
  /\ NoDefinition \notin Definitions
  /\ \A d \in FileStates : Hydrated(d) \in Profiles \cup {None}
  /\ \A d \in Definitions : Hydrated(d) = None <=> ~d.enabled
BY ProfilesAssumption DEF NoDefinition, Definitions, FileStates, Hydrated, Projected

\* The mutation goes on to another stage.
LEMMA GotoFields ==
  ASSUME TypeOK, NEW s \in Stages, Goto(s)
  PROVE  /\ op' \in Mutation
         /\ op'.at = s /\ op'.kind = op.kind /\ op'.next = op.next /\ op'.was = op.was
         /\ op'.listed = op.listed
BY DEF TypeOK, Goto, Mutation

LEMMA CheckedFields ==
  ASSUME TypeOK, op' = [op EXCEPT !.at = "save", !.listed = (registered # None)]
  PROVE  /\ op' \in Mutation
         /\ op'.at = "save" /\ op'.kind = op.kind /\ op'.next = op.next /\ op'.was = op.was
         /\ op'.listed = (registered # None)
<1> DEFINE on == registered # None
<1>1. on \in BOOLEAN
  OBVIOUS
<1> HIDE DEF on
<1> QED
  BY <1>1 DEF TypeOK, Mutation, Stages, on

LEMMA NoOpFields ==
  /\ NoOp \in Mutation /\ NoOp.at = "idle" /\ NoOp.kind = "none"
BY DEF NoOp, Mutation, FileStates, Stages, Kinds

\* A mutation that ends agrees with the file, or says that it does not.
LEMMA EndKeeps ==
  ASSUME IInv, NEW apart \in BOOLEAN, End(apart), op.at # "idle",
         stored' \in FileStates, registered' \in Profiles \cup {None},
         ~drift /\ ~apart => registered' = Hydrated(stored'),
         UNCHANGED <<cred, granted, reg>>
  PROVE  IInv'
<1>1. TypeOK'
  BY NoOpFields DEF IInv, TypeOK, End, ReleaseOp
<1>2. FileFits'
  BY NoOpFields DEF End, FileFits, At
<1>3. (~drift => RegistryFits)'
  <2>1. op' = NoOp /\ (~drift' => registered' = Hydrated(stored'))
    BY DEF End
  <2>2. op'.at = "idle" /\ op'.kind = "none"
    BY <2>1, NoOpFields
  <2> QED
    BY <2>1, <2>2 DEF RegistryFits, At, Hydrated, Projected
<1>4. LockFits'
  BY NoOpFields, ProfilesAssumption DEF End, ReleaseOp, LockFits, IInv, TypeOK
<1> QED
  BY <1>1, <1>2, <1>3, <1>4 DEF IInv

-----------------------------------------------------------------------------
(* The mutation takes a step.                                               *)

LEMMA StagesKeep ==
  ASSUME IInv,
         \/ CheckCreate
         \/ SaveCreated
         \/ CreateAuditFails
         \/ LoadUpdate
         \/ CheckUpdate
         \/ SaveUpdated
         \/ UpdateFails
         \/ LoadDisable
         \/ SaveDisabled
         \/ DisableAuditFails
         \/ LoadEnable
         \/ SaveEnabled
         \/ EnableFails
         \/ CheckDelete
         \/ SaveDeleted
  PROVE  IInv'
<1> USE Definite DEF definitions, dependants, NoFault, Fault, counters
<1> USE DEF At, Stages, FileStates, Definitions, NoDefinition, Definition, Edited, Projected, Hydrated
<1>0. TypeOK /\ op \in Mutation /\ FileFits /\ LockFits /\ (~drift => RegistryFits)
  BY DEF IInv, TypeOK
<1>1. CASE CheckCreate
  <2>1. TypeOK'
    BY <1>0, <1>1, GotoFields DEF CheckCreate, TypeOK, FileFits
  <2>2. FileFits'
    BY <1>0, <1>1, GotoFields DEF CheckCreate, TypeOK, FileFits, Mutation, Kinds
  <2>3. (~drift => RegistryFits)'
    BY <1>0, <1>1, GotoFields DEF CheckCreate, TypeOK, FileFits, RegistryFits
  <2>4. LockFits'
    <3>1. /\ UNCHANGED <<cred, granted, reg, lock>> /\ op'.kind = op.kind
          /\ op.at # "load" \/ op.kind # "delete"
      BY <1>0, <1>1, GotoFields DEF CheckCreate
    <3> QED
      BY <1>0, <1>1, <3>1, GotoFields DEF CheckCreate, FileFits, LockFits
  <2> QED
    BY <2>1, <2>2, <2>3, <2>4 DEF IInv
<1>2. CASE SaveCreated
  <2>1. TypeOK'
    BY <1>0, <1>2, GotoFields DEF SaveCreated, TypeOK, FileFits
  <2>2. FileFits'
    BY <1>0, <1>2, GotoFields DEF SaveCreated, TypeOK, FileFits, Mutation, Kinds
  <2>3. (~drift => RegistryFits)'
    BY <1>0, <1>2, GotoFields DEF SaveCreated, TypeOK, FileFits, RegistryFits
  <2>4. LockFits'
    <3>1. /\ UNCHANGED <<cred, granted, reg, lock>> /\ op'.kind = op.kind
          /\ op.at # "load" \/ op.kind # "delete"
      BY <1>0, <1>2, GotoFields DEF SaveCreated
    <3> QED
      BY <1>0, <1>2, <3>1, GotoFields DEF SaveCreated, FileFits, LockFits
  <2> QED
    BY <2>1, <2>2, <2>3, <2>4 DEF IInv
<1>3. CASE CreateAuditFails
  <2>1. TypeOK'
    BY <1>0, <1>3, GotoFields DEF CreateAuditFails, TypeOK, FileFits
  <2>2. FileFits'
    BY <1>0, <1>3, GotoFields DEF CreateAuditFails, TypeOK, FileFits, Mutation, Kinds
  <2>3. (~drift => RegistryFits)'
    BY <1>0, <1>3, GotoFields DEF CreateAuditFails, TypeOK, FileFits, RegistryFits
  <2>4. LockFits'
    <3>1. /\ UNCHANGED <<cred, granted, reg, lock>> /\ op'.kind = op.kind
          /\ op.at # "load" \/ op.kind # "delete"
      BY <1>0, <1>3, GotoFields DEF CreateAuditFails
    <3> QED
      BY <1>0, <1>3, <3>1, GotoFields DEF CreateAuditFails, FileFits, LockFits
  <2> QED
    BY <2>1, <2>2, <2>3, <2>4 DEF IInv
<1>4. CASE LoadUpdate
  <2>1. TypeOK'
    BY <1>0, <1>4, GotoFields DEF LoadUpdate, TypeOK, FileFits
  <2>2. FileFits'
    BY <1>0, <1>4, GotoFields DEF LoadUpdate, TypeOK, FileFits, Mutation, Kinds
  <2>3. (~drift => RegistryFits)'
    BY <1>0, <1>4, GotoFields DEF LoadUpdate, TypeOK, FileFits, RegistryFits
  <2>4. LockFits'
    <3>1. /\ UNCHANGED <<cred, granted, reg, lock>> /\ op'.kind = op.kind
          /\ op.at # "load" \/ op.kind # "delete"
      BY <1>0, <1>4, GotoFields DEF LoadUpdate
    <3> QED
      BY <1>0, <1>4, <3>1, GotoFields DEF LoadUpdate, FileFits, LockFits
  <2> QED
    BY <2>1, <2>2, <2>3, <2>4 DEF IInv
<1>5. CASE CheckUpdate
  <2>1. TypeOK'
    BY <1>0, <1>5, CheckedFields DEF CheckUpdate, TypeOK, FileFits
  <2>2. FileFits'
    BY <1>0, <1>5, CheckedFields DEF CheckUpdate, TypeOK, FileFits, Mutation, Kinds
  <2>3. (~drift => RegistryFits)'
    BY <1>0, <1>5, CheckedFields DEF CheckUpdate, TypeOK, FileFits, RegistryFits
  <2>4. LockFits'
    <3>1. /\ UNCHANGED <<cred, granted, reg, lock>> /\ op'.kind = op.kind
          /\ op.at # "load" \/ op.kind # "delete"
      BY <1>0, <1>5, CheckedFields DEF CheckUpdate
    <3> QED
      BY <1>0, <1>5, <3>1, CheckedFields DEF CheckUpdate, FileFits, LockFits
  <2> QED
    BY <2>1, <2>2, <2>3, <2>4 DEF IInv
<1>6. CASE SaveUpdated
  <2>1. TypeOK'
    BY <1>0, <1>6, GotoFields DEF SaveUpdated, TypeOK, FileFits
  <2>2. FileFits'
    BY <1>0, <1>6, GotoFields DEF SaveUpdated, TypeOK, FileFits, Mutation, Kinds
  <2>3. (~drift => RegistryFits)'
    BY <1>0, <1>6, GotoFields DEF SaveUpdated, TypeOK, FileFits, RegistryFits
  <2>4. LockFits'
    <3>1. /\ UNCHANGED <<cred, granted, reg, lock>> /\ op'.kind = op.kind
          /\ op.at # "load" \/ op.kind # "delete"
      BY <1>0, <1>6, GotoFields DEF SaveUpdated
    <3> QED
      BY <1>0, <1>6, <3>1, GotoFields DEF SaveUpdated, FileFits, LockFits
  <2> QED
    BY <2>1, <2>2, <2>3, <2>4 DEF IInv
<1>7. CASE UpdateFails
  <2>1. TypeOK'
    BY <1>0, <1>7, GotoFields DEF UpdateFails, TypeOK, FileFits
  <2>2. FileFits'
    BY <1>0, <1>7, GotoFields DEF UpdateFails, TypeOK, FileFits, Mutation, Kinds
  <2>3. (~drift => RegistryFits)'
    BY <1>0, <1>7, GotoFields DEF UpdateFails, TypeOK, FileFits, RegistryFits
  <2>4. LockFits'
    <3>1. /\ UNCHANGED <<cred, granted, reg, lock>> /\ op'.kind = op.kind
          /\ op.at # "load" \/ op.kind # "delete"
      BY <1>0, <1>7, GotoFields DEF UpdateFails
    <3> QED
      BY <1>0, <1>7, <3>1, GotoFields DEF UpdateFails, FileFits, LockFits
  <2> QED
    BY <2>1, <2>2, <2>3, <2>4 DEF IInv
<1>8. CASE LoadDisable
  <2>1. TypeOK'
    BY <1>0, <1>8, GotoFields DEF LoadDisable, TypeOK, FileFits
  <2>2. FileFits'
    BY <1>0, <1>8, GotoFields DEF LoadDisable, TypeOK, FileFits, Mutation, Kinds
  <2>3. (~drift => RegistryFits)'
    BY <1>0, <1>8, GotoFields DEF LoadDisable, TypeOK, FileFits, RegistryFits
  <2>4. LockFits'
    <3>1. /\ UNCHANGED <<cred, granted, reg, lock>> /\ op'.kind = op.kind
          /\ op.at # "load" \/ op.kind # "delete"
      BY <1>0, <1>8, GotoFields DEF LoadDisable
    <3> QED
      BY <1>0, <1>8, <3>1, GotoFields DEF LoadDisable, FileFits, LockFits
  <2> QED
    BY <2>1, <2>2, <2>3, <2>4 DEF IInv
<1>9. CASE SaveDisabled
  <2>1. TypeOK'
    BY <1>0, <1>9, GotoFields DEF SaveDisabled, TypeOK, FileFits
  <2>2. FileFits'
    BY <1>0, <1>9, GotoFields DEF SaveDisabled, TypeOK, FileFits, Mutation, Kinds
  <2>3. (~drift => RegistryFits)'
    BY <1>0, <1>9, GotoFields DEF SaveDisabled, TypeOK, FileFits, RegistryFits
  <2>4. LockFits'
    <3>1. /\ UNCHANGED <<cred, granted, reg, lock>> /\ op'.kind = op.kind
          /\ op.at # "load" \/ op.kind # "delete"
      BY <1>0, <1>9, GotoFields DEF SaveDisabled
    <3> QED
      BY <1>0, <1>9, <3>1, GotoFields DEF SaveDisabled, FileFits, LockFits
  <2> QED
    BY <2>1, <2>2, <2>3, <2>4 DEF IInv
<1>10. CASE DisableAuditFails
  <2>1. TypeOK'
    BY <1>0, <1>10, GotoFields DEF DisableAuditFails, TypeOK, FileFits
  <2>2. FileFits'
    BY <1>0, <1>10, GotoFields DEF DisableAuditFails, TypeOK, FileFits, Mutation, Kinds
  <2>3. (~drift => RegistryFits)'
    BY <1>0, <1>10, GotoFields DEF DisableAuditFails, TypeOK, FileFits, RegistryFits
  <2>4. LockFits'
    <3>1. /\ UNCHANGED <<cred, granted, reg, lock>> /\ op'.kind = op.kind
          /\ op.at # "load" \/ op.kind # "delete"
      BY <1>0, <1>10, GotoFields DEF DisableAuditFails
    <3> QED
      BY <1>0, <1>10, <3>1, GotoFields DEF DisableAuditFails, FileFits, LockFits
  <2> QED
    BY <2>1, <2>2, <2>3, <2>4 DEF IInv
<1>11. CASE LoadEnable
  <2>1. TypeOK'
    BY <1>0, <1>11, GotoFields DEF LoadEnable, TypeOK, FileFits
  <2>2. FileFits'
    BY <1>0, <1>11, GotoFields DEF LoadEnable, TypeOK, FileFits, Mutation, Kinds
  <2>3. (~drift => RegistryFits)'
    BY <1>0, <1>11, GotoFields DEF LoadEnable, TypeOK, FileFits, RegistryFits
  <2>4. LockFits'
    <3>1. /\ UNCHANGED <<cred, granted, reg, lock>> /\ op'.kind = op.kind
          /\ op.at # "load" \/ op.kind # "delete"
      BY <1>0, <1>11, GotoFields DEF LoadEnable
    <3> QED
      BY <1>0, <1>11, <3>1, GotoFields DEF LoadEnable, FileFits, LockFits
  <2> QED
    BY <2>1, <2>2, <2>3, <2>4 DEF IInv
<1>12. CASE SaveEnabled
  <2>1. TypeOK'
    BY <1>0, <1>12, GotoFields DEF SaveEnabled, TypeOK, FileFits
  <2>2. FileFits'
    BY <1>0, <1>12, GotoFields DEF SaveEnabled, TypeOK, FileFits, Mutation, Kinds
  <2>3. (~drift => RegistryFits)'
    BY <1>0, <1>12, GotoFields DEF SaveEnabled, TypeOK, FileFits, RegistryFits
  <2>4. LockFits'
    <3>1. /\ UNCHANGED <<cred, granted, reg, lock>> /\ op'.kind = op.kind
          /\ op.at # "load" \/ op.kind # "delete"
      BY <1>0, <1>12, GotoFields DEF SaveEnabled
    <3> QED
      BY <1>0, <1>12, <3>1, GotoFields DEF SaveEnabled, FileFits, LockFits
  <2> QED
    BY <2>1, <2>2, <2>3, <2>4 DEF IInv
<1>13. CASE EnableFails
  <2>1. TypeOK'
    BY <1>0, <1>13, GotoFields DEF EnableFails, TypeOK, FileFits
  <2>2. FileFits'
    BY <1>0, <1>13, GotoFields DEF EnableFails, TypeOK, FileFits, Mutation, Kinds
  <2>3. (~drift => RegistryFits)'
    BY <1>0, <1>13, GotoFields DEF EnableFails, TypeOK, FileFits, RegistryFits
  <2>4. LockFits'
    <3>1. /\ UNCHANGED <<cred, granted, reg, lock>> /\ op'.kind = op.kind
          /\ op.at # "load" \/ op.kind # "delete"
      BY <1>0, <1>13, GotoFields DEF EnableFails
    <3> QED
      BY <1>0, <1>13, <3>1, GotoFields DEF EnableFails, FileFits, LockFits
  <2> QED
    BY <2>1, <2>2, <2>3, <2>4 DEF IInv
<1>14. CASE CheckDelete
  <2>1. TypeOK'
    BY <1>0, <1>14, CheckedFields DEF CheckDelete, TypeOK, FileFits
  <2>2. FileFits'
    BY <1>0, <1>14, CheckedFields DEF CheckDelete, TypeOK, FileFits, Mutation, Kinds
  <2>3. (~drift => RegistryFits)'
    BY <1>0, <1>14, CheckedFields DEF CheckDelete, TypeOK, FileFits, RegistryFits
  <2>4. LockFits'
    <3>1. /\ UNCHANGED <<cred, granted, reg, lock>> /\ op'.kind = op.kind
          /\ op.at # "load" \/ op.kind # "delete"
      BY <1>0, <1>14, CheckedFields DEF CheckDelete
    <3> QED
      BY <1>0, <1>14, <3>1, CheckedFields DEF CheckDelete, FileFits, LockFits
  <2> QED
    BY <2>1, <2>2, <2>3, <2>4 DEF IInv
<1>15. CASE SaveDeleted
  <2>1. TypeOK'
    BY <1>0, <1>15, GotoFields DEF SaveDeleted, TypeOK, FileFits
  <2>2. FileFits'
    BY <1>0, <1>15, GotoFields DEF SaveDeleted, TypeOK, FileFits, Mutation, Kinds
  <2>3. (~drift => RegistryFits)'
    BY <1>0, <1>15, GotoFields DEF SaveDeleted, TypeOK, FileFits, RegistryFits
  <2>4. LockFits'
    <3>1. /\ UNCHANGED <<cred, granted, reg, lock>> /\ op'.kind = op.kind
          /\ op.at # "load" \/ op.kind # "delete"
      BY <1>0, <1>15, GotoFields DEF SaveDeleted
    <3> QED
      BY <1>0, <1>15, <3>1, GotoFields DEF SaveDeleted, FileFits, LockFits
  <2> QED
    BY <2>1, <2>2, <2>3, <2>4 DEF IInv
<1> QED
  BY <1>1, <1>2, <1>3, <1>4, <1>5, <1>6, <1>7, <1>8, <1>9, <1>10, <1>11, <1>12, <1>13, <1>14, <1>15

\* The mutation ends: it is refused, or succeeds, or fails, or is undone.
LEMMA EndsKeep ==
  ASSUME IInv,
         \/ Refusals
         \/ \E kind \in Kinds : \/ StoreFails(kind)
                                \/ AuditSucceeds(kind, kind = "create" /\ ~stored.enabled)
         \/ UndoFails \/ UndoCreate \/ UndoUpdate \/ UndoDisable \/ UndoEnable \/ DeleteFails
  PROVE  IInv'
<1> USE Definite DEF definitions, dependants
<1> USE DEF At, FileStates, Definitions, NoDefinition, Definition, Edited, Projected, Hydrated
<1>0. TypeOK /\ op \in Mutation /\ FileFits /\ LockFits /\ (~drift => RegistryFits)
  BY DEF IInv, TypeOK
<1> DEFINE Ends(apart) ==
      /\ apart \in BOOLEAN /\ End(apart) /\ op.at # "idle"
      /\ stored' \in FileStates /\ registered' \in Profiles \cup {None}
      /\ ~drift /\ ~apart => registered' = Hydrated(stored')
      /\ UNCHANGED <<cred, granted, reg>>
<1>1. SUFFICES \E apart \in BOOLEAN : Ends(apart)
  BY EndKeeps
<1>2. ASSUME NEW kind, NEW stage, NEW why, Refuse(kind, stage, why),
             stage \in {"load", "check"} \/ (kind = "create" /\ stage = "save")
      PROVE  Ends(FALSE)
  BY <1>0, <1>2 DEF Refuse, TypeOK, RegistryFits
<1>3. CASE Refusals
  BY <1>2, <1>3 DEF Refusals
<1>4. ASSUME NEW kind \in Kinds, StoreFails(kind) PROVE Ends(FALSE)
  BY <1>0, <1>4 DEF StoreFails, TypeOK, RegistryFits
<1>5. ASSUME NEW kind \in Kinds, AuditSucceeds(kind, kind = "create" /\ ~stored.enabled)
      PROVE  Ends(kind = "create" /\ ~stored.enabled)
  BY <1>0, <1>5 DEF AuditSucceeds, TypeOK, FileFits, RegistryFits, Kinds
<1>6. CASE UndoFails
  <2>1. Ends(TRUE)
    BY <1>0, <1>6 DEF UndoFails, TypeOK
  <2> QED
    BY <2>1
<1>7. CASE UndoCreate
  <2>1. Ends(FALSE)
    BY <1>0, <1>7 DEF UndoCreate, TypeOK, RegistryFits
  <2> QED
    BY <2>1
<1>8. CASE UndoUpdate
  <2>1. Ends(op.listed /\ registered # None)
    BY <1>0, <1>8, ProfilesAssumption DEF UndoUpdate, TypeOK, Mutation, FileFits, RegistryFits
  <2> QED
    BY <2>1
<1>9. CASE UndoDisable
  <2>1. Ends(FALSE)
    BY <1>0, <1>9 DEF UndoDisable, UndoneDisable, TypeOK, Mutation, FileFits, RegistryFits
  <2> QED
    BY <2>1
<1>10. CASE UndoEnable
  <2>1. Ends(FALSE)
    BY <1>0, <1>10 DEF UndoEnable, TypeOK, FileFits, RegistryFits
  <2> QED
    BY <2>1
<1>11. CASE DeleteFails
  <2>1. Ends(op.at = "audit" /\ op.listed)
    BY <1>0, <1>11 DEF DeleteFails, TypeOK, Mutation, FileFits, RegistryFits
  <2> QED
    BY <2>1
<1> QED
  BY <1>3, <1>4, <1>5, <1>6, <1>7, <1>8, <1>9, <1>10, <1>11

LEMMA BeginKeeps ==
  ASSUME IInv, NEW kind \in Kinds, Begin(kind)
  PROVE  IInv'
<1>1. PICK d \in Definitions :
        op' = [NoOp EXCEPT !.kind = kind, !.at = "load", !.next = d, !.was = stored]
  BY DEF Begin
<1> DEFINE new == [NoOp EXCEPT !.kind = kind, !.at = "load", !.next = d, !.was = stored]
<1>2. /\ new \in Mutation
      /\ new.kind = kind /\ new.at = "load" /\ new.next = d /\ new.was = stored
      /\ op' = new
  BY <1>1 DEF NoOp, Mutation, FileStates, Stages, IInv, TypeOK
<1> HIDE DEF new
<1>3. /\ op = NoOp /\ op.at = "idle" /\ op.kind = "none"
      /\ UNCHANGED <<stored, registered, cred, granted, reg, lock, drift>>
  BY NoOpFields DEF Begin, definitions, dependants
<1>4. TypeOK'
  BY <1>2, <1>3 DEF IInv, TypeOK
<1>5. FileFits'
  BY <1>2, <1>3 DEF FileFits, At, Kinds
<1>6. (~drift => RegistryFits)'
  BY <1>2, <1>3 DEF IInv, RegistryFits, At, Hydrated, Projected
<1>7. LockFits'
  BY <1>2, <1>3 DEF IInv, LockFits
<1> QED
  BY <1>4, <1>5, <1>6, <1>7 DEF IInv

LEMMA LockDeleteKeeps == ASSUME IInv, LockDelete PROVE IInv'
<1>1. /\ TypeOK /\ FileFits /\ (~drift => RegistryFits) /\ LockFits
      /\ op \in Mutation /\ op.kind = "delete" /\ op.at = "load" /\ lock = None /\ lock' = "op"
      /\ op' = [op EXCEPT !.at = "check", !.was = stored]
      /\ UNCHANGED <<stored, registered, cred, granted, reg, drift>>
  BY DEF LockDelete, LockTaken, At, IInv, TypeOK, definitions, dependants
<1>2. /\ op' \in Mutation /\ op'.kind = "delete" /\ op'.at = "check"
      /\ op'.next = op.next /\ op'.was = stored
  BY <1>1 DEF Mutation, Stages, TypeOK
<1>3. TypeOK'
  BY <1>1, <1>2 DEF TypeOK
<1>4. FileFits'
  BY <1>1, <1>2 DEF FileFits, At
<1>5. (~drift => RegistryFits)'
  BY <1>1, <1>2 DEF RegistryFits, At, Hydrated, Projected
<1>6. LockFits'
  BY <1>1, <1>2, ProfilesAssumption DEF LockFits
<1> QED
  BY <1>3, <1>4, <1>5, <1>6 DEF IInv

-----------------------------------------------------------------------------
(* The dependants, and a restart.                                           *)

LEMMA DependantsKeep ==
  ASSUME IInv, BeginRegister \/ LockRegister \/ SaveRegistered \/ GrantOrDelete
  PROVE  IInv'
<1> USE DEF definitions
<1>1. /\ TypeOK /\ FileFits /\ (~drift => RegistryFits) /\ LockFits
      /\ UNCHANGED <<stored, registered, op, drift>>
  BY DEF IInv, BeginRegister, LockRegister, SaveRegistered, GrantOrDelete
<1>2. /\ cred' \in Profiles \cup {None} /\ granted' \in BOOLEAN
      /\ reg' \in [at : {"idle", "lock", "save"}, profile : Profiles \cup {None}]
      /\ lock' \in {None, "reg", "op"}
      /\ lock' = "reg" <=> reg'.at = "save"
      /\ lock' = "op" <=> lock = "op"
      /\ lock = "op" => UNCHANGED <<cred, granted>>
  <2>1. CASE BeginRegister
    BY <1>1, <2>1, ProfilesAssumption DEF BeginRegister, TypeOK, NoReg, LockFits
  <2>2. CASE LockRegister
    BY <1>1, <2>2, ProfilesAssumption DEF LockRegister, TypeOK, NoReg, LockFits
  <2>3. CASE SaveRegistered
    BY <1>1, <2>3, ProfilesAssumption DEF SaveRegistered, TypeOK, NoReg, LockFits
  <2>4. CASE GrantOrDelete
    BY <1>1, <2>4, ProfilesAssumption DEF GrantOrDelete, TypeOK, LockFits
  <2> QED
    BY <2>1, <2>2, <2>3, <2>4
<1>3. TypeOK'
  BY <1>1, <1>2 DEF TypeOK
<1>4. FileFits' /\ (~drift => RegistryFits)'
  BY <1>1 DEF FileFits, RegistryFits, At, Hydrated, Projected
<1>5. LockFits'
  BY <1>1, <1>2 DEF LockFits
<1> QED
  BY <1>3, <1>4, <1>5 DEF IInv

LEMMA RestartKeeps == ASSUME IInv, Restart PROVE IInv'
<1>1. /\ TypeOK /\ UNCHANGED <<stored, cred, granted>>
      /\ registered' = Hydrated(stored) /\ reg' = NoReg /\ op' = NoOp /\ lock' = None /\ drift' = FALSE
  BY DEF IInv, Restart
<1>2. TypeOK'
  BY <1>1, Definite, NoOpFields DEF TypeOK, NoReg
<1>3. FileFits' /\ LockFits'
  BY <1>1, NoOpFields, ProfilesAssumption DEF FileFits, LockFits, NoReg, At
<1>4. RegistryFits'
  BY <1>1, NoOpFields DEF RegistryFits, At, Hydrated, Projected
<1> QED
  BY <1>2, <1>3, <1>4 DEF IInv

-----------------------------------------------------------------------------
(* The theorems.                                                            *)

LEMMA InitEstablishes == ASSUME Init PROVE IInv
<1>1. TypeOK
  BY NoOpFields DEF Init, TypeOK, FileStates, NoReg
<1>2. FileFits /\ LockFits
  BY NoOpFields, ProfilesAssumption DEF Init, FileFits, LockFits, NoReg, At
<1>3. RegistryFits
  BY NoOpFields DEF Init, RegistryFits, At, Hydrated, Projected, NoDefinition
<1> QED
  BY <1>1, <1>2, <1>3 DEF IInv

LEMMA StepsKeep == ASSUME IInv, [Next]_vars PROVE IInv'
<1>1. CASE UNCHANGED vars
  BY <1>1 DEF vars, definitions, dependants, IInv, TypeOK, FileFits, RegistryFits, LockFits, At,
     Hydrated, Projected
<1>2. CASE Next
  BY <1>2, StagesKeep, EndsKeep, BeginKeeps, LockDeleteKeeps, DependantsKeep, RestartKeeps DEF Next
<1> QED
  BY <1>1, <1>2

\* In every state all of this holds.
THEOREM Invariance == Spec => []IInv
BY InitEstablishes, StepsKeep, PTL DEF Spec

\* Between mutations the registry of providers is what a restart would load, unless
\* one of the four outcomes that the code leaves apart came before.
THEOREM RegistryFollows == Spec => []RegistryFollowsStore
<1>1. IInv => RegistryFollowsStore
  BY NoOpFields DEF IInv, RegistryFits, RegistryFollowsStore
<1> QED
  BY <1>1, Invariance, PTL

\* No definition is deleted from under a Credential, a grant or a registration.
THEOREM DeletionsAreSafe == Spec => DeletedHasNoDependants
<1>1. ASSUME IInv, Next, op.kind = "delete", stored # NoDefinition, stored' = NoDefinition
      PROVE  cred' = None /\ ~granted' /\ reg.at # "save"
  <2>1. SaveDeleted
    BY <1>1 DEF Next, Begin, StoreFails, AuditSucceeds, Refusals, Refuse, UndoFails, CheckCreate,
       SaveCreated, CreateAuditFails, UndoCreate, LoadUpdate, CheckUpdate, SaveUpdated, UpdateFails,
       UndoUpdate, LoadDisable, SaveDisabled, DisableAuditFails, UndoDisable, LoadEnable, SaveEnabled,
       EnableFails, UndoEnable, LockDelete, CheckDelete, DeleteFails, BeginRegister, LockRegister,
       SaveRegistered, GrantOrDelete, Restart, At, definitions
  <2>2. lock = "op" /\ cred = None /\ ~granted /\ UNCHANGED <<cred, granted>>
    BY <1>1, <2>1 DEF SaveDeleted, At, IInv, LockFits, dependants
  <2> QED
    BY <1>1, <2>2 DEF IInv, LockFits
<1>2. ASSUME UNCHANGED vars PROVE stored' = stored
  BY <1>2 DEF vars, definitions
<1>3. IInv /\ [Next]_vars =>
        [(op.kind = "delete" /\ stored # NoDefinition /\ stored' = NoDefinition)
           => (cred' = None /\ ~granted' /\ reg.at # "save")]_vars
  BY <1>1, <1>2
<1> QED
  BY <1>3, Invariance, PTL DEF Spec, DeletedHasNoDependants

-----------------------------------------------------------------------------
(* Calls: the inductive invariant.                                          *)

Token == Nat \cup {Nil}
MethodNames == {"oauth2", "webhook", "apiKey", "password"}
Account == [provider : Providers, method : MethodNames \cup {"unbound"}, profile : {"verified", "other"},
            secrets : [access : Token, refresh : Token], bound : BOOLEAN,
            state : {"active", "revoked"}, version : Nat]
Answer == [access : Nat, refresh : Token]
Operations == {"validate", "test", "health", "refresh", "authenticate"}
Call == [op : Operations \cup {"none"},
         at : {"idle", "lookup", "dial", "sent", "answered", "commit"}, step : Nat,
         saw : Account \cup {Nil}, judged : Lookups \cup {<<>>},
         address : {<<>>} \cup UNION {{l[1]} : l \in Lookups \ {<<>>}},
         answer : Answer \cup {Nil}, spent : Token]

CallsTypeOK ==
  /\ account \in Account /\ account.version > 0 /\ client \in {"bound", "other"}
  /\ minted \in Nat /\ calls \in [Calls -> Call]

\* The operations that a provider has.
Offered(p, o) == /\ o \in {"refresh", "authenticate"} => p \in OAuthProviders
                 /\ o \in {"validate", "test"} => p \notin OAuthProviders

AllPublic(answers) == \A i \in DOMAIN answers : Class(answers[i]) = "public"

\* What a call has at its stage: a refresh has an answer after its first request, and
\* sends no second one; whoever connects does so to what was judged.
Staged(q) ==
  /\ q.at = "idle" => q = NoCall
  /\ q.at # "idle" => /\ q.saw \in Account /\ q.op \in Operations
                      /\ Offered(q.saw.provider, q.op)
                      /\ q.step \in 1 .. Len(Plan(q.saw, q.op))
  /\ q.op = "refresh" => Renewable(q.saw.provider, q.saw.secrets) \in Nat
  /\ q.answer # Nil <=> q.op = "refresh" /\ (q.step > 1 \/ q.at = "answered")
  /\ q.at = "commit" => Stores(q.op) /\ q.step = Len(Plan(q.saw, q.op))
  /\ q.answer = Nil => q.spent = Nil
  /\ q.answer # Nil =>
       \/ q.answer.refresh = Nil /\ q.spent = Nil
       \/ /\ q.answer.refresh = q.answer.access
          /\ q.spent = Renewable(q.saw.provider, q.saw.secrets)
  /\ q.at \in {"dial", "sent", "answered"} =>
       /\ q.judged \in Lookups /\ q.judged # <<>>
       /\ q.saw.provider \notin ConnectionProviders => AllPublic(q.judged)
  /\ q.at \in {"sent", "answered"} =>
       q.saw.provider \notin ConnectionProviders /\ q.address = q.judged[1]

\* Whoever finds the version he has read finds the Credential he has read.
Reads(q) ==
  q.at # "idle" =>
    /\ q.saw.version <= account.version
    /\ q.saw.version = account.version =>
         q.saw.secrets = account.secrets /\ q.saw.provider = account.provider

Numbers(secrets) == {secrets.access, secrets.refresh}
Known(numbers) == \A n \in numbers : n \in Nat => n <= minted

\* No number is given out twice: what an answer brings nobody has yet.
IsNew(c) ==
  LET n == calls[c].answer.access IN
  calls[c].answer # Nil =>
    /\ n <= minted /\ n \notin Numbers(account.secrets)
    /\ \A d \in Calls : /\ calls[d].at # "idle" => n \notin Numbers(calls[d].saw.secrets)
                        /\ d # c /\ calls[d].answer # Nil => calls[d].answer.access # n

Accounted == alive \cup orphaned \cup UNION {Spent(c) : c \in Calls}
Stands(c) ==
  calls[c].answer # Nil /\ (calls[c].answer.refresh # Nil \/ RenewsAccess(calls[c].saw.provider)) =>
    calls[c].answer.access \in Accounted
AccountStands ==
  LET token == Renewable(account.provider, account.secrets) IN token # Nil => token \in Accounted

CallsInv ==
  /\ CallsTypeOK /\ AccountStands /\ Known(Numbers(account.secrets))
  /\ \A c \in Calls : /\ Staged(calls[c]) /\ Reads(calls[c]) /\ IsNew(c) /\ Stands(c)
                      /\ calls[c].at # "idle" => Known(Numbers(calls[c].saw.secrets))
-----------------------------------------------------------------------------
(* The providers.                                                           *)

LEMMA ProvidersAre ==
  ASSUME NEW p \in Providers
  PROVE  p \in OAuthProviders \/ p = "openai" \/ p \in ConnectionProviders
BY CallsAssumption

LEMMA KindsDiffer ==
  /\ OAuthProviders \cap ConnectionProviders = {}
  /\ "openai" \notin OAuthProviders \cup ConnectionProviders
BY DEF OAuthProviders, ConnectionProviders

\* Every OAuth service refreshes first and then asks for the profile.
LEMMA ServicesAre ==
  ASSUME NEW p \in OAuthProviders
  PROVE  /\ Service(p).refresh = <<"refresh", "profile">>
         /\ Service(p).authenticate \in {<<"exchange", "profile">>,
                                         <<"exchange", "longLived", "profile">>}
         /\ Service(p).health \in {<<"profile">>, <<"validate">>, <<"introspect">>}
         /\ RenewsAccess(p) <=> p = "threads"
         /\ p = "threads" => Service(p).issued = {}
         /\ p # "threads" => Service(p).issued # {}
<1>1. CASE p = "threads"
  BY <1>1 DEF Service, RenewsAccess, ThreadsService, OAuthService
<1>2. CASE p = "instagram"
  BY <1>2 DEF Service, RenewsAccess, InstagramService, OAuthService
<1>3. CASE p \in {"google", "discord", "x", "facebook"}
  BY <1>3 DEF Service, RenewsAccess, GoogleService, DiscordService, XService, FacebookService,
     OAuthService
<1>4. CASE p \in {"kick", "twitch"}
  BY <1>4 DEF Service, RenewsAccess, KickService, TwitchService, OAuthService
<1> QED
  BY <1>1, <1>2, <1>3, <1>4 DEF OAuthProviders

LEMMA PlansAre ==
  ASSUME NEW k \in Account, NEW o \in Operations, Offered(k.provider, o)
  PROVE  /\ Len(Plan(k, o)) \in Nat \ {0}
         /\ o = "refresh" => Plan(k, o) = <<"refresh", "profile">>
         /\ o # "refresh" => \A i \in 1 .. Len(Plan(k, o)) : Plan(k, o)[i] # "refresh"
<1>1. PICK p \in Providers : p = k.provider
  BY DEF Account
<1>2. CASE p \in ConnectionProviders
  <2>1. Plan(k, o) = <<"connect">> /\ o # "refresh"
    BY <1>1, <1>2, KindsDiffer DEF Plan, Offered
  <2> QED
    BY <2>1
<1>3. CASE p \in OAuthProviders
  <2>1. o \in {"refresh", "health", "authenticate"} /\ p \notin ConnectionProviders
    BY <1>1, <1>3, KindsDiffer DEF Offered, Operations
  <2>2. CASE o = "refresh"
    <3>1. Plan(k, o) = <<"refresh", "profile">>
      BY <1>1, <1>3, <2>1, <2>2, ServicesAre DEF Plan
    <3> QED
      BY <2>2, <3>1
  <2>3. CASE o = "health"
    <3>1. PICK r \in {"profile", "validate", "introspect"} : Plan(k, o) = <<r>>
      BY <1>1, <1>3, <2>1, <2>3, ServicesAre DEF Plan
    <3>2. Len(Plan(k, o)) = 1 /\ Plan(k, o)[1] = r
      BY <3>1
    <3>3. r # "refresh"
      OBVIOUS
    <3> QED
      BY <2>3, <3>2, <3>3
  <2>4. CASE o = "authenticate"
    <3>1. \/ Plan(k, o) = <<"exchange", "profile">>
          \/ Plan(k, o) = <<"exchange", "longLived", "profile">>
      BY <1>1, <1>3, <2>1, <2>4, ServicesAre DEF Plan
    <3>2. CASE Plan(k, o) = <<"exchange", "profile">>
      BY <2>4, <3>2
    <3>3. CASE Plan(k, o) = <<"exchange", "longLived", "profile">>
      <4>1. Len(Plan(k, o)) = 3
        BY <3>3
      <4>2. ASSUME NEW i \in 1 .. 3 PROVE Plan(k, o)[i] # "refresh"
        <5>1. i = 1 \/ i = 2 \/ i = 3
          OBVIOUS
        <5> QED
          BY <3>3, <5>1
      <4> QED
        BY <2>4, <4>1, <4>2
    <3> QED
      BY <3>1, <3>2, <3>3
  <2> QED
    BY <2>1, <2>2, <2>3, <2>4
<1>4. CASE p = "openai"
  <2>1. o \in {"validate", "test", "health"}
    BY <1>1, <1>4, KindsDiffer DEF Offered, Operations
  <2>2. Plan(k, o) = <<"models">>
    BY <1>1, <1>4, <2>1, KindsDiffer DEF Plan, Service, OpenAIConnectionService
  <2> QED
    BY <2>1, <2>2
<1> QED
  BY <1>1, <1>2, <1>3, <1>4, ProvidersAre

LEMMA MethodsAre ==
  ASSUME NEW p \in Providers
  PROVE  /\ Methods(p) # {} /\ Methods(p) \subseteq MethodNames
         /\ "REFRESH" \in ProviderDefinition(p).capabilities => p \in OAuthProviders
         /\ "OAUTH" \in ProviderDefinition(p).capabilities => p \in OAuthProviders
         /\ "VALIDATION" \in ProviderDefinition(p).capabilities => p \notin OAuthProviders
<1>1. CASE p = "discord"
  <2>1. ProviderDefinition(p) = DiscordDefinition
    BY <1>1 DEF ProviderDefinition, OAuthProviders, ConnectionProviders
  <2>2. /\ DiscordDefinition.capabilities = {"OAUTH", "REFRESH", "HEALTH_CHECK"}
        /\ DOMAIN DiscordDefinition.methods = {"oauth2", "webhook"}
    BY DEF DiscordDefinition, OAuthDefinition
  <2> QED
    BY <1>1, <2>1, <2>2 DEF Methods, MethodNames, OAuthProviders
<1>2. CASE p \in OAuthProviders /\ p # "discord"
  <2>1. ProviderDefinition(p) = OAuthDefinition
    BY <1>2, KindsDiffer DEF ProviderDefinition
  <2>2. /\ OAuthDefinition.capabilities = {"OAUTH", "REFRESH", "HEALTH_CHECK"}
        /\ DOMAIN OAuthDefinition.methods = {"oauth2"}
    BY DEF OAuthDefinition
  <2> QED
    BY <1>2, <2>1, <2>2 DEF Methods, MethodNames
<1>3. CASE p = "openai"
  <2>1. ProviderDefinition(p) = OpenAIDefinition
    BY <1>3, KindsDiffer DEF ProviderDefinition
  <2>2. /\ OpenAIDefinition.capabilities = {"VALIDATION", "HEALTH_CHECK"}
        /\ DOMAIN OpenAIDefinition.methods = {"apiKey"}
    BY DEF OpenAIDefinition
  <2> QED
    BY <1>3, <2>1, <2>2, KindsDiffer DEF Methods, MethodNames
<1>4. CASE p \in ConnectionProviders
  <2>1. ProviderDefinition(p) = ConnectionDefinition
    BY <1>4, KindsDiffer DEF ProviderDefinition
  <2>2. /\ ConnectionDefinition.capabilities = {"VALIDATION", "HEALTH_CHECK"}
        /\ DOMAIN ConnectionDefinition.methods = {"password"}
    BY DEF ConnectionDefinition
  <2> QED
    BY <1>4, <2>1, <2>2, KindsDiffer DEF Methods, MethodNames
<1> QED
  BY <1>1, <1>2, <1>3, <1>4, ProvidersAre

LEMMA OfferedIs ==
  ASSUME NEW k \in Account, NEW o \in Operations,
         k.provider \in ConnectionProviders => o \in {"validate", "health", "test"},
         o = "health" \/ ProviderSupports(k, o)
  PROVE  Offered(k.provider, o)
BY MethodsAre, KindsDiffer DEF Offered, Account, Operations, ProviderSupports, Capability

LEMMA RenewableIs ==
  ASSUME NEW p, NEW secrets \in [access : Token, refresh : Token]
  PROVE  /\ Renewable(p, secrets) \in Token /\ Renewable(p, secrets) \in Numbers(secrets)
         /\ p = "threads" => Renewable(p, secrets) = secrets.access
         /\ p # "threads" => Renewable(p, secrets) = secrets.refresh
BY DEF Renewable, Numbers

LEMMA NoCallIs ==
  /\ NoCall \in Call /\ Staged(NoCall) /\ NoCall.saw = Nil /\ NoCall.answer = Nil
  /\ NoCall.spent = Nil /\ NoCall.at = "idle"
BY DEF NoCall, Call, Staged, Token
-----------------------------------------------------------------------------
(* What is common to the steps.                                             *)

LEMMA FieldsOf ==
  ASSUME CallsInv, NEW c \in Calls
  PROVE  /\ calls[c] \in Call /\ Staged(calls[c]) /\ Reads(calls[c])
         /\ calls[c].at # "idle" => /\ calls[c].saw \in Account /\ calls[c].op \in Operations
                                    /\ calls[c].step \in Nat \ {0}
                                    /\ Offered(calls[c].saw.provider, calls[c].op)
<1>1. calls[c] \in Call /\ Staged(calls[c]) /\ Reads(calls[c])
  BY DEF CallsInv, CallsTypeOK
<1>2. ASSUME calls[c].at # "idle"
      PROVE  /\ calls[c].saw \in Account /\ calls[c].op \in Operations
             /\ calls[c].step \in Nat \ {0} /\ Offered(calls[c].saw.provider, calls[c].op)
  <2>1. /\ calls[c].saw \in Account /\ calls[c].op \in Operations
        /\ Offered(calls[c].saw.provider, calls[c].op)
        /\ calls[c].step \in 1 .. Len(Plan(calls[c].saw, calls[c].op))
    BY <1>1, <1>2 DEF Staged
  <2>2. Len(Plan(calls[c].saw, calls[c].op)) \in Nat
    BY <2>1, PlansAre
  <2> QED
    BY <2>1, <2>2
<1> QED
  BY <1>1, <1>2

LEMMA SpentIs ==
  ASSUME NEW c \in Calls
  PROVE  /\ \A n \in Spent(c) : n = calls[c].spent /\ n # Nil
         /\ calls[c].spent # Nil => calls[c].spent \in Spent(c)
         /\ calls[c].spent = Nil => Spent(c) = {}
BY DEF Spent

\* One call becomes q: it goes on, ends or begins; the Credential stays.
LEMMA CallKeeps ==
  ASSUME CallsInv, NEW c \in Calls, NEW q \in Call, calls' = [calls EXCEPT ![c] = q],
         UNCHANGED <<account, client, minted>>, Staged(q), Reads(q),
         Accounted \subseteq Accounted',
         q.answer # Nil => q.answer = calls[c].answer /\ q.saw = calls[c].saw,
         q.at # "idle" => \/ calls[c].at # "idle" /\ q.saw = calls[c].saw
                          \/ /\ Known(Numbers(q.saw.secrets))
                             /\ \A d \in Calls : calls[d].answer # Nil =>
                                  calls[d].answer.access \notin Numbers(q.saw.secrets)
  PROVE  CallsInv'
<1>1. calls \in [Calls -> Call] /\ calls' \in [Calls -> Call]
  BY DEF CallsInv, CallsTypeOK
<1>2. CallsTypeOK' /\ AccountStands' /\ Known(Numbers(account.secrets))'
  BY <1>1 DEF CallsInv, CallsTypeOK, AccountStands, Known
<1>3. calls'[c] = q /\ \A d \in Calls : d # c => calls'[d] = calls[d]
  BY <1>1
<1>4. ASSUME NEW d \in Calls
      PROVE  /\ Staged(calls[d])' /\ Reads(calls[d])'
             /\ (calls[d].at # "idle" => Known(Numbers(calls[d].saw.secrets)))'
  <2>1. CASE d = c
    BY <1>3, <2>1 DEF CallsInv, Staged, Reads, Known
  <2>2. CASE d # c
    BY <1>3, <2>2 DEF CallsInv, Staged, Reads, Known
  <2> QED
    BY <2>1, <2>2
<1>5. ASSUME NEW d \in Calls PROVE Stands(d)'
  <2>1. /\ calls'[d].answer # Nil => /\ calls'[d].answer = calls[d].answer
                                     /\ calls'[d].saw = calls[d].saw
    BY <1>3
  <2> QED
    BY <2>1 DEF CallsInv, Stands
<1>6. ASSUME NEW d \in Calls PROVE IsNew(d)'
  <2> SUFFICES ASSUME calls'[d].answer # Nil PROVE IsNew(d)'
    BY DEF IsNew
  <2>1. calls'[d].answer = calls[d].answer /\ calls[d].answer # Nil
    BY <1>3
  <2>2. PICK n : n = calls[d].answer.access
    OBVIOUS
  <2>3. n <= minted /\ n \notin Numbers(account.secrets)
    BY <2>1, <2>2 DEF CallsInv, IsNew
  <2>4. ASSUME NEW e \in Calls, calls'[e].at # "idle"
        PROVE  n \notin Numbers(calls'[e].saw.secrets)
    <3>1. CASE e # c \/ (calls[c].at # "idle" /\ q.saw = calls[c].saw)
      <4>1. calls'[e].saw = calls[e].saw /\ calls[e].at # "idle"
        BY <1>3, <2>4, <3>1
      <4> QED
        BY <2>1, <2>2, <2>4, <4>1 DEF CallsInv, IsNew
    <3>2. CASE e = c /\ ~(calls[c].at # "idle" /\ q.saw = calls[c].saw)
      BY <1>3, <2>1, <2>2, <2>4, <3>2
    <3> QED
      BY <3>1, <3>2
  <2>5. ASSUME NEW e \in Calls, e # d, calls'[e].answer # Nil
        PROVE  calls'[e].answer.access # n
    <3>1. calls'[e].answer = calls[e].answer
      BY <1>3, <2>5
    <3> QED
      BY <2>1, <2>2, <2>5, <3>1 DEF CallsInv, IsNew
  <2> QED
    BY <2>1, <2>2, <2>3, <2>4, <2>5 DEF IsNew
<1> QED
  BY <1>2, <1>4, <1>5, <1>6 DEF CallsInv

\* A call goes on, with the Credential and the answer it has.
LEMMA ProgressKeeps ==
  ASSUME CallsInv, NEW c \in Calls, NEW q \in Call, calls' = [calls EXCEPT ![c] = q],
         UNCHANGED <<account, client, minted, alive, orphaned>>, Staged(q),
         calls[c].at # "idle", q.saw = calls[c].saw, q.answer = calls[c].answer, q.spent = calls[c].spent
  PROVE  CallsInv'
<1>1. Reads(q)
  BY FieldsOf DEF Reads
<1>2. calls \in [Calls -> Call]
  BY DEF CallsInv, CallsTypeOK
<1>3. ASSUME NEW d \in Calls PROVE Spent(d)' = Spent(d)
  BY <1>2 DEF Spent
<1>4. Accounted \subseteq Accounted'
  BY <1>3 DEF Accounted
<1> QED
  BY <1>1, <1>4, CallKeeps

LEMMA FailKeeps ==
  ASSUME CallsInv, NEW c \in Calls, Fail(c), UNCHANGED <<account, client, alive, minted>>
  PROVE  CallsInv'
<1>1. calls \in [Calls -> Call] /\ calls' = [calls EXCEPT ![c] = NoCall]
  BY DEF CallsInv, CallsTypeOK, Fail
<1>2. Reads(NoCall)
  BY NoCallIs DEF Reads
<1>3. \A d \in Calls : d # c => Spent(d)' = Spent(d)
  BY <1>1 DEF Spent
<1>4. Accounted \subseteq Accounted'
  BY <1>3 DEF Accounted, Fail
<1> QED
  BY <1>1, <1>2, <1>4, NoCallIs, CallKeeps
-----------------------------------------------------------------------------
(* Calls begin, and go from request to request.                             *)

LEMMA EnterKeeps ==
  ASSUME CallsInv, NEW c \in Calls, NEW o \in Operations, NEW saw \in Account,
         Enter(c, o, saw), Offered(saw.provider, o),
         o = "refresh" => Renewable(saw.provider, saw.secrets) # Nil,
         saw = account \/ (saw.version = 0 /\ Numbers(saw.secrets) = {Nil})
  PROVE  CallsInv'
<1>1. PICK q : q = [NoCall EXCEPT !.op = o, !.at = "lookup", !.step = 1, !.saw = saw]
  OBVIOUS
<1>2. /\ q.op = o /\ q.at = "lookup" /\ q.step = 1 /\ q.saw = saw /\ q.answer = Nil
      /\ q.spent = Nil /\ q \in Call
  BY <1>1 DEF NoCall, Call, Token
<1>3. calls' = [calls EXCEPT ![c] = q] /\ calls \in [Calls -> Call]
  BY <1>1 DEF Enter, CallsInv, CallsTypeOK
<1>4. Renewable(saw.provider, saw.secrets) \in Token
  BY RenewableIs DEF Account
<1>5. 1 \in 1 .. Len(Plan(saw, o))
  BY PlansAre
<1>6. Staged(q)
  BY <1>2, <1>4, <1>5 DEF Staged, Token
<1>7. account.version \in Nat /\ account.version > 0
  BY DEF CallsInv, CallsTypeOK, Account
<1>8. Reads(q)
  BY <1>2, <1>7 DEF Reads
<1>9. \A d \in Calls : Spent(d)' = Spent(d)
  <2>1. Spent(c) = {} /\ Spent(c)' = {}
    BY <1>2, <1>3, FieldsOf, NoCallIs DEF Enter, Free, Staged, Spent
  <2>2. ASSUME NEW d \in Calls, d # c PROVE Spent(d)' = Spent(d)
    BY <1>3, <2>2 DEF Spent
  <2> QED
    BY <2>1, <2>2
<1>10. Accounted \subseteq Accounted'
  BY <1>9 DEF Accounted, Enter
<1>11. /\ Known(Numbers(saw.secrets))
       /\ \A d \in Calls : calls[d].answer # Nil =>
            calls[d].answer.access \notin Numbers(saw.secrets)
  <2>1. CASE saw = account
    BY <2>1 DEF CallsInv, IsNew
  <2>2. CASE Numbers(saw.secrets) = {Nil}
    <3>1. \A d \in Calls : calls[d].answer # Nil => calls[d].answer.access # Nil
      BY CallsAssumption, FieldsOf DEF Call, Answer
    <3> QED
      BY <2>2, <3>1, CallsAssumption DEF Known
  <2> QED
    BY <2>1, <2>2
<1> QED
  BY <1>2, <1>3, <1>6, <1>8, <1>10, <1>11, CallKeeps DEF Enter

LEMMA DraftIs ==
  ASSUME CallsInv
  PROVE  /\ Draft \in Account /\ Draft.provider = account.provider
         /\ Draft.version = 0 /\ Numbers(Draft.secrets) = {Nil}
<1>1. account \in Account
  BY DEF CallsInv, CallsTypeOK
<1>2. PICK m \in MethodNames : m = CHOOSE x \in Methods(account.provider) : TRUE
  BY <1>1, MethodsAre DEF Account
<1>3. Draft = [account EXCEPT !.profile = "verified", !.version = 0, !.bound = FALSE,
                  !.method = m, !.secrets = [access |-> Nil, refresh |-> Nil]]
  BY <1>2 DEF Draft
<1> QED
  BY <1>1, <1>3 DEF Account, Token, Numbers

LEMMA OperationKeeps ==
  ASSUME CallsInv, NEW c \in Calls,
         Validate(c) \/ TestConnection(c) \/ HealthCheck(c) \/ Refresh(c) \/ Authenticate(c)
  PROVE  CallsInv'
<1>1. account \in Account /\ account.provider \in Providers
  BY DEF CallsInv, CallsTypeOK, Account
<1>2. CASE Validate(c)
  <2>1. Offered(account.provider, "validate")
    BY <1>1, <1>2, OfferedIs DEF Validate, Operations
  <2> QED
    BY <1>1, <1>2, <2>1, EnterKeeps DEF Validate, Operations
<1>3. CASE TestConnection(c)
  <2>1. Offered(account.provider, "test")
    BY <1>1, <1>3, OfferedIs DEF TestConnection, Operations
  <2> QED
    BY <1>3, <2>1, DraftIs, EnterKeeps DEF TestConnection, Operations
<1>4. CASE HealthCheck(c)
  <2>1. Offered(account.provider, "health")
    BY DEF Offered
  <2> QED
    BY <1>1, <1>4, <2>1, EnterKeeps DEF HealthCheck, Operations
<1>5. CASE Refresh(c)
  <2>1. /\ ProviderSupports(account, "refresh")
        /\ Renewable(account.provider, account.secrets) # Nil
    BY <1>5 DEF Refresh, Callable, Sends
  <2>2. Offered(account.provider, "refresh")
    BY <1>1, <2>1, MethodsAre DEF ProviderSupports, Capability, Offered
  <2> QED
    BY <1>1, <1>5, <2>1, <2>2, EnterKeeps DEF Refresh, Operations
<1>6. CASE Authenticate(c)
  <2>1. ProviderSupports(Draft, "authenticate")
    BY <1>6 DEF Authenticate, Callable
  <2>2. Offered(Draft.provider, "authenticate")
    BY <1>1, <2>1, DraftIs, MethodsAre DEF ProviderSupports, Capability, Offered
  <2> QED
    BY <1>6, <2>2, DraftIs, EnterKeeps DEF Authenticate, Operations
<1> QED
  BY <1>2, <1>3, <1>4, <1>5, <1>6

LEMMA AdmittedIsPublic ==
  ASSUME NEW c \in Calls, NEW answers, Admitted(Policy, EgressRequest(c), answers),
         calls[c].saw.provider \notin ConnectionProviders
  PROVE  AllPublic(answers)
<1>1. EgressRequest(c).protocol = "https"
  BY DEF EgressRequest
<1> QED
  BY <1>1 DEF Admitted, IsAdmitted, PrivateExceptionMatches, ConnectionProtocols, AllPublic

LEMMA ResolveKeeps == ASSUME CallsInv, NEW c \in Calls, Resolve(c) PROVE CallsInv'
<1>1. PICK answers \in Lookups :
        IF Admitted(Policy, EgressRequest(c), answers)
        THEN /\ calls' = [calls EXCEPT ![c].at = "dial", ![c].judged = answers]
             /\ UNCHANGED orphaned
        ELSE Fail(c)
  BY DEF Resolve
<1>2. CASE Admitted(Policy, EgressRequest(c), answers)
  <2>1. PICK q : q = [calls[c] EXCEPT !.at = "dial", !.judged = answers]
    OBVIOUS
  <2>2. calls[c].at = "lookup" /\ calls \in [Calls -> Call] /\ calls[c] \in Call
    BY DEF Resolve, CallsInv, CallsTypeOK
  <2>3. /\ q \in Call /\ q.at = "dial" /\ q.judged = answers /\ q.op = calls[c].op
        /\ q.step = calls[c].step /\ q.saw = calls[c].saw /\ q.answer = calls[c].answer
        /\ q.spent = calls[c].spent
    BY <2>1, <2>2 DEF Call
  <2>4. /\ answers # <<>>
        /\ calls[c].saw.provider \notin ConnectionProviders => AllPublic(answers)
    BY <1>2, AdmittedIsPublic DEF Admitted
  <2>5. Staged(q)
    BY <2>2, <2>3, <2>4, FieldsOf DEF Staged
  <2>6. calls' = [calls EXCEPT ![c] = q]
    BY <1>1, <1>2, <2>1, <2>2
  <2> QED
    BY <1>1, <1>2, <2>2, <2>3, <2>5, <2>6, ProgressKeeps DEF Resolve
<1>3. CASE ~Admitted(Policy, EgressRequest(c), answers)
  BY <1>1, <1>3, FailKeeps DEF Resolve
<1> QED
  BY <1>2, <1>3

LEMMA DialKeeps == ASSUME CallsInv, NEW c \in Calls, Dial(c) PROVE CallsInv'
<1>1. calls[c].at = "dial" /\ calls \in [Calls -> Call] /\ calls[c] \in Call
  BY DEF Dial, CallsInv, CallsTypeOK
<1>2. calls[c].judged \in Lookups /\ calls[c].judged # <<>>
  BY <1>1, FieldsOf DEF Staged
<1>3. PICK q : q = [calls[c] EXCEPT !.at = "sent", !.address = calls[c].judged[1]]
  OBVIOUS
<1>4. calls[c].judged[1] \in {<<>>} \cup UNION {{l[1]} : l \in Lookups \ {<<>>}}
  BY <1>2
<1>5. /\ q \in Call /\ q.at = "sent" /\ q.judged = calls[c].judged /\ q.op = calls[c].op
      /\ q.step = calls[c].step /\ q.saw = calls[c].saw /\ q.answer = calls[c].answer
      /\ q.spent = calls[c].spent /\ q.address = q.judged[1]
  BY <1>1, <1>3, <1>4 DEF Call
<1>6. Staged(q)
  BY <1>1, <1>5, FieldsOf DEF Staged, Dial
<1>7. calls' = [calls EXCEPT ![c] = q]
  BY <1>1, <1>3 DEF Dial, Pinned
<1> QED
  BY <1>1, <1>5, <1>6, <1>7, ProgressKeeps DEF Dial

LEMMA NoConnectorKeeps == ASSUME CallsInv, NEW c \in Calls, NoConnector(c) PROVE CallsInv'
BY FailKeeps DEF NoConnector

LEMMA LoseKeeps == ASSUME CallsInv, NEW c \in Calls, Lose(c) PROVE CallsInv'
BY FailKeeps DEF Lose

\* The request for a renewal is the first of a refresh, and of nothing else.
LEMMA RequestIs ==
  ASSUME CallsInv, NEW c \in Calls, calls[c].at # "idle"
  PROVE  RequestName(c) = "refresh" <=> calls[c].op = "refresh" /\ calls[c].step = 1
<1>1. /\ calls[c].saw \in Account /\ calls[c].op \in Operations
      /\ Offered(calls[c].saw.provider, calls[c].op)
      /\ calls[c].step \in 1 .. Len(Plan(calls[c].saw, calls[c].op))
  BY FieldsOf DEF Staged
<1>2. CASE calls[c].op = "refresh"
  <2>1. Plan(calls[c].saw, calls[c].op) = <<"refresh", "profile">>
    BY <1>1, <1>2, PlansAre
  <2>2. calls[c].step = 1 \/ calls[c].step = 2
    BY <1>1, <2>1
  <2> QED
    BY <1>2, <2>1, <2>2 DEF RequestName
<1>3. CASE calls[c].op # "refresh"
  BY <1>1, <1>3, PlansAre DEF RequestName
<1> QED
  BY <1>2, <1>3

LEMMA ServeKeeps == ASSUME CallsInv, NEW c \in Calls, Serve(c) PROVE CallsInv'
<1>1. calls[c].at = "sent" /\ calls \in [Calls -> Call] /\ calls[c] \in Call
  BY DEF Serve, CallsInv, CallsTypeOK
<1>2. PICK q : q = [calls[c] EXCEPT !.at = "answered"]
  OBVIOUS
<1>3. /\ q \in Call /\ q.at = "answered" /\ q.judged = calls[c].judged /\ q.op = calls[c].op
      /\ q.step = calls[c].step /\ q.saw = calls[c].saw /\ q.answer = calls[c].answer
      /\ q.spent = calls[c].spent /\ q.address = calls[c].address
  BY <1>1, <1>2 DEF Call
<1>4. calls[c].op = "refresh" => calls[c].step > 1
  BY <1>1, RequestIs, FieldsOf DEF Serve
<1>5. Staged(q)
  BY <1>1, <1>3, <1>4, FieldsOf DEF Staged
<1>6. calls' = [calls EXCEPT ![c] = q]
  BY <1>1, <1>2 DEF Serve
<1> QED
  BY <1>1, <1>3, <1>5, <1>6, ProgressKeeps DEF Serve

LEMMA NextRequestKeeps == ASSUME CallsInv, NEW c \in Calls, NextRequest(c) PROVE CallsInv'
<1>1. /\ calls[c].at = "answered" /\ ~LastRequest(c) /\ calls \in [Calls -> Call]
      /\ calls[c] \in Call
  BY DEF NextRequest, CallsInv, CallsTypeOK
<1>2. /\ calls[c].step \in 1 .. Len(Plan(calls[c].saw, calls[c].op))
      /\ Len(Plan(calls[c].saw, calls[c].op)) \in Nat
      /\ calls[c].step # Len(Plan(calls[c].saw, calls[c].op))
  BY <1>1, FieldsOf, PlansAre DEF Staged, LastRequest
<1>3. PICK k \in 1 .. Len(Plan(calls[c].saw, calls[c].op)) : k = calls[c].step + 1 /\ k > 1 /\ k \in Nat
  BY <1>2
<1>4. PICK q : q = [calls[c] EXCEPT !.at = "lookup", !.step = k, !.judged = <<>>, !.address = <<>>]
  OBVIOUS
<1>5. /\ q \in Call /\ q.at = "lookup" /\ q.op = calls[c].op /\ q.step = k
      /\ q.saw = calls[c].saw /\ q.answer = calls[c].answer /\ q.spent = calls[c].spent
  BY <1>1, <1>3, <1>4 DEF Call
<1>6. Staged(q)
  BY <1>1, <1>3, <1>5, FieldsOf DEF Staged
<1>7. calls' = [calls EXCEPT ![c] = q]
  BY <1>1, <1>3, <1>4 DEF NextRequest
<1> QED
  BY <1>1, <1>5, <1>6, <1>7, ProgressKeeps DEF NextRequest

LEMMA CompleteKeeps == ASSUME CallsInv, NEW c \in Calls, Complete(c) PROVE CallsInv'
<1>1. /\ calls[c].at = "answered" /\ LastRequest(c) /\ calls \in [Calls -> Call]
      /\ calls[c] \in Call
  BY DEF Complete, CallsInv, CallsTypeOK
<1>2. CASE Fail(c)
  BY <1>2, FailKeeps DEF Complete
<1>3. CASE ~Fail(c)
  <2>1. /\ Stores(calls[c].op) /\ UNCHANGED orphaned
        /\ calls' = [calls EXCEPT ![c].at = "commit", ![c].judged = <<>>, ![c].address = <<>>]
    BY <1>3 DEF Complete
  <2>2. PICK q : q = [calls[c] EXCEPT !.at = "commit", !.judged = <<>>, !.address = <<>>]
    OBVIOUS
  <2>3. /\ q \in Call /\ q.at = "commit" /\ q.op = calls[c].op /\ q.step = calls[c].step
        /\ q.saw = calls[c].saw /\ q.answer = calls[c].answer /\ q.spent = calls[c].spent
    BY <1>1, <2>2 DEF Call
  <2>4. calls[c].op = "refresh" => calls[c].step > 1
    BY <1>1, FieldsOf, PlansAre DEF LastRequest
  <2>5. Staged(q)
    BY <1>1, <2>1, <2>3, <2>4, FieldsOf DEF Staged, LastRequest
  <2>6. calls' = [calls EXCEPT ![c] = q]
    BY <1>1, <2>1, <2>2
  <2> QED
    BY <1>1, <2>1, <2>3, <2>5, <2>6, ProgressKeeps DEF Complete
<1> QED
  BY <1>2, <1>3
-----------------------------------------------------------------------------
(* The provider renews.                                                     *)

\* What a renewal is at the time it is served.
LEMMA ServedIs ==
  ASSUME CallsInv, NEW c \in Calls, ServeRefresh(c)
  PROVE  /\ calls[c].at = "sent" /\ calls[c] \in Call /\ calls \in [Calls -> Call]
         /\ calls[c].op = "refresh" /\ calls[c].answer = Nil /\ Spent(c) = {}
         /\ Grant(c) \in Nat /\ minted \in Nat /\ minted' = minted + 1
<1>1. calls[c].at = "sent" /\ calls \in [Calls -> Call] /\ calls[c] \in Call /\ minted \in Nat
  BY DEF ServeRefresh, CallsInv, CallsTypeOK
<1>2. calls[c].op = "refresh" /\ calls[c].step = 1
  BY <1>1, RequestIs DEF ServeRefresh
<1> QED
  BY <1>1, <1>2, FieldsOf, SpentIs DEF ServeRefresh, Staged, Grant

LEMMA ServeRefreshKeeps == ASSUME CallsInv, NEW c \in Calls, ServeRefresh(c) PROVE CallsInv'
<1> DEFINE n == minted + 1
<1>1. PICK rotates \in BOOLEAN :
        /\ calls' = [calls EXCEPT
             ![c].at = "answered",
             ![c].answer = [access |-> n, refresh |-> IF rotates THEN n ELSE Nil],
             ![c].spent = IF rotates THEN Grant(c) ELSE Nil]
        /\ alive' = Replaces(Grant(c), rotates)
             \cup (IF rotates \/ RenewsAccess(calls[c].saw.provider) THEN {n} ELSE {})
  BY DEF ServeRefresh
<1>2. /\ calls[c].at = "sent" /\ calls[c] \in Call /\ calls \in [Calls -> Call]
      /\ calls[c].op = "refresh" /\ calls[c].answer = Nil /\ Spent(c) = {}
      /\ Grant(c) \in Nat /\ minted \in Nat /\ minted' = n /\ n \in Nat
  BY ServedIs
<1>3. PICK q : q = [calls[c] EXCEPT !.at = "answered",
                      !.answer = [access |-> n, refresh |-> IF rotates THEN n ELSE Nil],
                      !.spent = IF rotates THEN Grant(c) ELSE Nil]
  OBVIOUS
<1>4. /\ q.at = "answered" /\ q.op = "refresh" /\ q.step = calls[c].step /\ q.saw = calls[c].saw
      /\ q.judged = calls[c].judged /\ q.address = calls[c].address
      /\ q.answer = [access |-> n, refresh |-> IF rotates THEN n ELSE Nil]
      /\ q.spent = IF rotates THEN Grant(c) ELSE Nil
  BY <1>2, <1>3 DEF Call
<1>5. /\ q.answer \in Answer /\ q.answer.access = n /\ q.answer # Nil
      /\ q.answer.refresh = IF rotates THEN n ELSE Nil
  <2>1. q.answer \in [access : Nat, refresh : Nat \cup {Nil}]
    BY <1>2, <1>4
  <2> QED
    BY <1>4, <2>1, CallsAssumption DEF Answer, Token
<1>6. q \in Call
  BY <1>2, <1>3, <1>4, <1>5 DEF Call, Token
<1>7. calls' = [calls EXCEPT ![c] = q]
  BY <1>1, <1>2, <1>3
<1>8. Staged(q)
  BY <1>2, <1>4, <1>5, FieldsOf, CallsAssumption DEF Staged, Grant, Stores
<1>9. calls'[c] = q /\ \A d \in Calls : d # c => calls'[d] = calls[d]
  BY <1>2, <1>7
<1>10. Accounted \subseteq Accounted'
  <2>1. \A d \in Calls : d # c => Spent(d)' = Spent(d)
    BY <1>9 DEF Spent
  <2>2. alive \subseteq alive' \cup Spent(c)'
    <3>1. CASE rotates
      <4>1. Spent(c)' = {Grant(c)}
        BY <1>2, <1>4, <1>9, <3>1, CallsAssumption DEF Spent
      <4> QED
        BY <1>1, <3>1, <4>1 DEF Replaces
    <3>2. CASE ~rotates
      BY <1>1, <3>2 DEF Replaces
    <3> QED
      BY <3>1, <3>2
  <2> QED
    BY <1>2, <2>1, <2>2 DEF Accounted, ServeRefresh
<1>11. UNCHANGED <<account, client, late, orphaned>>
  BY DEF ServeRefresh
<1>12. CallsTypeOK' /\ AccountStands'
  BY <1>2, <1>6, <1>7, <1>10, <1>11 DEF CallsInv, CallsTypeOK, AccountStands
<1>13. ASSUME NEW numbers, Known(numbers) PROVE Known(numbers)' /\ n \notin numbers
  BY <1>2, <1>13 DEF Known
<1>14. Known(Numbers(account.secrets))' /\ n \notin Numbers(account.secrets)
  BY <1>2, <1>11 DEF CallsInv, Known
<1>15. ASSUME NEW d \in Calls
       PROVE  /\ Staged(calls[d])' /\ Reads(calls[d])'
              /\ (calls[d].at # "idle" => Known(Numbers(calls[d].saw.secrets)))'
              /\ calls[d].at # "idle" => n \notin Numbers(calls[d].saw.secrets)
  <2>1. calls[d].at # "idle" => \A x \in Numbers(calls[d].saw.secrets) : x \in Nat => x <= minted
    BY DEF CallsInv, Known
  <2>2. calls'[d].saw = calls[d].saw /\ (calls'[d].at = "idle" <=> calls[d].at = "idle")
    BY <1>2, <1>4, <1>9
  <2>3. Staged(calls'[d])
    BY <1>8, <1>9, FieldsOf
  <2>4. Reads(calls[d])'
    BY <1>11, <2>2, FieldsOf DEF Reads
  <2>5. Staged(calls[d])'
    BY <2>3 DEF Staged
  <2> QED
    BY <1>2, <2>1, <2>2, <2>4, <2>5 DEF Known
<1>16. ASSUME NEW d \in Calls PROVE Stands(d)'
  <2>1. CASE d = c
    <3>1. (rotates \/ RenewsAccess(q.saw.provider)) => n \in alive'
      BY <1>1, <1>4
    <3>2. n \in alive' => n \in Accounted'
      BY DEF Accounted
    <3> QED
      BY <1>5, <1>9, <2>1, <3>1, <3>2 DEF Stands
  <2>2. CASE d # c
    BY <1>9, <1>10, <2>2 DEF CallsInv, Stands
  <2> QED
    BY <2>1, <2>2
<1>17. ASSUME NEW d \in Calls, d # c, calls[d].answer # Nil
       PROVE  calls[d].answer.access <= minted /\ calls[d].answer.access # n
              /\ calls[d].answer.access \in Nat
  <2>1. calls[d].answer.access \in Nat
    BY <1>17, FieldsOf DEF Call, Answer
  <2>2. calls[d].answer.access <= minted
    BY <1>17 DEF CallsInv, IsNew
  <2> QED
    BY <1>2, <2>1, <2>2
<1>18. ASSUME NEW d \in Calls PROVE IsNew(d)'
  <2>1. CASE d = c
    <3>1. ASSUME NEW e \in Calls
          PROVE  /\ calls'[e].at # "idle" => n \notin Numbers(calls'[e].saw.secrets)
                 /\ e # c /\ calls'[e].answer # Nil => calls'[e].answer.access # n
      <4>1. calls'[e].saw = calls[e].saw /\ (calls'[e].at = "idle" <=> calls[e].at = "idle")
        BY <1>2, <1>4, <1>9
      <4> QED
        BY <1>9, <1>15, <1>17, <4>1
    <3> QED
      BY <1>2, <1>5, <1>9, <1>11, <1>14, <2>1, <3>1 DEF IsNew
  <2>2. CASE d # c
    <3> SUFFICES ASSUME calls'[d].answer # Nil PROVE IsNew(d)'
      BY DEF IsNew
    <3>1. PICK k : k = calls[d].answer.access
      OBVIOUS
    <3>2. calls'[d] = calls[d] /\ k \in Nat /\ k <= minted /\ k # n /\ k <= minted'
      BY <1>2, <1>9, <1>17, <2>2, <3>1
    <3>3. k \notin Numbers(account.secrets)
      BY <3>1, <3>2 DEF CallsInv, IsNew
    <3>4. ASSUME NEW e \in Calls
          PROVE  /\ calls'[e].at # "idle" => k \notin Numbers(calls'[e].saw.secrets)
                 /\ e # d /\ calls'[e].answer # Nil => calls'[e].answer.access # k
      <4>1. calls'[e].saw = calls[e].saw /\ (calls'[e].at = "idle" <=> calls[e].at = "idle")
        BY <1>2, <1>4, <1>9
      <4>2. /\ calls[e].at # "idle" => k \notin Numbers(calls[e].saw.secrets)
            /\ e # d /\ calls[e].answer # Nil => calls[e].answer.access # k
        BY <3>1, <3>2 DEF CallsInv, IsNew
      <4> QED
        BY <1>5, <1>9, <3>2, <4>1, <4>2
    <3> QED
      BY <1>11, <3>1, <3>2, <3>3, <3>4 DEF IsNew
  <2> QED
    BY <2>1, <2>2
<1> QED
  BY <1>12, <1>14, <1>15, <1>16, <1>18 DEF CallsInv
-----------------------------------------------------------------------------
(* What a refresh stores.                                                   *)

\* An answer that is not a rotation leaves the token; one that is brings another
\* that the provider accepts, and never the one that was spent.
LEMMA StoredIs ==
  ASSUME CallsInv, NEW c \in Calls, calls[c].at = "commit", account.version = calls[c].saw.version
  PROVE  LET was == account.secrets
             s == Stored(c).secrets
             t == Renewable(account.provider, s)
         IN
         /\ Stored(c) \in Account /\ Stored(c).provider = account.provider
         /\ Stored(c).version = account.version + 1
         /\ \A x \in Numbers(s) : x \in Numbers(was)
              \/ (calls[c].answer # Nil /\ x = calls[c].answer.access)
         /\ t # Nil => t \in Accounted /\ t \notin Spent(c)
<1>1. /\ calls[c].saw \in Account /\ calls[c] \in Call /\ account \in Account
      /\ calls[c].saw.secrets = account.secrets /\ calls[c].saw.provider = account.provider
      /\ calls[c].op \in {"refresh", "validate"}
  BY FieldsOf DEF Reads, Staged, Stores, CallsInv, CallsTypeOK
<1>2. PICK p \in Providers : p = account.provider
  BY <1>1 DEF Account
<1>3. PICK saw \in Account : saw = calls[c].saw
  BY <1>1
<1>4. PICK was \in [access : Token, refresh : Token] : was = account.secrets
  BY <1>1 DEF Account
<1>5. PICK v \in Nat : v = saw.version /\ v = account.version /\ v + 1 \in Nat
  BY <1>3 DEF Account
<1>6. Renewable(p, was) # Nil => Renewable(p, was) \in Accounted
  BY <1>2, <1>4 DEF CallsInv, AccountStands
<1>7. CASE calls[c].op = "validate"
  <2>1. Stored(c) = [saw EXCEPT !.state = "active", !.version = v + 1, !.secrets = was]
    BY <1>1, <1>3, <1>4, <1>5, <1>7 DEF Stored
  <2>2. /\ Stored(c) \in Account /\ Stored(c).provider = p /\ Stored(c).secrets = was
        /\ Stored(c).version = account.version + 1
    BY <1>1, <1>2, <1>3, <1>4, <1>5, <2>1 DEF Account
  <2>3. Spent(c) = {}
    BY <1>7, FieldsOf, SpentIs DEF Staged
  <2> QED
    BY <1>2, <1>4, <1>6, <2>2, <2>3
<1>8. CASE calls[c].op = "refresh"
  <2>1. PICK a \in Answer : a = calls[c].answer /\ a # Nil
    <3>1. calls[c].op \in Operations /\ Offered(calls[c].saw.provider, calls[c].op)
      BY FieldsOf
    <3>2. Len(Plan(calls[c].saw, calls[c].op)) = 2
      BY <1>1, <1>8, <3>1, PlansAre
    <3>3. calls[c].step = 2
      <4>1. Staged(calls[c])
        BY FieldsOf
      <4> QED
        BY <3>2, <4>1 DEF Staged
    <3> QED
      BY <1>1, <1>8, <3>3, FieldsOf DEF Staged, Call
  <2>2. PICK n \in Nat : n = a.access /\ n # Nil
    BY CallsAssumption DEF Answer
  <2>3. PICK g \in Nat : g = Renewable(p, was) /\ g # Nil
    BY <1>1, <1>2, <1>4, <1>8, FieldsOf, CallsAssumption DEF Staged
  <2>4. /\ n \notin Numbers(was)
        /\ a.refresh # Nil \/ RenewsAccess(p) => n \in Accounted
    BY <1>1, <1>2, <1>4, <2>1, <2>2 DEF CallsInv, IsNew, Stands
  <2>5. n # g
    BY <1>4, <2>3, <2>4, RenewableIs
  <2>6. \/ a.refresh = Nil /\ calls[c].spent = Nil
        \/ a.refresh = n /\ calls[c].spent = g
    BY <1>1, <1>2, <1>4, <2>1, <2>2, <2>3, FieldsOf DEF Staged
  <2>7. p \in OAuthProviders
    BY <1>1, <1>2, <1>8, FieldsOf DEF Offered
  <2>8. PICK given : given = ResultRefreshToken(Service(p), a, was.refresh)
    OBVIOUS
  <2>9. PICK s : s = [access |-> n, refresh |-> IF given # Nil THEN given ELSE was.refresh]
    OBVIOUS
  <2>10. Stored(c) = [saw EXCEPT !.state = "active", !.version = v + 1, !.secrets = s]
    BY <1>1, <1>2, <1>3, <1>4, <1>5, <1>8, <2>1, <2>2, <2>8, <2>9 DEF Stored, SecretsFromResult
  <2>11. /\ p = "threads" => given = Nil
         /\ p # "threads" /\ a.refresh # Nil => given = n
         /\ p # "threads" /\ a.refresh = Nil /\ was.refresh # Nil => given = was.refresh
    <3>1. a.refresh # Nil => a.refresh = n
      BY <2>6
    <3>2. CASE p = "threads"
      BY <2>7, <2>8, <3>2, ServicesAre DEF ResultRefreshToken
    <3>3. CASE p # "threads"
      BY <2>7, <2>8, <3>1, <3>3, ServicesAre DEF ResultRefreshToken
    <3> QED
      BY <3>2, <3>3
  <2>12. p # "threads" => was.refresh = g
    BY <1>4, <2>3, RenewableIs
  <2>13. s.access = n /\ s.refresh \in {n, was.refresh}
    BY <2>2, <2>3, <2>6, <2>9, <2>11, <2>12
  <2>14. s \in [access : Token, refresh : Token]
    BY <1>4, <2>9, <2>13 DEF Token
  <2>15. /\ Stored(c) \in Account /\ Stored(c).provider = p /\ Stored(c).secrets = s
         /\ Stored(c).version = account.version + 1
    BY <1>1, <1>2, <1>3, <1>5, <2>10, <2>14 DEF Account
  <2>16. \A x \in Numbers(s) : x \in Numbers(was) \/ x = n
    BY <2>13 DEF Numbers
  <2>17. Renewable(p, s) # Nil => Renewable(p, s) \in Accounted /\ Renewable(p, s) \notin Spent(c)
    <3>1. CASE p = "threads"
      <4>1. Renewable(p, s) = n /\ n \in Accounted
        BY <2>4, <2>7, <2>13, <2>14, <3>1, RenewableIs, ServicesAre
      <4>2. n \notin Spent(c)
        BY <2>5, <2>6, SpentIs
      <4> QED
        BY <4>1, <4>2
    <3>2. CASE p # "threads" /\ a.refresh # Nil
      <4>1. Renewable(p, s) = n /\ n \in Accounted
        BY <2>2, <2>4, <2>9, <2>11, <2>14, <3>2, RenewableIs
      <4>2. n \notin Spent(c)
        BY <2>5, <2>6, SpentIs
      <4> QED
        BY <4>1, <4>2
    <3>3. CASE p # "threads" /\ a.refresh = Nil
      <4>1. Renewable(p, s) = g /\ g \in Accounted
        BY <1>6, <2>3, <2>9, <2>11, <2>12, <2>14, <3>3, RenewableIs
      <4>2. Spent(c) = {}
        BY <2>2, <2>6, <3>3, SpentIs
      <4> QED
        BY <4>1, <4>2
    <3> QED
      BY <3>1, <3>2, <3>3
  <2> QED
    BY <1>2, <1>4, <2>1, <2>2, <2>15, <2>16, <2>17
<1> QED
  BY <1>1, <1>7, <1>8

LEMMA CommitKeeps == ASSUME CallsInv, NEW c \in Calls, Commit(c) PROVE CallsInv'
<1>1. CASE account.version # calls[c].saw.version
  BY <1>1, FailKeeps DEF Commit
<1>2. CASE account.version = calls[c].saw.version
  <2>1. /\ calls[c].at = "commit" /\ account' = Stored(c)
        /\ calls' = [calls EXCEPT ![c] = NoCall] /\ UNCHANGED <<orphaned, client, alive, minted>>
    BY <1>2 DEF Commit
  <2>2. /\ calls \in [Calls -> Call] /\ minted \in Nat /\ account \in Account
        /\ account.version \in Nat
    BY DEF CallsInv, CallsTypeOK, Account
  <2>3. calls'[c] = NoCall /\ \A d \in Calls : d # c => calls'[d] = calls[d]
    BY <2>1, <2>2
  <2> DEFINE t == Renewable(account.provider, account.secrets)'
  <2>4. /\ account' \in Account /\ account'.provider = account.provider
        /\ account'.version = account.version + 1
        /\ t # Nil => t \in Accounted /\ t \notin Spent(c)
    BY <1>2, <2>1, StoredIs
  <2>5. \A x \in Numbers(account'.secrets) : x \in Numbers(account.secrets)
          \/ (calls[c].answer # Nil /\ x = calls[c].answer.access)
    BY <1>2, <2>1, StoredIs
  <2>6. ASSUME NEW x \in Accounted, x \notin Spent(c) PROVE x \in Accounted'
    <3>1. \A d \in Calls : d # c => Spent(d)' = Spent(d)
      BY <2>3 DEF Spent
    <3> QED
      BY <2>1, <2>6, <3>1 DEF Accounted
  <2>7. AccountStands'
    BY <2>4, <2>6 DEF AccountStands
  <2>8. CallsTypeOK'
    BY <2>1, <2>2, <2>4, NoCallIs DEF CallsInv, CallsTypeOK
  <2>9. Known(Numbers(account.secrets))'
    <3>1. calls[c].answer # Nil => calls[c].answer.access <= minted
      BY DEF CallsInv, IsNew
    <3>2. \A x \in Numbers(account.secrets) : x \in Nat => x <= minted
      BY DEF CallsInv, Known
    <3> QED
      BY <2>1, <2>5, <3>1, <3>2 DEF Known
  <2>10. ASSUME NEW d \in Calls
         PROVE  /\ Staged(calls[d])' /\ Reads(calls[d])'
                /\ (calls[d].at # "idle" => Known(Numbers(calls[d].saw.secrets)))'
    <3>1. CASE d = c
      BY <2>3, <3>1, NoCallIs DEF Reads, Staged
    <3>2. CASE d # c
      <4>1. Staged(calls[d])'
        BY <2>3, <3>2, FieldsOf DEF Staged
      <4>2. calls[d].at # "idle" => calls[d].saw.version <= account.version
                                    /\ calls[d].saw.version \in Nat
        BY FieldsOf DEF Reads, Account
      <4>3. Reads(calls[d])'
        BY <2>2, <2>3, <2>4, <3>2, <4>2 DEF Reads
      <4> QED
        BY <2>1, <2>3, <3>2, <4>1, <4>3 DEF CallsInv, Known
    <3> QED
      BY <3>1, <3>2
  <2>11. ASSUME NEW d \in Calls PROVE IsNew(d)' /\ Stands(d)'
    <3>1. CASE d = c
      BY <2>3, <3>1, NoCallIs DEF IsNew, Stands
    <3>2. CASE d # c /\ calls[d].answer = Nil
      BY <2>3, <3>2 DEF IsNew, Stands
    <3>3. CASE d # c /\ calls[d].answer # Nil
      <4>1. PICK n : n = calls[d].answer.access
        OBVIOUS
      <4>2. /\ n <= minted /\ n \notin Numbers(account.secrets)
            /\ \A e \in Calls : /\ calls[e].at # "idle" => n \notin Numbers(calls[e].saw.secrets)
                                /\ e # d /\ calls[e].answer # Nil => calls[e].answer.access # n
        BY <3>3, <4>1 DEF CallsInv, IsNew
      <4>3. n \notin Numbers(account'.secrets)
        BY <2>5, <3>3, <4>2
      <4>4. ASSUME NEW e \in Calls
            PROVE  /\ calls'[e].at # "idle" => n \notin Numbers(calls'[e].saw.secrets)
                   /\ e # d /\ calls'[e].answer # Nil => calls'[e].answer.access # n
        BY <2>3, <4>2, NoCallIs
      <4>5. IsNew(d)'
        BY <2>1, <2>3, <3>3, <4>1, <4>2, <4>3, <4>4 DEF IsNew
      <4>6. n \notin Spent(c)
        <5>1. calls[c].saw \in Account /\ n \notin Numbers(calls[c].saw.secrets)
          BY <2>1, <4>2, FieldsOf
        <5>2. Renewable(calls[c].saw.provider, calls[c].saw.secrets) \in Numbers(calls[c].saw.secrets)
          BY <5>1, RenewableIs DEF Account
        <5> QED
          BY <5>1, <5>2, FieldsOf, SpentIs DEF Staged
      <4>7. Stands(d)'
        BY <2>3, <2>6, <3>3, <4>1, <4>6 DEF CallsInv, Stands
      <4> QED
        BY <4>5, <4>7
    <3> QED
      BY <3>1, <3>2, <3>3
  <2> QED
    BY <2>7, <2>8, <2>9, <2>10, <2>11 DEF CallsInv
<1> QED
  BY <1>1, <1>2
-----------------------------------------------------------------------------
(* The others.                                                              *)

\* Nothing the calls have changes, and no number stops being accounted for.
LEMMA OthersKeep ==
  ASSUME CallsInv, UNCHANGED <<account, minted, calls>>, client' \in {"bound", "other"},
         Accounted \subseteq Accounted'
  PROVE  CallsInv'
<1>1. CallsTypeOK' /\ AccountStands' /\ Known(Numbers(account.secrets))'
  BY DEF CallsInv, CallsTypeOK, AccountStands, Known
<1>2. ASSUME NEW d \in Calls
      PROVE  /\ Staged(calls[d])' /\ Reads(calls[d])' /\ IsNew(d)' /\ Stands(d)'
             /\ (calls[d].at # "idle" => Known(Numbers(calls[d].saw.secrets)))'
  BY DEF CallsInv, Staged, Reads, IsNew, Stands, Known
<1> QED
  BY <1>1, <1>2 DEF CallsInv

\* The Credential gets its next version, with the secrets it has or with new ones.
LEMMA NextVersionKeeps ==
  ASSUME CallsInv, UNCHANGED <<client, calls>>, account' \in Account,
         account'.version = account.version + 1, account'.provider = account.provider,
         Accounted \subseteq Accounted',
         \/ account'.secrets = account.secrets /\ minted' = minted
         \/ /\ minted' = minted + 1 /\ minted + 1 \in Accounted'
            /\ account'.secrets = [access |-> minted + 1, refresh |-> minted + 1]
  PROVE  CallsInv'
<1>1. /\ account \in Account /\ account.version \in Nat /\ minted \in Nat /\ minted' \in Nat
      /\ minted <= minted' /\ account.secrets \in [access : Token, refresh : Token]
  BY DEF CallsInv, CallsTypeOK, Account
<1>2. CASE account'.secrets = account.secrets /\ minted' = minted
  <2>1. AccountStands' /\ Known(Numbers(account.secrets))'
    BY <1>2 DEF CallsInv, AccountStands, Known
  <2>2. ASSUME NEW d \in Calls PROVE IsNew(d)' /\ Stands(d)'
    BY <1>2 DEF CallsInv, IsNew, Stands
  <2>3. ASSUME NEW d \in Calls PROVE calls[d].at # "idle" => Known(Numbers(calls[d].saw.secrets))'
    BY <1>2 DEF CallsInv, Known
  <2>4. ASSUME NEW d \in Calls PROVE Staged(calls[d])' /\ Reads(calls[d])'
    <3>1. calls[d].at # "idle" => calls[d].saw.version <= account.version
                                  /\ calls[d].saw.version \in Nat
      BY FieldsOf DEF Reads, Account
    <3> QED
      BY <1>1, <3>1, FieldsOf DEF Staged, Reads
  <2>5. CallsTypeOK'
    BY <1>1 DEF CallsInv, CallsTypeOK
  <2> QED
    BY <2>1, <2>2, <2>3, <2>4, <2>5 DEF CallsInv
<1>3. CASE /\ minted' = minted + 1 /\ minted + 1 \in Accounted'
           /\ account'.secrets = [access |-> minted + 1, refresh |-> minted + 1]
  <2>1. Numbers(account'.secrets) = {minted + 1}
    BY <1>3 DEF Numbers
  <2>2. AccountStands'
    <3>1. Renewable(account'.provider, account'.secrets) = minted + 1
      BY <1>3 DEF Renewable
    <3> QED
      BY <1>3, <3>1 DEF AccountStands
  <2>3. Known(Numbers(account.secrets))'
    BY <1>1, <1>3, <2>1 DEF Known
  <2>4. ASSUME NEW d \in Calls
        PROVE  (calls[d].at # "idle" => Known(Numbers(calls[d].saw.secrets)))'
    <3>1. calls[d].at # "idle" => \A x \in Numbers(calls[d].saw.secrets) : x \in Nat => x <= minted
      BY DEF CallsInv, Known
    <3> QED
      BY <1>1, <1>3, <3>1 DEF Known
  <2>5. ASSUME NEW d \in Calls PROVE IsNew(d)' /\ Stands(d)'
    <3>1. CASE calls[d].answer = Nil
      BY <3>1 DEF IsNew, Stands
    <3>2. CASE calls[d].answer # Nil
      <4>1. PICK n \in Nat : n = calls[d].answer.access
        BY <3>2, FieldsOf DEF Call, Answer
      <4>2. n <= minted
        BY <3>2, <4>1 DEF CallsInv, IsNew
      <4>3. n <= minted' /\ n # minted + 1
        BY <1>1, <1>3, <4>1, <4>2
      <4>4. \A e \in Calls : /\ calls[e].at # "idle" => n \notin Numbers(calls[e].saw.secrets)
                             /\ e # d /\ calls[e].answer # Nil => calls[e].answer.access # n
        BY <3>2, <4>1 DEF CallsInv, IsNew
      <4>5. IsNew(d)'
        BY <2>1, <4>1, <4>3, <4>4 DEF IsNew
      <4>6. Stands(d)'
        BY DEF CallsInv, Stands
      <4> QED
        BY <4>5, <4>6
    <3> QED
      BY <3>1, <3>2
  <2>6. ASSUME NEW d \in Calls PROVE Staged(calls[d])' /\ Reads(calls[d])'
    <3>1. calls[d].at # "idle" => calls[d].saw.version <= account.version
                                  /\ calls[d].saw.version \in Nat
      BY FieldsOf DEF Reads, Account
    <3> QED
      BY <1>1, <3>1, FieldsOf DEF Staged, Reads
  <2>7. CallsTypeOK'
    BY <1>1 DEF CallsInv, CallsTypeOK
  <2> QED
    BY <2>2, <2>3, <2>4, <2>5, <2>6, <2>7 DEF CallsInv
<1> QED
  BY <1>2, <1>3

LEMMA SpentStays == ASSUME UNCHANGED calls PROVE \A c \in Calls : Spent(c)' = Spent(c)
BY DEF Spent

LEMMA ServeLateKeeps == ASSUME CallsInv, ServeLate PROVE CallsInv'
<1>1. Accounted \subseteq Accounted'
  BY SpentStays DEF Accounted, ServeLate, Replaces
<1> QED
  BY <1>1, OthersKeep DEF ServeLate, CallsInv, CallsTypeOK

LEMMA ChangeClientKeeps == ASSUME CallsInv, ChangeClient PROVE CallsInv'
<1>1. Accounted \subseteq Accounted'
  BY SpentStays DEF Accounted, ChangeClient
<1> QED
  BY <1>1, OthersKeep DEF ChangeClient

LEMMA EditKeeps == ASSUME CallsInv, Edit PROVE CallsInv'
<1>1. /\ account \in Account /\ account.version \in Nat /\ account.version + 1 \in Nat
      /\ minted + 1 \in Nat
  BY DEF CallsInv, CallsTypeOK, Account
<1>2. PICK v \in Nat : v = account.version + 1
  BY <1>1
<1>3. CASE account' = [account EXCEPT !.version = @ + 1] /\ UNCHANGED <<alive, minted>>
  <2>1. account' = [account EXCEPT !.version = v]
    BY <1>1, <1>2, <1>3
  <2>2. /\ account' \in Account /\ account'.version = v /\ account'.secrets = account.secrets
        /\ account'.provider = account.provider
    BY <1>1, <2>1 DEF Account
  <2>3. Accounted \subseteq Accounted'
    BY <1>3, SpentStays DEF Accounted, Edit
  <2> QED
    BY <1>2, <1>3, <2>2, <2>3, NextVersionKeeps DEF Edit
<1>4. CASE /\ account' = [account EXCEPT !.version = @ + 1,
                            !.secrets = [access |-> minted + 1, refresh |-> minted + 1]]
           /\ alive' = alive \cup {minted + 1} /\ minted' = minted + 1
  <2>1. PICK s \in [access : Token, refresh : Token] :
          s = [access |-> minted + 1, refresh |-> minted + 1]
    BY <1>1 DEF Token
  <2>2. account' = [account EXCEPT !.version = v, !.secrets = s]
    BY <1>1, <1>2, <1>4, <2>1
  <2>3. /\ account' \in Account /\ account'.version = v /\ account'.secrets = s
        /\ account'.provider = account.provider
    BY <1>1, <2>2 DEF Account
  <2>4. Accounted \subseteq Accounted' /\ minted + 1 \in Accounted'
    BY <1>4, SpentStays DEF Accounted, Edit
  <2> QED
    BY <1>2, <1>4, <2>1, <2>3, <2>4, NextVersionKeeps DEF Edit
<1> QED
  BY <1>3, <1>4 DEF Edit

LEMMA RevokeKeeps == ASSUME CallsInv, Revoke PROVE CallsInv'
<1>1. account \in Account /\ account.version \in Nat /\ account.version + 1 \in Nat
  BY DEF CallsInv, CallsTypeOK, Account
<1>2. PICK v \in Nat : v = account.version + 1
  BY <1>1
<1>3. account' = [account EXCEPT !.state = "revoked", !.version = v]
  BY <1>1, <1>2 DEF Revoke
<1>4. /\ account' \in Account /\ account'.version = v /\ account'.secrets = account.secrets
      /\ account'.provider = account.provider
  BY <1>1, <1>3 DEF Account
<1>5. Accounted \subseteq Accounted'
  BY SpentStays DEF Accounted, Revoke
<1> QED
  BY <1>2, <1>4, <1>5, NextVersionKeeps DEF Revoke

-----------------------------------------------------------------------------
(* The specification.                                                       *)

LEMMA CallsStart == ASSUME CallsInit PROVE CallsInv
<1>0. PICK p \in Providers : \E m \in Methods(p) \cup {"unbound"}, s \in Secrets(p),
           profile \in {"verified", "other"}, bound \in BOOLEAN :
        account = [provider |-> p, method |-> m, profile |-> profile, secrets |-> s,
                   bound |-> bound, state |-> "active", version |-> 1]
  BY DEF CallsInit
<1>1. PICK m \in Methods(p) \cup {"unbound"}, s \in Secrets(p),
           profile \in {"verified", "other"}, bound \in BOOLEAN :
        account = [provider |-> p, method |-> m, profile |-> profile, secrets |-> s,
                   bound |-> bound, state |-> "active", version |-> 1]
  BY <1>0
<1>2. s \in [access : Token, refresh : Token] /\ Numbers(s) \subseteq {1, Nil}
  <2>1. CASE p \in OAuthProviders
    <3>1. PICK r \in {Nil, 1} :
            s = [access |-> 1,
                 refresh |-> ResultRefreshToken(Service(p), [access |-> 1, refresh |-> r], Nil)]
      BY <2>1 DEF Secrets
    <3>2. ResultRefreshToken(Service(p), [access |-> 1, refresh |-> r], Nil) \in {1, Nil}
      BY DEF ResultRefreshToken
    <3> QED
      BY <3>1, <3>2 DEF Token, Numbers
  <2>2. CASE p \notin OAuthProviders
    BY <2>2 DEF Secrets, Token, Numbers
  <2> QED
    BY <2>1, <2>2
<1>3. /\ account \in Account /\ account.version = 1 /\ account.secrets = s
      /\ account.provider = p
  BY <1>1, <1>2, MethodsAre DEF Account
<1>4. \A c \in Calls : calls[c] = NoCall
  BY DEF CallsInit
<1>5. CallsTypeOK
  BY <1>3, NoCallIs DEF CallsInit, CallsTypeOK
<1>6. AccountStands
  <2>1. Renewable(p, s) \in {1, Nil}
    BY <1>2, RenewableIs
  <2> QED
    BY <1>3, <2>1 DEF CallsInit, AccountStands, Accounted
<1>7. Known(Numbers(account.secrets))
  BY <1>2, <1>3, CallsAssumption DEF CallsInit, Known
<1>8. ASSUME NEW c \in Calls
      PROVE  /\ Staged(calls[c]) /\ Reads(calls[c]) /\ IsNew(c) /\ Stands(c)
             /\ calls[c].at # "idle" => Known(Numbers(calls[c].saw.secrets))
  BY <1>4, NoCallIs DEF Reads, IsNew, Stands
<1> QED
  BY <1>5, <1>6, <1>7, <1>8 DEF CallsInv

LEMMA CallsStep == ASSUME CallsInv, [CallsNext]_callVars PROVE CallsInv'
<1>1. CASE UNCHANGED callVars
  <2>1. Accounted \subseteq Accounted'
    BY <1>1, SpentStays DEF Accounted, callVars
  <2> QED
    BY <1>1, <2>1, OthersKeep DEF callVars, CallsInv, CallsTypeOK
<1>2. ASSUME NEW c \in Calls,
             Validate(c) \/ TestConnection(c) \/ HealthCheck(c) \/ Refresh(c) \/ Authenticate(c)
      PROVE  CallsInv'
  BY <1>2, OperationKeeps
<1>3. ASSUME NEW c \in Calls, Resolve(c) \/ Dial(c) \/ NoConnector(c) \/ Lose(c)
      PROVE  CallsInv'
  BY <1>3, ResolveKeeps, DialKeeps, NoConnectorKeeps, LoseKeeps
<1>4. ASSUME NEW c \in Calls, ServeRefresh(c) \/ Serve(c) PROVE CallsInv'
  BY <1>4, ServeRefreshKeeps, ServeKeeps
<1>5. ASSUME NEW c \in Calls, NextRequest(c) \/ Complete(c) \/ Commit(c) PROVE CallsInv'
  BY <1>5, NextRequestKeeps, CompleteKeeps, CommitKeeps
<1>6. ASSUME ServeLate \/ Edit \/ Revoke \/ ChangeClient PROVE CallsInv'
  BY <1>6, ServeLateKeeps, EditKeeps, RevokeKeeps, ChangeClientKeeps
<1> QED
  BY <1>1, <1>2, <1>3, <1>4, <1>5, <1>6 DEF CallsNext

\* The inductive invariant of the calls (CredentialManager, ProviderManager, the
\* services and HttpClient): what each call has at its stage, that a number is
\* given out once, and that the stored token is accounted for.
THEOREM CallsInvariant == CallsSpec => []CallsInv
<1>1. CallsInit => CallsInv
  BY CallsStart
<1>2. CallsInv /\ [CallsNext]_callVars => CallsInv'
  BY CallsStep
<1> QED
  BY <1>1, <1>2, PTL DEF CallsSpec

\* HttpClient and the egress guard: whatever the name answers later, a socket
\* opens only to an address that was judged for this request, and all the
\* addresses judged with it are public.
THEOREM CallsDialWhatTheyJudged == CallsSpec => []DialsWhatItJudged
<1>1. CallsInv => DialsWhatItJudged
  <2> SUFFICES ASSUME CallsInv, NEW c \in Calls, calls[c].at \in {"sent", "answered"}
               PROVE  /\ \E i \in DOMAIN calls[c].judged : calls[c].judged[i] = calls[c].address
                      /\ \A i \in DOMAIN calls[c].judged : Class(calls[c].judged[i]) = "public"
    BY DEF DialsWhatItJudged
  <2>1. /\ calls[c].judged \in Lookups /\ calls[c].judged # <<>>
        /\ calls[c].address = calls[c].judged[1] /\ AllPublic(calls[c].judged)
    BY FieldsOf DEF Staged
  <2>2. calls[c].judged \in Seq(Seq(Nat))
    BY <2>1, CallsAssumption
  <2>3. 1 \in DOMAIN calls[c].judged
    BY <2>1, <2>2
  <2> QED
    BY <2>1, <2>3 DEF AllPublic
<1> QED
  BY <1>1, CallsInvariant, PTL

\* OAuthServices and CredentialManager: any number of refreshes, validations,
\* edits and late answers of one Credential, in any order, leave a token that
\* the provider accepts, unless a call that did not store what it got had
\* exchanged it.
THEOREM RefreshTokensSurvive == CallsSpec => []RefreshTokenSurvives
<1>1. CallsInv => RefreshTokenSurvives
  BY DEF CallsInv, AccountStands, Accounted, RefreshTokenSurvives
<1> QED
  BY <1>1, CallsInvariant, PTL
=============================================================================
