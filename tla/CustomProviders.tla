---------------------------- MODULE CustomProviders ----------------------------
(***************************************************************************)
(* CustomProviderService for one provider key: the stored definition, its  *)
(* projection in ProviderRegistry and the Credentials and grants that      *)
(* depend on it.                                                           *)
(*                                                                         *)
(* Mutations of definitions run one at a time (mutationQueue).  Only a     *)
(* deletion also holds the binding lock, which whoever creates a           *)
(* Credential or a grant takes; the others run beside them.  A step is     *)
(* what runs between two awaits; storage and audit may fail at each.       *)
(***************************************************************************)
EXTENDS Naturals

CONSTANTS None, Profiles,
          MaxFaults, MaxMutations     \* bounds

ASSUME ProfilesAssumption ==
  /\ None \notin Profiles /\ None \notin {"reg", "op"}
  /\ MaxFaults \in Nat /\ MaxMutations \in Nat

VARIABLES stored,      \* the definition in the file: NoDefinition, or its profile and enabled
          registered,  \* the profile in the registry, or None
          cred,        \* the profile the Credential is bound to, or None
          granted,     \* a grant refers to the provider
          reg,         \* the registration of a Credential: stage and profile
          op,          \* the mutation: its kind, stage, next and former definition, and
               \* whether the provider was registered
          lock,        \* the binding lock: None, "reg" or "op"
          drift,       \* a mutation left the registry and the file apart
          faults, mutations

definitions == <<stored, registered>>
dependants == <<cred, granted, reg>>
counters == <<faults, mutations>>
vars == <<definitions, dependants, op, lock, drift, counters>>

NoDefinition == [profile |-> None, enabled |-> FALSE]
Definition(p, on) == [profile |-> p, enabled |-> on]
Definitions == [profile : Profiles, enabled : BOOLEAN]
Kinds == {"create", "update", "disable", "enable", "delete"}
NoOp == [kind |-> "none", at |-> "idle", next |-> NoDefinition, was |-> NoDefinition,
         listed |-> FALSE]
NoReg == [at |-> "idle", profile |-> None]

\* #register builds the definition that the registry holds.
Projected(d) == d.profile
\* hydrate registers the enabled definitions, and only those.
Hydrated(d) == IF d.enabled THEN Projected(d) ELSE None

Init ==
  /\ stored = NoDefinition /\ registered = None
  /\ cred = None /\ granted = FALSE /\ reg = NoReg
  /\ op = NoOp /\ lock = None /\ drift = FALSE
  /\ faults = 0 /\ mutations = 0

-----------------------------------------------------------------------------
At(kind, stage) == op.kind = kind /\ op.at = stage
Goto(stage) == op' = [op EXCEPT !.at = stage]
Fault == faults < MaxFaults /\ faults' = faults + 1 /\ UNCHANGED mutations
NoFault == UNCHANGED counters
ReleaseOp == IF lock = "op" THEN None ELSE lock

\* The mutation ends; apart tells that its outcome does not agree with the file.
End(apart) ==
  /\ op' = NoOp
  /\ lock' = ReleaseOp
  /\ drift' = (drift \/ apart)

Begin(kind) ==
  /\ op = NoOp /\ mutations < MaxMutations
  /\ \E d \in Definitions :
       op' = [NoOp EXCEPT !.kind = kind, !.at = "load", !.next = d, !.was = stored]
  /\ mutations' = mutations + 1
  /\ UNCHANGED <<definitions, dependants, lock, drift, faults>>

\* A mutation that is refused before it changes anything.
Refuse(kind, stage, why) ==
  /\ At(kind, stage) /\ why
  /\ End(FALSE)
  /\ UNCHANGED <<definitions, dependants>> /\ NoFault

StoreFails(kind) ==
  /\ At(kind, "save") /\ kind \in {"create", "disable"}
  /\ End(FALSE)
  /\ UNCHANGED <<definitions, dependants>> /\ Fault

AuditSucceeds(kind, apart) ==
  /\ At(kind, "audit")
  /\ End(apart)
  /\ UNCHANGED <<definitions, dependants>> /\ NoFault

\* The compensation of the file fails: PROVIDER_LIFECYCLE_CONSISTENCY_FAILURE.
UndoFails ==
  /\ op.at = "undo"
  /\ End(TRUE)
  /\ UNCHANGED <<definitions, dependants>> /\ Fault

-----------------------------------------------------------------------------
\* create: the key must be free in the registry, then in the file; a
\* definition is registered whether or not it says enabled.
CheckCreate ==
  /\ At("create", "load") /\ registered = None
  /\ Goto("save")
  /\ UNCHANGED <<definitions, dependants, lock, drift>> /\ NoFault

SaveCreated ==
  /\ At("create", "save") /\ stored = NoDefinition
  /\ stored' = op.next /\ registered' = Projected(op.next)
  /\ Goto("audit")
  /\ UNCHANGED <<dependants, lock, drift>> /\ NoFault

CreateAuditFails ==
  /\ At("create", "audit")
  /\ registered' = None
  /\ Goto("undo")
  /\ UNCHANGED <<stored, dependants, lock, drift>> /\ Fault

UndoCreate ==
  /\ At("create", "undo")
  /\ stored' = NoDefinition
  /\ End(FALSE)
  /\ UNCHANGED <<registered, dependants>> /\ NoFault

-----------------------------------------------------------------------------
\* update: the definition is read, then the Credentials are counted, without
\* the binding lock; a definition keeps its enabled flag.
Edited == Definition(op.next.profile, op.was.enabled)
Profile(d) == d.profile
ProfileChanged == Profile(op.next) # Profile(op.was)

LoadUpdate ==
  /\ At("update", "load") /\ stored # NoDefinition
  /\ Goto("check")
  /\ UNCHANGED <<definitions, dependants, lock, drift>> /\ NoFault

CheckUpdate ==
  /\ At("update", "check") /\ ~(ProfileChanged /\ cred # None)
  /\ op' = [op EXCEPT !.at = "save", !.listed = (registered # None)]
  /\ registered' = None
  /\ UNCHANGED <<stored, dependants, lock, drift>> /\ NoFault

SaveUpdated ==
  /\ At("update", "save")
  /\ stored' = Edited
  /\ registered' = Hydrated(Edited)
  /\ Goto("audit")
  /\ UNCHANGED <<dependants, lock, drift>> /\ NoFault

UpdateFails ==
  /\ At("update", "save") \/ At("update", "audit")
  /\ Goto("undo")
  /\ UNCHANGED <<definitions, dependants, lock, drift>> /\ Fault

\* The former definition is stored again; it is registered again only if the
\* new one is not, else the compensation ends as a consistency failure.
UndoUpdate ==
  /\ At("update", "undo")
  /\ stored' = op.was
  /\ registered' = IF op.listed /\ registered = None THEN Projected(op.was) ELSE registered
  /\ End(op.listed /\ registered # None)
  /\ UNCHANGED dependants /\ NoFault

-----------------------------------------------------------------------------
\* disable: file first; enable: registry first.
LoadDisable ==
  /\ At("disable", "load") /\ stored.enabled /\ registered # None
  /\ Goto("save")
  /\ UNCHANGED <<definitions, dependants, lock, drift>> /\ NoFault

SaveDisabled ==
  /\ At("disable", "save")
  /\ stored' = [stored EXCEPT !.enabled = FALSE] /\ registered' = None
  /\ Goto("audit")
  /\ UNCHANGED <<dependants, lock, drift>> /\ NoFault

LoadEnable ==
  /\ At("enable", "load") /\ stored # NoDefinition /\ ~stored.enabled /\ registered = None
  /\ registered' = Projected(stored)
  /\ Goto("save")
  /\ UNCHANGED <<stored, dependants, lock, drift>> /\ NoFault

SaveEnabled ==
  /\ At("enable", "save")
  /\ stored' = [stored EXCEPT !.enabled = TRUE]
  /\ Goto("audit")
  /\ UNCHANGED <<registered, dependants, lock, drift>> /\ NoFault

\* compensateEnable and compensateDisable.
DisableAuditFails ==
  /\ At("disable", "audit")
  /\ Goto("undo")
  /\ UNCHANGED <<definitions, dependants, lock, drift>> /\ Fault

EnableFails ==
  /\ At("enable", "save") \/ At("enable", "audit")
  /\ registered' = None
  /\ Goto("undo")
  /\ UNCHANGED <<stored, dependants, lock, drift>> /\ Fault

UndoDisableInFile ==                     \* mutant: the registry is not compensated
  stored' = [stored EXCEPT !.enabled = TRUE] /\ UNCHANGED registered

UndoneDisable ==
  stored' = [stored EXCEPT !.enabled = TRUE] /\ registered' = Projected(op.was)

UndoDisable ==
  /\ At("disable", "undo")
  /\ UndoneDisable
  /\ End(FALSE)
  /\ UNCHANGED dependants /\ NoFault

UndoEnable ==
  /\ At("enable", "undo")
  /\ stored' = [stored EXCEPT !.enabled = FALSE]
  /\ End(FALSE)
  /\ UNCHANGED <<registered, dependants>> /\ NoFault

-----------------------------------------------------------------------------
\* delete: in the binding lock from the reading of the definition on.
LockNotTaken == lock' = lock             \* mutant
LockTaken == lock = None /\ lock' = "op"

LockDelete ==
  /\ At("delete", "load") /\ LockTaken
  /\ op' = [op EXCEPT !.at = "check", !.was = stored]
  /\ UNCHANGED <<definitions, dependants, drift>> /\ NoFault

CheckDelete ==
  /\ At("delete", "check") /\ op.was # NoDefinition
  /\ cred = None /\ ~granted
  /\ op' = [op EXCEPT !.at = "save", !.listed = (registered # None)]
  /\ registered' = None
  /\ UNCHANGED <<stored, dependants, lock, drift>> /\ NoFault

SaveDeleted ==
  /\ At("delete", "save")
  /\ stored' = NoDefinition
  /\ Goto("audit")
  /\ UNCHANGED <<registered, dependants, lock, drift>> /\ NoFault

\* The provider is registered again; the file is as it is, so that after a
\* failed audit the definition is gone from it.
DeleteFails ==
  /\ At("delete", "save") \/ At("delete", "audit")
  /\ registered' = IF op.listed THEN Projected(op.was) ELSE None
  /\ End(op.at = "audit" /\ op.listed)
  /\ UNCHANGED <<stored, dependants>> /\ Fault

-----------------------------------------------------------------------------
\* CredentialManager.register: the contract before the binding lock, the
\* provider again inside of it, then the create.
BeginRegister ==
  /\ reg = NoReg /\ cred = None /\ registered # None
  /\ reg' = [at |-> "lock", profile |-> registered]
  /\ UNCHANGED <<definitions, cred, granted, op, lock, drift>> /\ NoFault

LockRegister ==
  /\ reg.at = "lock" /\ lock = None
  /\ IF registered = reg.profile THEN reg' = [reg EXCEPT !.at = "save"] /\ lock' = "reg"
                                 ELSE reg' = NoReg /\ lock' = lock
  /\ UNCHANGED <<definitions, cred, granted, op, drift>> /\ NoFault

SaveRegistered ==
  /\ reg.at = "save"
  /\ cred' = reg.profile
  /\ reg' = NoReg /\ lock' = None
  /\ UNCHANGED <<definitions, granted, op, drift>> /\ NoFault

\* Grants are made for a Credential whose profile is registered, and cleaned
\* up after the Credential is deleted, or not when the cleanup fails.
GrantOrDelete ==
  /\ lock = None
  /\ \/ cred # None /\ registered = cred /\ granted' = TRUE /\ cred' = cred
     \/ cred' = None /\ granted' \in {granted, FALSE}
  /\ UNCHANGED <<definitions, reg, op, lock, drift>> /\ NoFault

\* A restart, with another repository of built-in providers or the same.
Restart ==
  /\ faults < MaxFaults /\ faults' = faults + 1
  /\ registered' = Hydrated(stored)
  /\ reg' = NoReg /\ op' = NoOp /\ lock' = None /\ drift' = FALSE
  /\ UNCHANGED <<stored, cred, granted, mutations>>

Refusals ==
  \/ Refuse("create", "load", registered # None)
  \/ Refuse("create", "save", stored # NoDefinition)
  \/ Refuse("update", "load", stored = NoDefinition)
  \/ Refuse("update", "check", ProfileChanged /\ cred # None)
  \/ Refuse("disable", "load", ~stored.enabled \/ registered = None)
  \/ Refuse("enable", "load", stored = NoDefinition \/ stored.enabled \/ registered # None)
  \/ Refuse("delete", "check", op.was = NoDefinition \/ cred # None \/ granted)

Next ==
  \/ \E kind \in Kinds : Begin(kind) \/ StoreFails(kind) \/ AuditSucceeds(kind, kind = "create" /\ ~stored.enabled)
  \/ Refusals \/ UndoFails
  \/ CheckCreate \/ SaveCreated \/ CreateAuditFails \/ UndoCreate
  \/ LoadUpdate \/ CheckUpdate \/ SaveUpdated \/ UpdateFails \/ UndoUpdate
  \/ LoadDisable \/ SaveDisabled \/ DisableAuditFails \/ UndoDisable
  \/ LoadEnable \/ SaveEnabled \/ EnableFails \/ UndoEnable
  \/ LockDelete \/ CheckDelete \/ SaveDeleted \/ DeleteFails
  \/ BeginRegister \/ LockRegister \/ SaveRegistered \/ GrantOrDelete
  \/ Restart

Spec == Init /\ [][Next]_vars

-----------------------------------------------------------------------------
\* The file is the authority: between mutations the registry holds what a
\* restart would load from it, also after one that failed and was undone.
\* drift is set where the code leaves them apart until the next restart: a
\* compensation that fails, an update whose audit fails (its compensation finds
\* the new definition registered and gives up), a deletion whose audit fails,
\* and the creation of a definition that says it is disabled.
RegistryFollowsStore == (op = NoOp /\ ~drift) => registered = Hydrated(stored)

\* A deletion never takes a definition that a Credential or a grant refers to,
\* also not one that was being created while the references were counted.
DeletedHasNoDependants ==
  [][(op.kind = "delete" /\ stored # NoDefinition /\ stored' = NoDefinition)
       => (cred' = None /\ ~granted' /\ reg.at # "save")]_vars
=============================================================================
