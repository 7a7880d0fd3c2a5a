-------------------------- MODULE CredentialLifecycle --------------------------
(***************************************************************************)
(* CredentialManager's operations on one Credential, and the Secret        *)
(* versions they record.                                                   *)
(*                                                                         *)
(* An operation reads the Credential, prepares its successor and commits   *)
(* it on condition that the version is still the one it read.  The Secret  *)
(* version is recorded afterwards, in the history's own queue; when that   *)
(* fails an update puts the former Credential back, its version number     *)
(* included.  A batch import holds the collection (`lock') until its       *)
(* versions and its audit record are written; a rollback to a Secret       *)
(* version holds the history's queue from beginning to end.                *)
(*                                                                         *)
(* Each operation brings a Secret of its own, named like the operation.    *)
(* updatedAt is left out: two Credentials that differ in it differ in      *)
(* their Secret or cleanup, or are alike for every property here.          *)
(***************************************************************************)
EXTENDS SecretHistory

CONSTANTS InitialSecret, None,
          Scenarios       \* what may be started, how often, and what may fail

Startable == {"register", "update", "edit", "refresh", "rollback", "import",
              "revoke", "delete"}

Steps == {"none", "pending", "complete", "failed"}       \* of a cleanup

ASSUME LifecycleAssumption ==
  /\ None \notin Startable \cup {"retry", "erase"}
  /\ None \notin [state : {"active", "revoked"}, version : Nat, secret : Secrets,
                  provider : Steps, history : Steps]
  /\ \A s \in Scenarios :
       /\ s.kinds \subseteq Startable
       /\ s.starts \in Nat
       /\ s.faults \subseteq {"store", "history", "audit", "crash"}
  /\ Secrets = Ops \cup {InitialSecret}

VARIABLES cred,           \* the stored Credential, or None
          gone,           \* its identity is tombstoned
          lock,           \* the import that holds the collection, or Free
          op,             \* per operation: kind, pc, what it read, what it
                          \* writes, and the history it is about to save
          scenario        \* never changes

vars == <<historyVars, cred, gone, lock, op, scenario>>

Kinds == scenario.kinds
Faults == scenario.faults
MayStart(o) == /\ op[o].pc = "idle"
               /\ Cardinality({p \in Ops : op[p].pc # "idle"}) < scenario.starts

Ended == {"ok", "failed", "rolledBack", "kept"}

Initially(s) == [state |-> "active", version |-> 1, secret |-> s,
                 provider |-> "none", history |-> "none"]
Bump(c) == [c EXCEPT !.version = @ + 1]
Active(c) == c # None /\ c.state = "active"

Init == /\ scenario \in Scenarios
        /\ cred \in {None, Initially(InitialSecret)}
        /\ HistoryInit(IF cred = None THEN [n \in {} |-> None]
                       ELSE [n \in {1} |-> Record(InitialSecret)])
        /\ gone = FALSE
        /\ lock = Free
        /\ op = [o \in Ops |-> [kind |-> None, pc |-> "idle", mine |-> None,
                                next |-> None, plan |-> None]]

At(o, kinds, pc) == op[o].kind \in kinds /\ op[o].pc = pc
Goto(o, pc) == op' = [op EXCEPT ![o].pc = pc]
Move(o, changes) ==
  op' = [op EXCEPT ![o] = [f \in DOMAIN op[o] |->
                             IF f \in DOMAIN changes THEN changes[f] ELSE op[o][f]]]

-----------------------------------------------------------------------------
(* The store: saveConditional, and what it refuses.                         *)

RevocableAfter(old, new) ==              \* mutant: a revoked one may come back
  cred # None /\ cred.version = old.version
Replaceable(old, new) ==
  /\ cred # None /\ cred.version = old.version
  /\ cred.state = "revoked" => new.state = "revoked"

\* A write that is refused or fails; its caller is told so even where only
\* the second file, the metadata, could not be written.
Lost(allowed, c, tombstoned) ==
  /\ lock = Free
  /\ \/ (~allowed \/ "store" \in Faults) /\ UNCHANGED <<cred, gone>>
     \/ allowed /\ "store" \in Faults /\ cred' = c /\ gone' = tombstoned
  /\ UNCHANGED lock

\* A write of operation o, and how o goes on.
WriteOr(o, allowed, c, tombstoned, changes, lostPc) ==
  \/ /\ lock = Free
     /\ allowed
     /\ cred' = c /\ gone' = tombstoned
     /\ Move(o, changes)
     /\ UNCHANGED lock
  \/ Lost(allowed, c, tombstoned) /\ Goto(o, lostPc)

CommitOr(o, old, new, changes, lostPc) ==
  WriteOr(o, Replaceable(old, new), new, gone, changes, lostPc)

-----------------------------------------------------------------------------
(* Starting: every operation but a rollback first reads the Credential.     *)

FirstStep(k) == CASE k = "register" -> "create"
                  [] k \in {"revoke", "delete"} -> "contain"
                  [] k = "retry" -> IF cred.provider = "complete"
                                    THEN "invalidate" ELSE "provider"
                  [] k = "erase" -> "eraseContain"
                  [] OTHER -> "commit"

\* What revoke and delete do to a Credential that is revoked already.
KindNow(k) == IF Active(cred) THEN k
              ELSE CASE k = "revoke" -> "retry" [] k = "delete" -> "erase" [] OTHER -> k

Start(o, k) ==
  /\ MayStart(o)
  /\ lock = Free
  /\ (k = "register") = (cred = None)
  /\ k \in {"refresh", "import"} => Active(cred)
  /\ op' = [op EXCEPT ![o].kind = KindNow(k), ![o].pc = FirstStep(KindNow(k)),
                      ![o].mine = cred]
  /\ UNCHANGED <<historyVars, cred, gone, lock>>

Create(o) ==
  /\ At(o, {"register"}, "create")
  /\ WriteOr(o, cred = None /\ ~gone, Initially(o), gone,
             [next |-> Initially(o), pc |-> "record"], "failed")
  /\ UNCHANGED historyVars

\* updateCredential with new Secrets, without, and refresh.
Successor(o) ==
  LET old == op[o].mine
  IN  CASE op[o].kind = "update"  -> [Bump(old) EXCEPT !.secret = o]
        [] op[o].kind = "edit"    -> Bump(old)
        [] op[o].kind = "refresh" -> [Bump(old) EXCEPT !.secret = o, !.state = "active"]

CommitChange(o) ==
  /\ At(o, {"update", "edit", "refresh"}, "commit")
  /\ CommitOr(o, op[o].mine, Successor(o),
              [next |-> Successor(o),
               pc |-> IF op[o].kind = "edit" THEN "ok" ELSE "record"], "failed")
  /\ UNCHANGED historyVars

-----------------------------------------------------------------------------
(* Recording the Secret version.                                            *)

LoadHistory(o) ==
  /\ \/ At(o, {"register", "update", "refresh", "import"}, "record") /\ Enter(o)
     \/ At(o, {"rollback"}, "record") /\ UNCHANGED historyVars
  /\ Move(o, [plan |-> WithVersion(op[o].next.secret), pc |-> "save"])
  /\ UNCHANGED <<cred, gone, lock>>

\* An error in recording: an update is undone, a refresh or rollback is not.
AfterRecordError(o) ==
  CASE op[o].kind \in {"register", "update"} -> "undo"
    [] OTHER -> "failed"

SaveVersion(o) ==
  /\ op[o].pc = "save" /\ op[o].kind # "import"
  /\ \/ SaveAndLeave(op[o].plan) /\ Goto(o, "ok")
     \/ /\ "history" \in Faults
        /\ LeaveUnsaved /\ Goto(o, AfterRecordError(o))
     \/ /\ "audit" \in Faults                     \* saved, then the audit failed
        /\ SaveAndLeave(op[o].plan) /\ Goto(o, AfterRecordError(o))
  /\ UNCHANGED <<cred, gone, lock>>

\* #rollbackFailedUpdate.  An update that cannot be undone counts as done.
UndoUpdate(o) ==
  /\ At(o, {"update"}, "undo")
  /\ CommitOr(o, op[o].next, op[o].mine, [pc |-> "rolledBack"], "ok")
  /\ UNCHANGED historyVars

\* #rollbackFailedRegistration deletes by identity, whatever the version.
UndoRegistration(o) ==
  /\ At(o, {"register"}, "undo")
  /\ WriteOr(o, cred # None, None, TRUE, [pc |-> "rolledBack"], "ok")
  /\ UNCHANGED historyVars

-----------------------------------------------------------------------------
(* rollbackCredentialSecrets.                                               *)

TakeTarget(o) ==
  /\ MayStart(o) /\ lock = Free
  /\ Active(cred)
  /\ EnterPruning(o)
  /\ \E n \in Live(Retained(versions)) :
       Move(o, [kind |-> "rollback", pc |-> "read", mine |-> cred,
                next |-> [secret |-> versions[n].secret, number |-> n]])
  /\ UNCHANGED <<cred, gone, lock>>

\* updateCredential reads again; the final admission compares with the first
\* reading, field by field.
SameAsReviewed(o) == cred = op[o].mine
ReadAgain(o) ==
  /\ At(o, {"rollback"}, "read") /\ lock = Free
  /\ \/ SameAsReviewed(o) /\ Goto(o, "commit") /\ UNCHANGED historyVars
     \/ ~SameAsReviewed(o) /\ Goto(o, "failed") /\ LeaveUnsaved
  /\ UNCHANGED <<cred, gone, lock>>

CommitRollback(o) ==
  /\ At(o, {"rollback"}, "commit")
  /\ LET new == [Bump(op[o].mine) EXCEPT !.secret = op[o].next.secret]
     IN  \/ /\ lock = Free /\ Replaceable(op[o].mine, new)
            /\ cred' = new
            /\ Goto(o, "record")
            /\ UNCHANGED <<historyVars, gone, lock>>
         \/ /\ Lost(Replaceable(op[o].mine, new), new, gone)
            /\ Goto(o, "failed") /\ LeaveUnsaved

-----------------------------------------------------------------------------
(* importCredentialBatch, overwriting the Credential: the batch keeps the   *)
(* collection until versions and audit record are stored.                   *)

SameVersion(o) == cred # None /\ cred.version = op[o].mine.version    \* mutant
SameAsPreviewed(o) == cred = op[o].mine

CommitImport(o) ==
  /\ At(o, {"import"}, "commit") /\ lock = Free
  /\ \/ LET new == [Bump(op[o].mine) EXCEPT !.secret = o]
        IN  /\ SameAsPreviewed(o)
            /\ cred' = new /\ lock' = o
            /\ Move(o, [next |-> new, pc |-> "record"])
     \/ /\ ~SameAsPreviewed(o) \/ "store" \in Faults
        /\ Goto(o, "failed") /\ UNCHANGED <<cred, lock>>
  /\ UNCHANGED <<historyVars, gone>>

SaveImportedVersion(o) ==
  /\ At(o, {"import"}, "save")
  /\ \/ /\ SaveAndStay(op[o].plan)
        /\ Move(o, [plan |-> Reverted, pc |-> "audit"])
     \/ /\ "history" \in Faults
        /\ LeaveUnsaved /\ Goto(o, "restore")
  /\ UNCHANGED <<cred, gone, lock>>

RecordImport(o) ==
  /\ At(o, {"import"}, "audit")
  /\ \/ LeaveUnsaved /\ Goto(o, "ok") /\ lock' = Free
     \/ /\ "audit" \in Faults
        /\ SaveAndLeave(op[o].plan) /\ Goto(o, "restore") /\ UNCHANGED lock
     \/ /\ {"audit", "history"} \subseteq Faults
        /\ LeaveUnsaved /\ Goto(o, "restore") /\ UNCHANGED lock
  /\ UNCHANGED <<cred, gone>>

RestoreCollection(o) ==
  /\ At(o, {"import"}, "restore")
  /\ cred' = op[o].mine /\ lock' = Free
  /\ Goto(o, "rolledBack")
  /\ UNCHANGED <<historyVars, gone>>

-----------------------------------------------------------------------------
(* revoke and delete: contain first, then clean up step by step.  A step    *)
(* is marked in the Credential with a conditional save of its own.          *)

MarkOr(o, new, pc, lostPc) ==
  /\ CommitOr(o, op[o].mine, new, [mine |-> new, pc |-> pc], lostPc)
  /\ UNCHANGED historyVars

Contained(c) == [Bump(c) EXCEPT !.state = "revoked",
                   !.provider = IF @ = "none" THEN "pending" ELSE @,
                   !.history = IF @ = "none" THEN "pending" ELSE @]

Contain(o) == /\ At(o, {"revoke", "delete"}, "contain")
              /\ MarkOr(o, Contained(op[o].mine), "provider", "failed")

\* The provider's answer and its mark.  A failure that cannot be marked is
\* swallowed; a success that cannot be marked fails the operation.
RevokeAtProvider(o) ==
  /\ At(o, {"revoke", "retry", "delete"}, "provider")
  /\ \/ MarkOr(o, [Bump(op[o].mine) EXCEPT !.provider = "complete"], "invalidate", "failed")
     \/ MarkOr(o, [Bump(op[o].mine) EXCEPT !.provider = "failed"], "invalidate", "invalidate")

LoadForInvalidation(o) ==
  /\ op[o].pc = "invalidate"
  /\ Enter(o)
  /\ Move(o, [plan |-> AllInvalidated, pc |-> "saveInvalidated"])
  /\ UNCHANGED <<cred, gone, lock>>

AfterInvalidation(o) == CASE op[o].kind \in {"revoke", "delete"} -> "markHistory"
                          [] op[o].kind = "retry" -> "ok"
                          [] op[o].kind = "erase" -> "erase"

SaveInvalidated(o) ==
  /\ op[o].pc = "saveInvalidated"
  /\ \/ SaveAndLeave(op[o].plan) /\ Goto(o, AfterInvalidation(o))
     \/ /\ "history" \in Faults
        /\ LeaveUnsaved
        /\ Goto(o, IF op[o].kind = "erase" THEN "failed" ELSE "historyFailed")
  /\ UNCHANGED <<cred, gone, lock>>

\* A revoke ends here; the delete it is part of goes on.
Revoked(o, c) ==
  Move(o, [mine |-> c,
           kind |-> IF op[o].kind = "delete" THEN "erase" ELSE op[o].kind,
           pc |-> IF op[o].kind = "delete" THEN "eraseContain" ELSE "ok"])

MarkHistory(o) ==
  /\ op[o].pc = "markHistory"
  /\ LET new == [Bump(op[o].mine) EXCEPT !.history = "complete"]
         allowed == Replaceable(op[o].mine, new)
     IN  \/ /\ lock = Free /\ allowed
            /\ cred' = new /\ Revoked(o, new)
            /\ UNCHANGED <<gone, lock>>
         \/ Lost(allowed, new, gone) /\ Goto(o, "historyFailed")
  /\ UNCHANGED historyVars

\* The failed step is marked; the error is swallowed either way.
MarkHistoryFailed(o) ==
  /\ op[o].pc = "historyFailed"
  /\ LET new == [Bump(op[o].mine) EXCEPT !.history = "failed"]
         allowed == Replaceable(op[o].mine, new)
     IN  \/ /\ lock = Free /\ allowed
            /\ cred' = new /\ Revoked(o, new)
            /\ UNCHANGED <<gone, lock>>
         \/ Lost(allowed, new, gone) /\ Revoked(o, op[o].mine)
  /\ UNCHANGED historyVars

EraseContain(o) ==
  /\ At(o, {"erase"}, "eraseContain")
  /\ MarkOr(o, Bump(op[o].mine),
            IF op[o].mine.provider = "complete" THEN "grants" ELSE "eraseProvider", "failed")

EraseAtProvider(o) ==
  /\ At(o, {"erase"}, "eraseProvider")
  /\ \/ MarkOr(o, [Bump(op[o].mine) EXCEPT !.provider = "complete"], "grants", "failed")
     \/ MarkOr(o, [Bump(op[o].mine) EXCEPT !.provider = "failed"], "kept", "kept")

\* cleanupForCredential and its mark; when either fails the delete stops.
CleanGrants(o) ==
  /\ At(o, {"erase"}, "grants")
  /\ \/ MarkOr(o, Bump(op[o].mine), "invalidate", "kept")
     \/ MarkOr(o, Bump(op[o].mine), "kept", "kept")

Erase(o) ==
  /\ At(o, {"erase"}, "erase")
  /\ WriteOr(o, cred # None /\ cred.version = op[o].mine.version, None, TRUE,
             [pc |-> "ok"], "failed")
  /\ UNCHANGED historyVars

-----------------------------------------------------------------------------
\* The process stops: the operations are forgotten, the files stay.
Crash ==
  /\ "crash" \in Faults
  /\ \E o \in Ops : op[o].pc \notin Ended \cup {"idle"}
  /\ op' = [o \in Ops |-> IF op[o].pc \in Ended \cup {"idle"} THEN op[o]
                          ELSE [op[o] EXCEPT !.pc = "failed"]]
  /\ lock' = Free
  /\ LeaveUnsaved
  /\ UNCHANGED <<cred, gone>>

Work(o) ==
  \/ Create(o) \/ CommitChange(o) \/ LoadHistory(o) \/ SaveVersion(o)
  \/ UndoUpdate(o) \/ UndoRegistration(o)
  \/ ReadAgain(o) \/ CommitRollback(o)
  \/ CommitImport(o) \/ SaveImportedVersion(o) \/ RecordImport(o) \/ RestoreCollection(o)
  \/ Contain(o) \/ RevokeAtProvider(o) \/ LoadForInvalidation(o) \/ SaveInvalidated(o)
  \/ MarkHistory(o) \/ MarkHistoryFailed(o) \/ EraseContain(o) \/ EraseAtProvider(o) \/ CleanGrants(o) \/ Erase(o)

AtRest == \A o \in Ops : op[o].pc \in Ended \cup {"idle"}

Next ==
  /\ \/ \E o \in Ops, k \in Kinds \ {"rollback"} : Start(o, k)
     \/ \E o \in Ops : "rollback" \in Kinds /\ TakeTarget(o)
     \/ \E o \in Ops : Work(o)
     \/ Lapse /\ UNCHANGED <<cred, gone, lock, op>>
     \/ Browse /\ UNCHANGED <<cred, gone, lock, op>>
     \/ Crash
     \/ AtRest /\ UNCHANGED <<historyVars, cred, gone, lock, op>>
  /\ UNCHANGED scenario

Spec == Init /\ [][Next]_vars

-----------------------------------------------------------------------------
\* Secret-version numbers are never reused: whatever two numbers were ever
\* listed, equal ones belonged to the same Secret (#nextVersion and the queue).
NumbersNameOneSecret ==
  \A p, q \in issued : p[1] = q[1] => p[2] = q[2]

\* A version whose Secret was removed never has one again, although every
\* operation writes back the whole history it has loaded.
RemovedSecretsStayRemoved ==
  [][\A n \in DOMAIN versions \cap DOMAIN versions' :
       versions[n].secret = NoSecret => versions'[n].secret = NoSecret]_vars

\* Neither a stale update, refresh or rollback nor the undoing of a failed
\* update makes a revoked Credential active or a deleted one stored again.
RevokedIsFinal ==
  [][/\ cred # None /\ cred.state = "revoked" => ~Active(cred')
     /\ gone => cred' = None]_vars

\* A batch import overwrites exactly the Credential it was previewed against,
\* even where an undone update has put an old version number back.
ImportReplacesPreviewed ==
  [][\A o \in Ops : lock = Free /\ lock' = o => cred = op[o].mine]_vars

\* A rollback reinstates a Secret that is still in the history, on a
\* Credential that is still active.
RollbackTakesRetainedVersion ==
  [][\A o \in Ops :
       At(o, {"rollback"}, "commit") /\ op[o].pc' = "record" =>
         /\ Active(cred)
         /\ versions[op[o].next.number].secret = op[o].next.secret]_vars

\* The history names what is stored: a number is one Secret's for good, and when
\* nothing fails the Secret of an active Credential has one once all operations
\* have ended, in whatever order they recorded theirs.
CurrentSecretRecorded ==
  /\ NumbersNameOneSecret
  /\ Faults = {} /\ Active(cred) /\ AtRest =>
       \E n \in DOMAIN versions : <<n, cred.secret>> \in issued
=============================================================================
