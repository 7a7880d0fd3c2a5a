--------------------------- MODULE ManagementRestore ---------------------------
(***************************************************************************)
(* Restoring a management backup over users who keep changing              *)
(* (BackupRestoreService.restoreBackup with RestoreAdmissionService).      *)
(*                                                                         *)
(* A restore reviews the backup against the current state, takes a         *)
(* snapshot to fall back on, and only then enters the restore boundary,    *)
(* where it compares the state with the one it reviewed, replaces the      *)
(* audit log, replaces the users and records the restore.  Other           *)
(* operations on users do not ask for the boundary: they run between any   *)
(* two of these steps.  The audit log itself is left out but for the       *)
(* failures of writing it.                                                 *)
(***************************************************************************)
EXTENDS AccessManagement

VARIABLES backup,     \* the users of the stored backup, or None
          restore     \* per request: its step and what it carries

vars == <<users, boot, tombs, closed, op, born, deleted, undone, scenario, backup, restore>>

Idle == [phase |-> "idle"]

Committing == {"admitted", "replacing", "published", "undoing", "reverting"}
Phase(r) == restore[r].phase
InBoundary == {r \in Restores : Phase(r) \in Committing}

Goto(r, phase) == restore' = [restore EXCEPT ![r].phase = phase]
Stop(r) == restore' = [restore EXCEPT ![r] = Idle]

-----------------------------------------------------------------------------
\* evaluateManagementBackup, the conflicts that nobody may override.  The
\* others, of role or of removal, are allowed: the controller never sets
\* allowNonTerminalResolution.
Blocked(d) ==
  \E u \in Ids(d) :
    \/ u \in tombs /\ (users[u] = None \/ users[u].gen # d[u].gen)
    \/ users[u] # None /\ users[u].gen # d[u].gen

\* The digests of both files, which differ when the files do.
Reviewed(r) == restore[r].reviewed = RestoreState

Init == AccessInit /\ backup = None /\ restore = [r \in Restores |-> Idle]

CreateBackup ==
  /\ boot /\ backup' = users
  /\ ReadState /\ UNCHANGED restore

\* preflightManagementBackup and assertCommitAllowed.
Review(r) ==
  /\ r \in scenario.restores
  /\ boot /\ backup # None /\ Phase(r) = "idle" /\ ~Blocked(backup)
  /\ restore' = [restore EXCEPT ![r] =
                   [phase |-> "reviewed", candidate |-> backup, reviewed |-> RestoreState]]
  /\ ReadState /\ UNCHANGED backup

TakeSnapshot(r) ==
  /\ Phase(r) = "reviewed"
  /\ restore' = [restore EXCEPT ![r] =
                   [phase |-> "staged", candidate |-> @.candidate, reviewed |-> @.reviewed,
                    snapshot |-> [users |-> users, tombs |-> tombs, boot |-> Loaded]]]
  /\ ReadState /\ UNCHANGED backup

\* Inside the boundary: revalidateManagementBackup.
Revalidate(r) ==
  /\ Phase(r) = "staged" /\ InBoundary = {}
  /\ IF Reviewed(r) /\ ~Blocked(restore[r].candidate)
     THEN Goto(r, "admitted") ELSE Stop(r)
  /\ ReadState /\ UNCHANGED backup

\* The audit log cannot be replaced.
ReplaceEntriesFails(r) ==
  /\ Phase(r) = "admitted" /\ "audit" \in Faults
  /\ Stop(r)
  /\ UNCHANGED <<accessVars, backup>>

PublishUsers(r) ==
  /\ Phase(r) = "admitted"
  /\ ReplaceUsers(restore[r].candidate, r)
  /\ Goto(r, "replacing")
  /\ UNCHANGED backup

\* A barred identity, or a failed first write: nothing was published.
PublishUsersFails(r) ==
  /\ Phase(r) = "admitted" /\ op = None
  /\ "write" \in Faults \/ ~MayReplace(restore[r].candidate)
  /\ Stop(r)
  /\ ReadState /\ UNCHANGED backup

RecordRestore(r) ==
  /\ Phase(r) = "published"
  /\ Stop(r)
  /\ UNCHANGED <<accessVars, backup>>

\* The restore cannot be recorded: it is undone.
RecordRestoreFails(r) ==
  /\ Phase(r) = "published" /\ "audit" \in Faults
  /\ Goto(r, "undoing")
  /\ UNCHANGED <<accessVars, backup>>

Undo(r) ==
  /\ Phase(r) = "undoing"
  /\ RestoreSnapshot(restore[r].snapshot, r)
  /\ Goto(r, "reverting")
  /\ UNCHANGED backup

UndoFails(r) ==
  /\ Phase(r) = "undoing" /\ op = None /\ "write" \in Faults
  /\ Stop(r)
  /\ UNCHANGED <<accessVars, backup>>

-----------------------------------------------------------------------------
\* The second write of whatever operation is between its two writes.
FinishWrite ==
  /\ WriteUsers
  /\ IF op.by \in Restores
     THEN IF Phase(op.by) = "replacing" THEN Goto(op.by, "published") ELSE Stop(op.by)
     ELSE UNCHANGED restore
  /\ UNCHANGED backup

FailWriteUnheard == WriteUsersFails /\ UNCHANGED <<backup, restore>>     \* mutant

\* accessPublished is not set yet: the tombstones stay as they were written.
FailWrite ==
  /\ WriteUsersFails
  /\ IF op.by \in Restores THEN Stop(op.by) ELSE UNCHANGED restore
  /\ UNCHANGED backup

Crash ==
  /\ AccessCrash
  /\ restore' = [r \in Restores |-> Idle]
  /\ UNCHANGED backup

AccessStep ==
  /\ \E u \in UserIds : \/ \E role \in scenario.roles : \/ Bootstrap(u, role)
                                               \/ CreateUser(u, role)
                                               \/ UpdateUser(u, role)
                        \/ DeleteUser(u)
  /\ UNCHANGED <<backup, restore>>

RestoreStep(r) ==
  \/ TakeSnapshot(r) \/ Revalidate(r) \/ ReplaceEntriesFails(r)
  \/ PublishUsers(r) \/ PublishUsersFails(r)
  \/ RecordRestore(r) \/ RecordRestoreFails(r) \/ Undo(r) \/ UndoFails(r)

Next ==
  \/ AccessStep \/ CreateBackup \/ FinishWrite \/ FailWrite \/ Crash
  \/ \E r \in Restores : Review(r) \/ RestoreStep(r)

\* Writes settle; the boundary and the principal queue are first come, first
\* served, so a restore that asks again and again gets its turn.
Fairness ==
  /\ WF_vars(FinishWrite \/ FailWrite)
  /\ \A r \in Restores : SF_vars(RestoreStep(r))

Spec == Init /\ [][Next]_vars /\ Fairness

-----------------------------------------------------------------------------
Stored == [users : Directory, tombs : SUBSET UserIds]
Snapshot == [users : Directory, tombs : SUBSET UserIds, boot : BOOLEAN]

Request ==
  {Idle} \cup [phase : {"reviewed"}, candidate : Directory, reviewed : Stored]
         \cup [phase : {"staged"} \cup Committing, candidate : Directory,
               reviewed : Stored, snapshot : Snapshot]

\* Every user of either file, backup or snapshot has a generation that its
\* identity was given, and a write that is pending has a waiting caller.
TypeOK ==
  /\ users \in Directory /\ tombs \in SUBSET UserIds /\ undone \in BOOLEAN /\ scenario \in Scenarios
  /\ boot \in BOOLEAN /\ closed \in BOOLEAN
  /\ born \in [UserIds -> 0 .. MaxGenerations] /\ deleted \in SUBSET UserIds
  /\ op \in {None} \cup [by : Restores \cup {"delete"}, users : Directory, flag : BOOLEAN]
  /\ op # None /\ op.by \in Restores => Phase(op.by) \in {"replacing", "reverting"}
  /\ backup \in Directory \cup {None}
  /\ restore \in [Restores -> Request]

\* An identity that was given a generation is either a user or barred: the
\* tombstone is written before the user goes (deleteUser, replaceUsers), and
\* only the undoing of a restore takes one away again.
RemovedIsBarred ==
  ~undone => \A u \in UserIds : born[u] > 0 /\ users[u] = None => u \in tombs

\* Once a user was persisted, Bootstrap is closed for good, whatever is
\* deleted, restored, undone or restarted (security-guide/index.md:266).
BootstrapStaysClosed == (\E u \in UserIds : born[u] > 0) => Loaded

Line(u) == IF users[u] # None THEN "current"
           ELSE IF born[u] > 0 THEN "removed" ELSE "unused"

Lines == INSTANCE PrincipalLines WITH line <- [u \in UserIds |-> Line(u)]

\* Until a restore is undone, no deletion, restore, failed write or restart
\* brings a removed identity back, or gives it a second generation.
ImplementsLines == Lines!Spec

\* Every restore that was reviewed comes to an end.
EveryRestoreEnds == \A r \in Restores : Phase(r) # "idle" ~> Phase(r) = "idle"
=============================================================================
