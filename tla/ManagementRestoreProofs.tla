------------------------ MODULE ManagementRestoreProofs ------------------------
(***************************************************************************)
(* What the users, the restores and Bootstrap guarantee for every set of   *)
(* identities, roles and restore requests.                                 *)
(*                                                                         *)
(* The inductive invariant adds to the properties what an operation that   *)
(* is between its two writes, and a restore that waits with a candidate    *)
(* and a snapshot, will put into the users file later.                     *)
(***************************************************************************)
EXTENDS ManagementRestore, TLAPS

Carrying == {"staged"} \cup Committing
Phases == {"idle", "reviewed"} \cup Carrying

\* Whom the pending write will leave out is barred already, and it brings
\* nobody who is not a user now.
PendingIsBarred ==
  op # None /\ ~undone =>
    /\ \A u \in UserIds : op.users[u] = None /\ born[u] > 0 => u \in tombs
    /\ Ids(op.users) \subseteq Present

\* Bootstrap is closed in the file, in every pending write and every snapshot.
BootstrapIsRecorded ==
  /\ (\E u \in UserIds : born[u] > 0) => boot
  /\ op # None => op.flag
  /\ \A r \in Restores : /\ Phase(r) # "idle" => boot
                         /\ Phase(r) \in Carrying => restore[r].snapshot.boot

\* Users, in whatever file or memory they wait, were once created.
BornIn(d) == \A u \in Ids(d) : born[u] > 0

EverybodyWasBorn ==
  /\ BornIn(users)
  /\ op # None => BornIn(op.users)
  /\ backup # None => BornIn(backup)
  /\ \A r \in Restores : /\ Phase(r) # "idle" => BornIn(restore[r].candidate)
                         /\ Phase(r) \in Carrying => BornIn(restore[r].snapshot.users)

IInv == /\ TypeOK
        /\ RemovedIsBarred
        /\ PendingIsBarred
        /\ BootstrapIsRecorded
        /\ EverybodyWasBorn

-----------------------------------------------------------------------------
(* Restore requests.                                                        *)

\* What a request carries in each phase.
LEMMA RequestShape ==
  ASSUME restore \in [Restores -> Request], NEW r \in Restores
  PROVE  /\ Phase(r) \in Phases
         /\ Phase(r) # "idle" => restore[r].candidate \in Directory
         /\ Phase(r) # "idle" => restore[r].reviewed \in Stored
         /\ Phase(r) \in Carrying => restore[r].snapshot \in Snapshot
         /\ Phase(r) \in Carrying =>
              restore[r] \in [phase : Carrying, candidate : Directory,
                              reviewed : Stored, snapshot : Snapshot]
BY DEF Request, Phase, Phases, Carrying, Committing, Idle

\* A request that goes on keeps what it carries.
LEMMA GotoKeeps ==
  ASSUME restore \in [Restores -> Request], NEW r \in Restores, NEW p \in Carrying,
         Phase(r) \in Carrying, Goto(r, p)
  PROVE  /\ restore' \in [Restores -> Request]
         /\ Phase(r)' = p
         /\ restore'[r].candidate = restore[r].candidate
         /\ restore'[r].snapshot = restore[r].snapshot
         /\ \A q \in Restores \ {r} : restore'[q] = restore[q]
<1>1. restore[r] \in [phase : Carrying, candidate : Directory,
                      reviewed : Stored, snapshot : Snapshot]
  BY RequestShape
<1>2. restore'[r] = [restore[r] EXCEPT !.phase = p]
  BY DEF Goto
<1>3. restore'[r] \in Request
  BY <1>1, <1>2 DEF Request, Carrying
<1> QED BY <1>1, <1>2, <1>3 DEF Goto, Phase

\* A request that stops carries nothing.
LEMMA StopKeeps ==
  ASSUME restore \in [Restores -> Request], NEW r \in Restores, Stop(r)
  PROVE  /\ restore' \in [Restores -> Request]
         /\ Phase(r)' = "idle"
         /\ \A q \in Restores \ {r} : restore'[q] = restore[q]
BY DEF Stop, Phase, Idle, Request

-----------------------------------------------------------------------------
(* The steps, sorted by what they do to the files.                          *)

\* No file, no pending write and no history changes; the flag in memory may be
\* read anew.
Reading == /\ UNCHANGED <<users, boot, tombs, op, born, deleted, undone, scenario>>
           /\ closed' \in {closed, Loaded}

\* The requests are as before, but for one that goes on or some that stop.
Forward(r) == \E p \in Carrying : Phase(r) \in Carrying /\ Goto(r, p)
Onward == \/ UNCHANGED restore
          \/ \E r \in Restores : (op # None => op.by # r) /\ (Forward(r) \/ Stop(r))

LEMMA LoadedIsBoolean == TypeOK => Loaded \in BOOLEAN
BY DEF TypeOK, Loaded

LEMMA InitIsSound == Init => IInv
<1> SUFFICES ASSUME Init PROVE IInv
  OBVIOUS
<1>1. /\ users = Nobody /\ boot = FALSE /\ tombs = {} /\ closed = FALSE /\ op = None
      /\ born = [u \in UserIds |-> 0] /\ deleted = {} /\ undone = FALSE
      /\ scenario \in Scenarios /\ backup = None /\ restore = [r \in Restores |-> Idle]
  BY DEF Init, AccessInit
<1>2. \A r \in Restores : Phase(r) = "idle"
  BY <1>1 DEF Phase, Idle
<1>3. Ids(users) = {}
  BY <1>1 DEF Ids, Nobody
<1>4. TypeOK
  <2>1. users \in Directory
    BY <1>1 DEF Directory, Nobody
  <2>2. born \in [UserIds -> 0 .. MaxGenerations]
    BY <1>1, AccessAssumption
  <2>3. restore \in [Restores -> Request]
    BY <1>1 DEF Request
  <2> QED BY <1>1, <2>1, <2>2, <2>3 DEF TypeOK
<1>5. BootstrapIsRecorded /\ RemovedIsBarred /\ PendingIsBarred
  BY <1>1, <1>2 DEF BootstrapIsRecorded, RemovedIsBarred, PendingIsBarred, Carrying, Committing
<1>6. EverybodyWasBorn
  BY <1>1, <1>2, <1>3 DEF EverybodyWasBorn, BornIn, Carrying, Committing
<1> QED BY <1>4, <1>5, <1>6 DEF IInv

\* A step that only reads, while requests go on or stop.
LEMMA ReadingKeeps ==
  ASSUME IInv, Reading, Onward, UNCHANGED backup
  PROVE  IInv'
<1>1. closed' \in BOOLEAN
  BY LoadedIsBoolean DEF IInv, Reading, TypeOK
<1>2. CASE UNCHANGED restore
  BY <1>1, <1>2 DEF IInv, Reading, TypeOK, RemovedIsBarred, PendingIsBarred,
     BootstrapIsRecorded, EverybodyWasBorn, BornIn, Ids, Present, Phase
<1>3. ASSUME NEW r \in Restores, op # None => op.by # r, Forward(r) \/ Stop(r)
      PROVE  IInv'
  <2> USE DEF IInv
  <2>1. restore \in [Restores -> Request]
    BY DEF TypeOK
  <2>2. /\ restore' \in [Restores -> Request]
        /\ \A q \in Restores \ {r} : restore'[q] = restore[q]
        /\ \/ Phase(r)' = "idle"
           \/ /\ Phase(r)' \in Carrying /\ Phase(r) \in Carrying
              /\ restore'[r].candidate = restore[r].candidate
              /\ restore'[r].snapshot = restore[r].snapshot
    BY <1>3, <2>1, GotoKeeps, StopKeeps DEF Forward
  <2>3. TypeOK'
    BY <1>1, <1>3, <2>2 DEF TypeOK, Reading, Phase
  <2>4. RemovedIsBarred' /\ PendingIsBarred'
    BY DEF Reading, RemovedIsBarred, PendingIsBarred, Present, Ids
  <2>5. BootstrapIsRecorded'
    BY <2>2 DEF Reading, BootstrapIsRecorded, Phase, Carrying, Committing
  <2>6. EverybodyWasBorn'
    BY <2>2 DEF Reading, EverybodyWasBorn, BornIn, Ids, Phase, Carrying, Committing
  <2> QED BY <2>3, <2>4, <2>5, <2>6
<1> QED BY <1>2, <1>3 DEF Onward

\* The readings that a restore begins with, and the backup.
LEMMA CreateBackupKeeps == IInv /\ CreateBackup => IInv'
<1> SUFFICES ASSUME IInv, CreateBackup PROVE IInv'
  OBVIOUS
<1> USE DEF IInv
<1>1. closed' \in BOOLEAN
  BY LoadedIsBoolean DEF CreateBackup, ReadState
<1>2. TypeOK'
  BY <1>1 DEF TypeOK, CreateBackup, ReadState, Phase
<1>3. RemovedIsBarred' /\ PendingIsBarred' /\ BootstrapIsRecorded'
  BY DEF CreateBackup, ReadState, RemovedIsBarred, PendingIsBarred, BootstrapIsRecorded,
         Present, Ids, Phase
<1>4. EverybodyWasBorn'
  BY DEF CreateBackup, ReadState, EverybodyWasBorn, BornIn, Ids, Phase
<1> QED BY <1>2, <1>3, <1>4

LEMMA ReviewKeeps == ASSUME IInv, NEW r \in Restores, Review(r) PROVE IInv'
<1> USE DEF IInv
<1>1. closed' \in BOOLEAN
  BY LoadedIsBoolean DEF Review, ReadState
<1>2. RestoreState \in Stored /\ backup \in Directory
  BY DEF RestoreState, Stored, TypeOK, Review
<1>3. /\ restore'[r] = [phase |-> "reviewed", candidate |-> backup, reviewed |-> RestoreState]
      /\ restore'[r] \in Request
      /\ restore' \in [Restores -> Request]
      /\ \A q \in Restores \ {r} : restore'[q] = restore[q]
  BY <1>2 DEF Review, TypeOK, Request
<1>4. TypeOK'
  BY <1>1, <1>3 DEF TypeOK, Review, ReadState, Phase
<1>5. RemovedIsBarred' /\ PendingIsBarred'
  BY DEF Review, ReadState, RemovedIsBarred, PendingIsBarred, Present, Ids
<1>6. BootstrapIsRecorded'
  BY <1>3 DEF Review, ReadState, BootstrapIsRecorded, Phase, Carrying, Committing
<1>7. EverybodyWasBorn'
  BY <1>3 DEF Review, ReadState, EverybodyWasBorn, BornIn, Ids, Phase, Carrying, Committing
<1> QED BY <1>4, <1>5, <1>6, <1>7

LEMMA TakeSnapshotKeeps == ASSUME IInv, NEW r \in Restores, TakeSnapshot(r) PROVE IInv'
<1> USE DEF IInv
<1> DEFINE snapshot == [users |-> users, tombs |-> tombs, boot |-> Loaded]
<1>1. closed' \in BOOLEAN /\ Loaded \in BOOLEAN
  BY LoadedIsBoolean DEF TakeSnapshot, ReadState
<1>2. /\ Phase(r) = "reviewed" /\ restore \in [Restores -> Request]
      /\ restore[r].candidate \in Directory /\ restore[r].reviewed \in Stored
  BY RequestShape DEF TakeSnapshot, TypeOK
<1>3. snapshot \in Snapshot
  BY <1>1 DEF Snapshot, TypeOK
<1>4. /\ restore'[r] = [phase |-> "staged", candidate |-> restore[r].candidate,
                        reviewed |-> restore[r].reviewed, snapshot |-> snapshot]
      /\ \A q \in Restores \ {r} : restore'[q] = restore[q]
  BY <1>2 DEF TakeSnapshot
<1>5. restore' \in [Restores -> Request]
  BY <1>2, <1>3, <1>4 DEF TakeSnapshot, Request
<1>6. boot
  BY <1>2 DEF BootstrapIsRecorded
<1>7. TypeOK'
  BY <1>1, <1>2, <1>4, <1>5 DEF TypeOK, TakeSnapshot, ReadState, Phase
<1>8. RemovedIsBarred' /\ PendingIsBarred'
  BY DEF TakeSnapshot, ReadState, RemovedIsBarred, PendingIsBarred, Present, Ids
<1>9. BootstrapIsRecorded'
  BY <1>2, <1>4, <1>6 DEF TakeSnapshot, ReadState, BootstrapIsRecorded, Phase, Loaded
<1>10. EverybodyWasBorn'
  BY <1>2, <1>4 DEF TakeSnapshot, ReadState, EverybodyWasBorn, BornIn, Ids, Phase, Carrying,
                    Committing
<1> QED BY <1>7, <1>8, <1>9, <1>10

-----------------------------------------------------------------------------
(* The writes.                                                              *)

\* The operations of one write.
LEMMA AdmitKeeps ==
  ASSUME IInv, NEW u \in UserIds, NEW role \in Roles, Admit(u, role),
         UNCHANGED <<backup, restore>>
  PROVE  IInv'
<1> USE DEF IInv
<1>1. NewUser(u, role) \in User
  BY AccessAssumption DEF Admit, NewUser, User, TypeOK
<1>2. /\ users' \in Directory
      /\ users'[u] = NewUser(u, role) /\ users'[u] # None
      /\ \A v \in UserIds \ {u} : users'[v] = users[v]
  BY <1>1, AccessAssumption DEF Admit, SaveUsers, TypeOK, Directory
<1>3. /\ born' \in [UserIds -> 0 .. MaxGenerations]
      /\ born'[u] = born[u] + 1
      /\ \A v \in UserIds \ {u} : born'[v] = born[v]
      /\ \A v \in UserIds : born[v] \in Nat
  BY AccessAssumption DEF Admit, TypeOK
<1>4. op = None /\ op' = None /\ boot' /\ closed'
      /\ UNCHANGED <<tombs, deleted, undone, scenario, backup, restore>>
  BY DEF Admit, SaveUsers
<1>5. TypeOK'
  BY <1>2, <1>3, <1>4 DEF TypeOK, Admit, SaveUsers
<1>6. RemovedIsBarred'
  BY <1>2, <1>3, <1>4 DEF RemovedIsBarred
<1>7. PendingIsBarred' /\ BootstrapIsRecorded'
  BY <1>4 DEF PendingIsBarred, BootstrapIsRecorded, Phase
<1>8. \A d : BornIn(d) => BornIn(d)'
  BY <1>3 DEF BornIn, Ids
<1>9. EverybodyWasBorn'
  BY <1>2, <1>3, <1>4 DEF EverybodyWasBorn, BornIn, Ids, Phase
<1> QED BY <1>5, <1>6, <1>7, <1>9

LEMMA UpdateUserKeeps ==
  ASSUME IInv, NEW u \in UserIds, NEW role \in Roles, UpdateUser(u, role),
         UNCHANGED <<backup, restore>>
  PROVE  IInv'
<1> USE DEF IInv
<1>1. users[u] \in User
  BY DEF UpdateUser, TypeOK, Directory
<1>2. [users[u] EXCEPT !.role = role] \in User
  BY <1>1 DEF User
<1>3. /\ users' \in Directory
      /\ users'[u] # None /\ users[u] # None
      /\ \A v \in UserIds \ {u} : users'[v] = users[v]
  BY <1>1, <1>2, AccessAssumption DEF UpdateUser, SaveUsers, TypeOK, Directory
<1>4. op = None /\ op' = None /\ boot' /\ closed' /\ boot' \in BOOLEAN /\ closed' \in BOOLEAN
      /\ UNCHANGED <<tombs, born, deleted, undone, scenario, backup, restore>>
  BY DEF UpdateUser, SaveUsers
<1>5. TypeOK'
  BY <1>3, <1>4 DEF TypeOK
<1>6. RemovedIsBarred' /\ PendingIsBarred' /\ BootstrapIsRecorded'
  BY <1>3, <1>4 DEF RemovedIsBarred, PendingIsBarred, BootstrapIsRecorded, Phase
<1>7. EverybodyWasBorn'
  BY <1>3, <1>4 DEF EverybodyWasBorn, BornIn, Ids, Phase
<1> QED BY <1>5, <1>6, <1>7

\* The first write of an operation of two.  What it will leave out is barred
\* and what it will bring is there already, unless it undoes a restore.
LEMMA WriteTombstonesKeeps ==
  ASSUME IInv, NEW t \in SUBSET UserIds, NEW by \in Restores \cup {"delete"},
         NEW d \in Directory, NEW flag \in BOOLEAN,
         WriteTombstones(t, by, d, flag), flag, BornIn(d), UNCHANGED backup,
         \/ undone' = TRUE
         \/ /\ undone' = undone
            /\ tombs \subseteq t
            /\ ~undone => Ids(d) \subseteq Present
            /\ ~undone => \A u \in UserIds : d[u] = None /\ born[u] > 0 => u \in t,
         \/ by \notin Restores /\ UNCHANGED restore
         \/ /\ by \in Restores /\ Phase(by) \in Carrying
            /\ \E p \in {"replacing", "reverting"} : Goto(by, p)
  PROVE  IInv'
<1> USE DEF IInv
<1>1. /\ op = None /\ op' = [by |-> by, users |-> d, flag |-> flag]
      /\ tombs' = t /\ closed' \in BOOLEAN /\ undone' \in BOOLEAN
      /\ UNCHANGED <<users, boot, born, deleted, scenario, backup>>
  BY LoadedIsBoolean DEF WriteTombstones, TypeOK
<1>2. /\ restore' \in [Restores -> Request]
      /\ by \in Restores => Phase(by)' \in {"replacing", "reverting"}
      /\ \A q \in Restores : \/ restore'[q] = restore[q]
                            \/ /\ Phase(q)' \in Carrying /\ Phase(q) \in Carrying
                               /\ restore'[q].candidate = restore[q].candidate
                               /\ restore'[q].snapshot = restore[q].snapshot
  <2>1. CASE UNCHANGED restore /\ by \notin Restores
    BY <2>1 DEF TypeOK
  <2>2. ASSUME by \in Restores, Phase(by) \in Carrying,
               NEW p \in {"replacing", "reverting"}, Goto(by, p)
        PROVE  <1>2!1 /\ <1>2!2 /\ <1>2!3
    <3>1. p \in Carrying
      BY DEF Carrying, Committing
    <3>2. /\ restore' \in [Restores -> Request]
          /\ Phase(by)' = p
          /\ restore'[by].candidate = restore[by].candidate
          /\ restore'[by].snapshot = restore[by].snapshot
          /\ \A q \in Restores \ {by} : restore'[q] = restore[q]
      BY <2>2, <3>1, GotoKeeps DEF TypeOK
    <3> QED BY <2>2, <3>1, <3>2
  <2> QED BY <2>1, <2>2
<1>3. TypeOK'
  BY <1>1, <1>2 DEF TypeOK
<1>4. RemovedIsBarred'
  BY <1>1 DEF RemovedIsBarred
<1>5. PendingIsBarred'
  BY <1>1 DEF PendingIsBarred, Present, Ids
<1>6. BootstrapIsRecorded'
  BY <1>1, <1>2 DEF BootstrapIsRecorded, Phase, Carrying, Committing
<1>7. EverybodyWasBorn'
  BY <1>1, <1>2 DEF EverybodyWasBorn, BornIn, Ids, Phase, Carrying, Committing
<1> QED BY <1>3, <1>4, <1>5, <1>6, <1>7

LEMMA DeleteUserKeeps ==
  ASSUME IInv, NEW u \in UserIds, DeleteUser(u), UNCHANGED <<backup, restore>>
  PROVE  IInv'
<1> DEFINE d == [users EXCEPT ![u] = None]
<1>1. d \in Directory /\ tombs \cup {u} \in SUBSET UserIds
  BY DEF IInv, TypeOK, Directory
<1>2. /\ BornIn(d) /\ Ids(d) \subseteq Present
      /\ ~undone => \A v \in UserIds : d[v] = None /\ born[v] > 0 => v \in tombs \cup {u}
  BY DEF IInv, EverybodyWasBorn, RemovedIsBarred, BornIn, Ids, Present, TypeOK, Directory
<1>3. "delete" \notin Restores
  BY AccessAssumption
<1>4. WriteTombstones(tombs \cup {u}, "delete", d, TRUE) /\ undone' = undone
  BY DEF DeleteUser
<1> HIDE DEF d
<1> QED BY <1>1, <1>2, <1>3, <1>4, WriteTombstonesKeeps

LEMMA PublishUsersKeeps ==
  ASSUME IInv, NEW r \in Restores, PublishUsers(r) PROVE IInv'
<1> DEFINE d == restore[r].candidate
           t == tombs \cup LeftOut(d)
           flag == Loaded \/ Ids(d) # {}
<1>1. Phase(r) = "admitted" /\ Phase(r) \in Carrying /\ Phase(r) # "idle"
  BY DEF PublishUsers, Carrying, Committing
<1>2. d \in Directory /\ t \in SUBSET UserIds /\ flag \in BOOLEAN
  BY <1>1, RequestShape, LoadedIsBoolean DEF IInv, TypeOK, LeftOut, Present, Ids
<1>3. flag /\ BornIn(d)
  BY <1>1 DEF IInv, BootstrapIsRecorded, EverybodyWasBorn, Loaded
<1>4. /\ MayReplace(d) /\ WriteTombstones(t, r, d, flag) /\ undone' = undone
      /\ Goto(r, "replacing") /\ UNCHANGED backup
  BY DEF PublishUsers, ReplaceUsers
<1>5. ~undone => Ids(d) \subseteq Present
  BY <1>3, <1>4 DEF IInv, RemovedIsBarred, MayReplace, Available, BornIn, Present, Ids
<1>6. ~undone => \A u \in UserIds : d[u] = None /\ born[u] > 0 => u \in t
  BY DEF IInv, RemovedIsBarred, LeftOut, Present, Ids
<1>7. tombs \subseteq t
  OBVIOUS
<1> HIDE DEF d, t, flag
<1> QED BY <1>1, <1>2, <1>3, <1>4, <1>5, <1>6, <1>7, WriteTombstonesKeeps

LEMMA UndoKeeps == ASSUME IInv, NEW r \in Restores, Undo(r) PROVE IInv'
<1> DEFINE s == restore[r].snapshot
           flag == s.boot \/ Ids(s.users) # {}
<1>1. Phase(r) = "undoing" /\ Phase(r) \in Carrying
  BY DEF Undo, Carrying, Committing
<1>2. s \in Snapshot
  BY <1>1, RequestShape DEF IInv, TypeOK
<1>3. s.users \in Directory /\ s.tombs \in SUBSET UserIds /\ flag \in BOOLEAN
  BY <1>2 DEF Snapshot
<1>4. flag /\ BornIn(s.users)
  BY <1>1 DEF IInv, BootstrapIsRecorded, EverybodyWasBorn
<1>5. /\ WriteTombstones(s.tombs, r, s.users, flag) /\ undone' = TRUE
      /\ Goto(r, "reverting") /\ UNCHANGED backup
  BY DEF Undo, RestoreSnapshot
<1> HIDE DEF s, flag
<1> QED BY <1>1, <1>3, <1>4, <1>5, WriteTombstonesKeeps

\* The second write, and what happens when it does not come.
LEMMA WaitingCaller ==
  ASSUME IInv, op # None, op.by \in Restores
  PROVE  /\ Phase(op.by) \in {"replacing", "reverting"}
         /\ Phase(op.by) \in Carrying
BY DEF IInv, TypeOK, Carrying, Committing

LEMMA FinishWriteKeeps == IInv /\ FinishWrite => IInv'
<1> SUFFICES ASSUME IInv, FinishWrite PROVE IInv'
  OBVIOUS
<1> USE DEF IInv
<1>1. /\ op # None /\ op' = None
      /\ op \in [by : Restores \cup {"delete"}, users : Directory, flag : BOOLEAN]
      /\ users' = op.users /\ boot' = op.flag /\ closed' = op.flag
      /\ UNCHANGED <<tombs, born, undone, scenario, backup>>
  BY DEF FinishWrite, WriteUsers, SaveUsers, TypeOK
<1>2. /\ restore' \in [Restores -> Request]
      /\ \A q \in Restores : \/ restore'[q] = restore[q]
                            \/ Phase(q)' = "idle"
                            \/ /\ Phase(q)' \in Carrying /\ Phase(q) \in Carrying
                               /\ restore'[q].candidate = restore[q].candidate
                               /\ restore'[q].snapshot = restore[q].snapshot
  <2>1. CASE op.by \notin Restores
    BY <2>1 DEF FinishWrite, TypeOK
  <2>2. CASE op.by \in Restores /\ Phase(op.by) = "replacing"
    <3>1. Goto(op.by, "published") /\ "published" \in Carrying
      BY <2>2 DEF FinishWrite, Carrying, Committing
    <3> QED BY <1>1, <2>2, <3>1, WaitingCaller, GotoKeeps DEF TypeOK
  <2>3. CASE op.by \in Restores /\ Phase(op.by) # "replacing"
    BY <2>3, StopKeeps DEF FinishWrite, TypeOK
  <2> QED BY <2>1, <2>2, <2>3
<1>3. deleted' \in SUBSET UserIds
  BY DEF FinishWrite, WriteUsers, TypeOK, Present, Ids
<1>4. TypeOK'
  BY <1>1, <1>2, <1>3 DEF TypeOK
<1>5. RemovedIsBarred' /\ PendingIsBarred'
  BY <1>1 DEF RemovedIsBarred, PendingIsBarred
<1>6. BootstrapIsRecorded'
  BY <1>1, <1>2 DEF BootstrapIsRecorded, Phase, Carrying, Committing
<1>7. EverybodyWasBorn'
  BY <1>1, <1>2 DEF EverybodyWasBorn, BornIn, Ids, Phase, Carrying, Committing
<1> QED BY <1>4, <1>5, <1>6, <1>7

LEMMA GivingUpKeeps == IInv /\ (FailWrite \/ Crash) => IInv'
<1> SUFFICES ASSUME IInv, FailWrite \/ Crash PROVE IInv'
  OBVIOUS
<1> USE DEF IInv
<1>1. /\ op' = None /\ closed' \in BOOLEAN
      /\ UNCHANGED <<users, boot, tombs, born, deleted, undone, scenario, backup>>
  BY DEF FailWrite, WriteUsersFails, Crash, AccessCrash, TypeOK
<1>2. /\ restore' \in [Restores -> Request]
      /\ \A q \in Restores : restore'[q] = restore[q] \/ Phase(q)' = "idle"
  <2>1. CASE FailWrite /\ op.by \in Restores
    BY <2>1, StopKeeps DEF FailWrite, TypeOK
  <2>2. CASE FailWrite /\ op.by \notin Restores
    BY <2>2 DEF FailWrite, TypeOK
  <2>3. CASE Crash
    BY <2>3 DEF Crash, Phase, Idle, Request
  <2> QED BY <2>1, <2>2, <2>3
<1>3. TypeOK'
  BY <1>1, <1>2 DEF TypeOK
<1>4. RemovedIsBarred' /\ PendingIsBarred'
  BY <1>1 DEF RemovedIsBarred, PendingIsBarred
<1>5. BootstrapIsRecorded'
  BY <1>1, <1>2 DEF BootstrapIsRecorded, Phase, Carrying, Committing
<1>6. EverybodyWasBorn'
  BY <1>1, <1>2 DEF EverybodyWasBorn, BornIn, Ids, Phase, Carrying, Committing
<1> QED BY <1>3, <1>4, <1>5, <1>6

-----------------------------------------------------------------------------
(* The invariant.                                                           *)

\* A request that is not writing may go on or stop; the rest is reading.
LEMMA WaitingStepKeeps ==
  ASSUME IInv, NEW r \in Restores,
         \/ Revalidate(r) \/ ReplaceEntriesFails(r) \/ PublishUsersFails(r)
         \/ RecordRestore(r) \/ RecordRestoreFails(r) \/ UndoFails(r)
  PROVE  IInv'
<1>1. Phase(r) \in {"staged", "admitted", "published", "undoing"}
  BY DEF Revalidate, ReplaceEntriesFails, PublishUsersFails, RecordRestore,
         RecordRestoreFails, UndoFails
<1>2. op # None => op.by # r
  BY <1>1 DEF IInv, TypeOK
<1>3. Forward(r) \/ Stop(r)
  <2>1. Stop(r) \/ Goto(r, "admitted") \/ Goto(r, "undoing")
    BY DEF Revalidate, ReplaceEntriesFails, PublishUsersFails, RecordRestore,
           RecordRestoreFails, UndoFails
  <2>2. Phase(r) \in Carrying /\ "admitted" \in Carrying /\ "undoing" \in Carrying
    BY <1>1 DEF Carrying, Committing
  <2> QED BY <2>1, <2>2 DEF Forward
<1>4. Reading /\ UNCHANGED backup
  BY DEF Revalidate, ReplaceEntriesFails, PublishUsersFails, RecordRestore,
         RecordRestoreFails, UndoFails, ReadState, Reading, accessVars
<1> QED BY <1>2, <1>3, <1>4, ReadingKeeps DEF Onward

LEMMA AccessStepKeeps == IInv /\ AccessStep => IInv'
<1> SUFFICES ASSUME IInv, NEW u \in UserIds, UNCHANGED <<backup, restore>>,
                    \/ \E role \in scenario.roles : \/ Bootstrap(u, role)
                                                   \/ CreateUser(u, role)
                                                   \/ UpdateUser(u, role)
                    \/ DeleteUser(u)
             PROVE  IInv'
  BY DEF AccessStep
<1>1. scenario.roles \subseteq Roles
  BY AccessAssumption DEF IInv, TypeOK
<1>2. ASSUME NEW role \in scenario.roles, Bootstrap(u, role) \/ CreateUser(u, role)
      PROVE  IInv'
  BY <1>1, <1>2, AdmitKeeps DEF Bootstrap, CreateUser
<1>3. ASSUME NEW role \in scenario.roles, UpdateUser(u, role)
      PROVE  IInv'
  BY <1>1, <1>3, UpdateUserKeeps
<1> QED BY <1>2, <1>3, DeleteUserKeeps

LEMMA RestoreStepKeeps ==
  ASSUME IInv, NEW r \in Restores, Review(r) \/ RestoreStep(r) PROVE IInv'
BY ReviewKeeps, TakeSnapshotKeeps, PublishUsersKeeps, UndoKeeps, WaitingStepKeeps
DEF RestoreStep

LEMMA Inductive == IInv /\ [Next]_vars => IInv'
<1> SUFFICES ASSUME IInv, [Next]_vars PROVE IInv'
  OBVIOUS
<1>1. CASE UNCHANGED vars
  BY <1>1, ReadingKeeps DEF vars, Reading, Onward
<1>2. CASE Next
  BY <1>2, AccessStepKeeps, CreateBackupKeeps, FinishWriteKeeps, GivingUpKeeps, RestoreStepKeeps
  DEF Next
<1> QED BY <1>1, <1>2

LEMMA Invariance == Spec => []IInv
BY InitIsSound, Inductive, PTL DEF Spec

\* Users, tombstones, backups, snapshots and requests are of their kinds, and a
\* pending write of a restore has a restore that waits for it.
THEOREM TypeCorrect == Spec => []TypeOK
<1>1. IInv => TypeOK
  BY DEF IInv
<1> QED BY Invariance, <1>1, PTL

\* Until a restore is undone, everybody who was ever created is either a user or
\* barred from returning, between any two writes and after any failure.
THEOREM RemovedStaysBarred == Spec => []RemovedIsBarred
<1>1. IInv => RemovedIsBarred
  BY DEF IInv
<1> QED BY Invariance, <1>1, PTL

\* The first administrator can be bootstrapped once: deleting, restoring,
\* undoing and restarting never reopen it.
THEOREM BootstrapIsClosed == Spec => []BootstrapStaysClosed
<1>1. IInv => BootstrapStaysClosed
  BY DEF IInv, BootstrapIsRecorded, BootstrapStaysClosed, Loaded
<1> QED BY Invariance, <1>1, PTL

-----------------------------------------------------------------------------
(* The refinement of PrincipalLines.                                        *)

LineOf == [u \in UserIds |-> Line(u)]

\* Users and history unchanged: the lines stand still.
LEMMA LinesStandStill ==
  ASSUME UNCHANGED <<users, born>> PROVE LineOf' = LineOf
BY DEF LineOf, Line

\* Once a restore is undone the lines may do anything.
LEMMA UndoneStep ==
  ASSUME undone, undone' = TRUE PROVE Lines!Undo
BY DEF Lines!Undo, Lines!LineStates, Line

LEMMA AdmitStep ==
  ASSUME IInv, NEW u \in UserIds, NEW role \in Roles, Admit(u, role)
  PROVE  Lines!Next
<1>1. CASE undone
  BY <1>1, UndoneStep DEF Admit, Lines!Next
<1>2. CASE ~undone
  <2>1. NewUser(u, role) \in User
    BY AccessAssumption DEF Admit, NewUser, User, IInv, TypeOK
  <2>2. Line(u) = "unused" /\ Line(u)' = "current"
    BY <1>2, <2>1, AccessAssumption
    DEF Admit, SaveUsers, Available, Line, IInv, TypeOK, Directory, RemovedIsBarred
  <2>3. \A v \in UserIds \ {u} : Line(v)' = Line(v)
    BY DEF Admit, SaveUsers, Line, IInv, TypeOK, Directory
  <2>4. undone' = undone
    BY DEF Admit
  <2>5. Lines!Change({u}, "unused", "current")
    BY <2>2, <2>3, <2>4 DEF Lines!Change
  <2> QED BY <2>5 DEF Lines!Next
<1> QED BY <1>1, <1>2 DEF IInv, TypeOK

LEMMA FinishWriteStep ==
  ASSUME IInv, FinishWrite PROVE Lines!Next
<1>1. undone' = undone
  BY DEF FinishWrite, WriteUsers
<1>2. CASE undone
  BY <1>1, <1>2, UndoneStep DEF Lines!Next
<1>3. CASE ~undone
  <2> DEFINE gone == Present \ Ids(op.users)
  <2>1. users' = op.users /\ born' = born /\ Ids(op.users) \subseteq Present
    BY <1>3 DEF FinishWrite, WriteUsers, SaveUsers, IInv, PendingIsBarred
  <2>2. \A u \in gone : Line(u) = "current" /\ Line(u)' = "removed"
    BY <2>1 DEF Line, Present, Ids, IInv, EverybodyWasBorn, BornIn
  <2>3. \A u \in UserIds \ gone : Line(u)' = Line(u)
    BY <2>1 DEF Line, Present, Ids
  <2>4. gone \in SUBSET UserIds
    BY DEF Present, Ids
  <2>5. Lines!Change(gone, "current", "removed")
    BY <1>1, <2>2, <2>3, <2>4 DEF Lines!Change
  <2> HIDE DEF gone
  <2> QED BY <2>4, <2>5 DEF Lines!Next
<1> QED BY <1>2, <1>3 DEF IInv, TypeOK

\* Every other step either undoes a restore or leaves users and history alone.
QuietStep == UNCHANGED <<users, born>> /\ undone' \in {undone, TRUE}

LEMMA OtherSteps ==
  ASSUME IInv, [Next]_vars, ~FinishWrite,
         ~ \E u \in UserIds, role \in scenario.roles : Admit(u, role)
  PROVE  QuietStep \/ \E u \in UserIds, role \in scenario.roles : UpdateUser(u, role)
<1> USE DEF QuietStep
<1>1. CASE UNCHANGED vars
  BY <1>1 DEF vars
<1>2. CASE AccessStep
  BY <1>2 DEF AccessStep, Bootstrap, CreateUser, DeleteUser, WriteTombstones
<1>3. CASE CreateBackup \/ FailWrite \/ Crash
  BY <1>3 DEF CreateBackup, ReadState, FailWrite, WriteUsersFails, Crash, AccessCrash
<1>4. ASSUME NEW r \in Restores, Review(r) \/ RestoreStep(r)
      PROVE  QuietStep
  BY <1>4 DEF Review, RestoreStep, TakeSnapshot, Revalidate, ReplaceEntriesFails, PublishUsers,
     PublishUsersFails, RecordRestore, RecordRestoreFails, Undo, UndoFails, ReadState,
     accessVars, ReplaceUsers, RestoreSnapshot, WriteTombstones
<1> QED BY <1>1, <1>2, <1>3, <1>4 DEF Next

LEMMA QuietStepMaps ==
  ASSUME IInv, QuietStep PROVE [Lines!Next]_<<LineOf, undone>>
<1>1. LineOf' = LineOf
  BY LinesStandStill DEF QuietStep
<1>2. CASE undone' = undone
  BY <1>1, <1>2
<1>3. CASE undone' = TRUE /\ undone
  BY <1>3, UndoneStep DEF Lines!Next
<1>4. CASE undone' = TRUE /\ ~undone
  BY <1>1, <1>4 DEF Lines!Next, Lines!Undo, LineOf
<1> QED BY <1>2, <1>3, <1>4 DEF QuietStep, IInv, TypeOK

LEMMA UpdateUserMaps ==
  ASSUME IInv, NEW u \in UserIds, NEW role \in Roles, UpdateUser(u, role)
  PROVE  <<LineOf, undone>>' = <<LineOf, undone>>
<1>1. users[u] \in User
  BY DEF UpdateUser, IInv, TypeOK, Directory
<1>2. [users[u] EXCEPT !.role = role] \in User
  BY <1>1 DEF User
<1>3. /\ users'[u] # None /\ users[u] # None
      /\ \A v \in UserIds \ {u} : users'[v] = users[v]
      /\ born' = born /\ undone' = undone
  BY <1>1, <1>2, AccessAssumption DEF UpdateUser, SaveUsers, IInv, TypeOK, Directory
<1> QED BY <1>3 DEF LineOf, Line

LEMMA StepMaps ==
  ASSUME IInv, [Next]_vars PROVE [Lines!Next]_<<LineOf, undone>>
<1>1. scenario.roles \subseteq Roles
  BY AccessAssumption DEF IInv, TypeOK
<1>2. CASE FinishWrite
  BY <1>2, FinishWriteStep
<1>3. ASSUME NEW u \in UserIds, NEW role \in scenario.roles, Admit(u, role)
      PROVE  Lines!Next
  BY <1>1, <1>3, AdmitStep
<1>4. ASSUME NEW u \in UserIds, NEW role \in scenario.roles, UpdateUser(u, role)
      PROVE  <<LineOf, undone>>' = <<LineOf, undone>>
  BY <1>1, <1>4, UpdateUserMaps
<1> QED BY <1>2, <1>3, <1>4, OtherSteps, QuietStepMaps

\* The users files implement the abstract lines: an identity is admitted once
\* and a removed one does not return, through every interleaving of user
\* changes and restores, failed write and restart, until a restore is undone.
THEOREM RestoreImplementsLines == Spec => ImplementsLines
<1>1. Init => Lines!Init
  BY DEF Init, AccessInit, Nobody, Lines!Init, Line
<1>2. IInv /\ [Next]_vars => [Lines!Next]_<<LineOf, undone>>
  BY StepMaps
<1>3. IInv /\ [Next]_vars => [Lines!Next]_<<[u \in UserIds |-> Line(u)], undone>>
  BY <1>2 DEF LineOf
<1> QED BY <1>1, <1>3, Invariance, PTL DEF Spec, ImplementsLines, Lines!Spec
=============================================================================
