--------------------------- MODULE AccessManagement ---------------------------
(***************************************************************************)
(* The users of the management API and their deletion barriers             *)
(* (AccessManagementService over AccessManagementStore).                   *)
(*                                                                         *)
(* Two files are written one after the other inside the binding lock and   *)
(* the principal queue: the tombstones, then the users.  An operation of   *)
(* one write is one action.  An operation of two is an action that reads   *)
(* both files and writes the tombstones, followed by WriteUsers; anyone    *)
(* who reads without the queue may look in between, and a failed write or  *)
(* a crash may leave it there.                                             *)
(***************************************************************************)
EXTENDS Naturals

CONSTANTS UserIds,          \* user identities
          Roles,            \* role keys and status, as far as a change of them matters
          MaxGenerations,   \* bound on the times an identity is created
          Restores,         \* restore requests
          Scenarios,        \* the roles given, the restores asked for, and what
                            \* may go wrong: "write", "audit", "crash"
          None

VARIABLES users,     \* access-management.json: the user of each identity, or None
          boot,      \* access-management.json: bootstrapCompleted
          tombs,     \* access-management-tombstones.json: barred identities
          closed,    \* this.bootstrapCompleted, in memory
          op,        \* the operation between its two writes, or None
          born,      \* per identity, how many generations it was given (history)
          deleted,   \* the identities whose deletion was completed (history)
          undone,    \* a restore has been undone (history)
          scenario   \* never changes

accessVars == <<users, boot, tombs, closed, op, born, deleted, undone, scenario>>

Faults == scenario.faults

User == [gen : 1 .. MaxGenerations, role : Roles]
Directory == [UserIds -> User \cup {None}]
Nobody == [u \in UserIds |-> None]

ASSUME AccessAssumption ==
  /\ MaxGenerations \in Nat
  /\ None \notin User
  /\ "delete" \notin Restores
  /\ \A s \in Scenarios : /\ s.roles \subseteq Roles
                          /\ s.restores \subseteq Restores
                          /\ s.faults \subseteq {"write", "audit", "crash"}

Ids(d) == {u \in UserIds : d[u] # None}
Present == Ids(users)

-----------------------------------------------------------------------------
\* this.bootstrapCompleted once the users file has been read.
LoadedFromMemory == closed \/ Present # {}          \* mutant: the flag is not read
Loaded == closed \/ boot \/ Present # {}

\* assertPrincipalIdentityAvailable.
AvailableUnlessPresent(u) == u \notin tombs \/ users[u] = None       \* mutant
Available(u) == u \notin tombs

NewUser(u, r) == [gen |-> born[u] + 1, role |-> r]

AccessInit ==
  /\ scenario \in Scenarios
  /\ users = Nobody /\ boot = FALSE /\ tombs = {}
  /\ closed = FALSE
  /\ op = None
  /\ born = [u \in UserIds |-> 0]
  /\ deleted = {} /\ undone = FALSE

\* The first write of the file that holds the users and the flag.
SaveUsers(d, flag) ==
  /\ users' = d
  /\ boot' = flag
  /\ closed' = flag

Admit(u, r) ==
  /\ op = None
  /\ users[u] = None /\ Available(u) /\ born[u] < MaxGenerations
  /\ SaveUsers([users EXCEPT ![u] = NewUser(u, r)], TRUE)
  /\ born' = [born EXCEPT ![u] = @ + 1]
  /\ UNCHANGED <<tombs, op, deleted, undone, scenario>>

\* The one administrator an empty installation may create.
Bootstrap(u, r) == ~Loaded /\ Admit(u, r)

\* The management routes answer to an authorized user, so not before the first.
CreateUser(u, r) == boot /\ Admit(u, r)

UpdateUser(u, r) ==
  /\ op = None
  /\ users[u] # None /\ users[u].role # r
  /\ SaveUsers([users EXCEPT ![u].role = r], TRUE)
  /\ UNCHANGED <<tombs, op, born, deleted, undone, scenario>>

\* An operation of two writes: the tombstones now, the users to follow.
WriteTombstones(t, by, d, flag) ==
  /\ op = None
  /\ tombs' = t
  /\ op' = [by |-> by, users |-> d, flag |-> flag]
  /\ closed' = Loaded
  /\ UNCHANGED <<users, boot, born, deleted, scenario>>

\* deleteUser; "delete" names the caller.
DeleteUser(u) ==
  /\ users[u] # None
  /\ WriteTombstones(tombs \cup {u}, "delete", [users EXCEPT ![u] = None], TRUE)
  /\ UNCHANGED undone

\* replaceUsers: whoever is left out is barred; nobody who is barred returns.
LeftOutUnbarred(d) == {}                 \* mutant: replaced users get no tombstone
LeftOut(d) == Present \ Ids(d)

MayReplace(d) == \A u \in Ids(d) : Available(u)

ReplaceUsers(d, by) ==
  /\ MayReplace(d)
  /\ WriteTombstones(tombs \cup LeftOut(d), by, d, Loaded \/ Ids(d) # {})
  /\ UNCHANGED undone

\* restoreSnapshot puts both files back, whatever they hold by now.
RestoreSnapshot(s, by) ==
  /\ WriteTombstones(s.tombs, by, s.users, s.boot \/ Ids(s.users) # {})
  /\ undone' = TRUE

WriteUsers ==
  /\ op # None
  /\ SaveUsers(op.users, op.flag)
  /\ op' = None
  /\ deleted' = IF op.by = "delete" THEN deleted \cup (Present \ Ids(op.users)) ELSE deleted
  /\ UNCHANGED <<tombs, born, undone, scenario>>

\* The second write fails; the first stays.
WriteUsersFails ==
  /\ op # None /\ "write" \in Faults
  /\ op' = None
  /\ UNCHANGED <<users, boot, tombs, closed, born, deleted, undone, scenario>>

\* The process restarts with the two files it finds.
AccessCrash ==
  /\ "crash" \in Faults
  /\ op' = None /\ closed' = FALSE
  /\ UNCHANGED <<users, boot, tombs, born, deleted, undone, scenario>>

\* What getRestoreState returns; reading the users sets the flag in memory.
RestoreState == [users |-> users, tombs |-> tombs]
ReadState == closed' = Loaded /\ UNCHANGED <<users, boot, tombs, op, born, deleted, undone, scenario>>
=============================================================================
