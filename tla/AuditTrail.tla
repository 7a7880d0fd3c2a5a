------------------------------ MODULE AuditTrail ------------------------------
(***************************************************************************)
(* The audit log in the secure storage: entries appended one after the     *)
(* other by a queue, bounded by age and number at every load and save, put *)
(* back by a management restore that fails, and kept over crashes, starts  *)
(* and changes of keys.  The clock may go back or jump.                    *)
(***************************************************************************)
EXTENDS SecureStorage

CONSTANTS RetentionAge,   \* AUDIT_RETENTION_POLICY.retentionMs
          MaxEvents,      \* AUDIT_RETENTION_POLICY.maxEvents
          Earlier,        \* the entries of the log that may be there at first
          MaxClock, MaxEntries    \* bounds

Log == "audit-log.json"

\* An entry has a time and its place in the order of recording; one that was
\* stored earlier may lack a sound time.  An envelope may be without entries.
Entry == [t : Nat, n : Nat]
StoredEntry == [t : Nat \cup {Nil}, n : Nat]
Broken == {Nil}
Content == [sealed : BOOLEAN, intact : BOOLEAN, known : BOOLEAN, ver : Nat \cup {Nil},
            key : KeyValues \cup {Nil}, body : (SUBSET StoredEntry) \cup {Broken}]

ASSUME AuditAssumption ==
  /\ RetentionAge \in Nat \ {0} /\ MaxEvents \in Nat \ {0} /\ MaxClock \in Nat \ {0}
  /\ Log \in ToSet(Listed) /\ Nil \notin Content \cup StoredEntry
  /\ Earlier \subseteq StoredEntry /\ IsFiniteSet(Earlier)
  /\ \A d \in Disks : /\ d \in [Files -> Content \cup {Nil}]
                      /\ Absent(d[Log]) \/ d[Log].body \in {Broken, Earlier}

VARIABLES clock, peak,   \* the time, and the latest it has been
          minted,        \* entries made so far
          job,           \* per process: what its queue is doing
          acked,         \* entries whose record has returned, and the earlier ones
          waived,        \* of these, the ones a restore has replaced
          restore        \* the management restore of the server

auditVars == <<storageVars, clock, peak, minted, job, acked, waived, restore>>

Newer(a, b) == a.t > b.t \/ (a.t = b.t /\ a.n > b.n)
RetainedByAge(entries, now) == {e \in entries : e.t + RetentionAge > now}

OldestOf(entries) ==                                       \* mutant: the wrong end of the order
  {e \in entries : Cardinality({d \in entries : Newer(e, d)}) < MaxEvents}
NewestOf(entries) == {e \in entries : Cardinality({d \in entries : Newer(d, e)}) < MaxEvents}

\* applyAuditRetentionPolicy: young enough, and then the newest of them.
Bounded(entries, now) == NewestOf(RetainedByAge(entries, now))

\* normalizeStoredEntries: what has no sound timestamp, action or actor is left out.
WellFormed(entries) == {e \in entries : e.t # Nil}

Idle == [do |-> "none", entry |-> Nil, seen |-> {}, raw |-> Nil]
NoRestore == [at |-> "none", snap |-> {}, acked |-> {}, waived |-> {}]

AuditInit ==
  /\ StorageInit
  /\ clock = 1 /\ peak = 1 /\ minted = Cardinality(Earlier)
  /\ job = [p \in Processes |-> Idle]
  /\ acked = WellFormed(Earlier)
  /\ waived = IF Absent(disk[Log]) THEN acked ELSE IF disk[Log].body = Broken THEN acked ELSE {}
  /\ restore = NoRestore

\* loadEntries: no file is an empty log, and so is an envelope without entries.
EntriesOf(c) == IF Absent(c) THEN {} ELSE IF c.body = Broken THEN {} ELSE WellFormed(c.body)
Raw == EntriesOf(disk[Log])

Working(p) == Running(p) /\ job[p].do = "none"
LogRest == UNCHANGED <<proc, foreign, budget, clock, peak>>

-----------------------------------------------------------------------------
(* The queue of the log: what is read in one step is written in another.    *)

Load(p, what, entry) ==
  /\ Working(p) /\ Loadable(Conf(p), Log)
  /\ job' = [job EXCEPT ![p] = [do |-> what, entry |-> entry, seen |-> Bounded(Raw, clock),
                                raw |-> disk[Log]]]
  /\ LogRest /\ UNCHANGED <<disk, overlapped, acked, waived, restore>>

NewEntry == [t |-> clock, n |-> minted + 1]
Record(p) ==
  /\ minted < MaxEntries /\ minted' = minted + 1
  /\ Load(p, "record", NewEntry)

\* list and get: what the bounds drop is dropped from the file.
Read(p) == Load(p, "read", Nil) /\ UNCHANGED minted

Wrote(p, entries) ==
  /\ Write(p, Log, entries)
  /\ overlapped' = (overlapped \/ disk[Log] # job[p].raw)
  /\ job' = [job EXCEPT ![p] = Idle]

\* A record is answered only when the save has kept its entry.
EndRecord(p) ==
  /\ job[p].do = "record"
  /\ LET kept == Bounded(job[p].seen \cup {job[p].entry}, clock)
     IN  /\ Wrote(p, kept)
         /\ acked' = IF job[p].entry \in kept THEN acked \cup {job[p].entry} ELSE acked
  /\ LogRest /\ UNCHANGED <<minted, waived, restore>>

EndRead(p) ==
  /\ job[p].do = "read"
  /\ IF ~Absent(job[p].raw) /\ job[p].raw.body # job[p].seen
     THEN Wrote(p, Bounded(job[p].seen, clock))
     ELSE job' = [job EXCEPT ![p] = Idle] /\ UNCHANGED <<disk, overlapped>>
  /\ LogRest /\ UNCHANGED <<minted, acked, waived, restore>>

\* The save fails: whoever asked is told, and the file is what it was.
FailedSave(p) ==
  /\ job[p].do # "none" /\ Disturbance
  /\ job' = [job EXCEPT ![p] = Idle]
  /\ UNCHANGED <<disk, proc, foreign, overlapped, clock, peak, minted, acked, waived, restore>>

-----------------------------------------------------------------------------
(* A management restore, which replaces the log by the backup's, here an    *)
(* empty one, and puts back what it found when it fails.                    *)

Snapshot ==
  /\ Working("server") /\ Loadable(Conf("server"), Log) /\ restore.at = "none"
  /\ restore' = [at |-> "taken", snap |-> Bounded(Raw, clock), acked |-> acked, waived |-> waived]
  /\ LogRest /\ UNCHANGED <<disk, overlapped, minted, job, acked, waived>>

ReplaceEntries ==
  /\ Working("server") /\ restore.at = "taken"
  /\ Write("server", Log, {}) /\ waived' = acked
  /\ restore' = [restore EXCEPT !.at = "replaced"]
  /\ LogRest /\ UNCHANGED <<overlapped, minted, job, acked>>

EndRestore ==
  /\ Running("server") /\ restore.at \in {"taken", "replaced"}
  /\ restore' = NoRestore
  /\ LogRest /\ UNCHANGED <<disk, overlapped, minted, job, acked, waived>>

\* restoreSnapshot: what was recorded since is not in the snapshot and goes.
RestoreSnapshot ==
  /\ Working("server") /\ restore.at = "replaced"
  /\ Write("server", Log, Bounded(restore.snap, clock))
  /\ waived' = restore.waived \cup (acked \ restore.acked)
  /\ restore' = NoRestore
  /\ LogRest /\ UNCHANGED <<overlapped, minted, job, acked>>

-----------------------------------------------------------------------------
\* A stop lets nothing finish, and a crash is no different.
Stop(p) ==
  /\ proc[p].at # "down" /\ Exit(p)
  /\ job' = [job EXCEPT ![p] = Idle]
  /\ restore' = IF p = "server" THEN NoRestore ELSE restore
  /\ UNCHANGED <<disk, foreign, overlapped, budget, clock, peak, minted, acked, waived>>

Tick ==
  /\ \E now \in 1 .. MaxClock :
       /\ now # clock /\ clock' = now
       /\ peak' = IF now > peak THEN now ELSE peak
       /\ IF now = clock + 1 THEN UNCHANGED budget ELSE Disturbance
  /\ UNCHANGED <<disk, proc, foreign, overlapped, minted, job, acked, waived, restore>>

Storage == UNCHANGED <<clock, peak, minted, job, acked, waived, restore>>

AuditNext ==
  \/ StorageNext /\ Storage
  \/ \E p \in Processes : \/ Record(p) \/ (p = "server" /\ Read(p)) \/ EndRecord(p) \/ EndRead(p)
                          \/ FailedSave(p) \/ Stop(p)
                          \/ \E f \in Files \ {Log} : SaveFile(p, f) /\ Storage
  \/ Snapshot \/ ReplaceEntries \/ EndRestore \/ RestoreSnapshot \/ Tick

AuditSpec == AuditInit /\ [][AuditNext]_auditVars

\* An entry whose record was answered is in the log from then on, over crashes,
\* interrupted migrations and changes of keys, until it has come of age by the
\* latest the clock has been, as many newer ones as the log holds were answered,
\* or a restore replaced it; a restore that fails gives back all that was answered
\* before it began.  Two processes that write at once are the exception.
AnsweredStaysLogged ==
  ~overlapped =>
    \A e \in acked \ waived :
      \/ e \in Raw
      \/ e.t + RetentionAge <= peak
      \/ Cardinality({d \in acked : Newer(d, e)}) >= MaxEvents
=============================================================================
