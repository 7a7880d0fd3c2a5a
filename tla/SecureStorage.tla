---------------------------- MODULE SecureStorage ----------------------------
(***************************************************************************)
(* The files under the storage path: sealed with one of the configured     *)
(* keys, or plain from before.  The server migrates the listed ones before *)
(* it serves, and may crash at any point of that; a command of the CLI is  *)
(* a process of its own that works on the same files without migrating.    *)
(***************************************************************************)
EXTENDS Naturals, Sequences, FiniteSets, SequencesExt

CONSTANTS Listed,        \* rootFiles and the recursive directories, sorted
          Unlisted,      \* files the migration does not list
          Disks,         \* what may be there at first
          Confs,         \* environments an operator may run a process with
          MaxDisturbances, \* bound: starts, faults and jumps of the clock
          Nil

KeyValues == UNION {{conf.keys[v] : v \in DOMAIN conf.keys} : conf \in Confs}

\* An environment gives keys by version, and may name a version as the active one.
ASSUME StorageAssumption ==
  /\ Listed \in Seq(ToSet(Listed)) /\ Nil \notin Nat /\ MaxDisturbances \in Nat
  /\ \A conf \in Confs : /\ DOMAIN conf.keys \subseteq Nat \ {0}
                         /\ conf.active \in Nat \cup {Nil}

Files == ToSet(Listed) \cup Unlisted
Processes == {"server", "cli"}

VARIABLES disk,       \* per file: Nil or its content
          proc,       \* per process: whether it runs, its environment, its migration
          foreign,    \* a CLI has run with other keys than the server
          overlapped, \* a process has written over what another one wrote meanwhile
          budget      \* disturbances so far

storageVars == <<disk, proc, foreign, overlapped, budget>>

Max2(S) == CHOOSE x \in S : \A y \in S : y <= x
Absent(c) == c = Nil

Down == [at |-> "down", conf |-> Nil, next |-> 1, held |-> Nil]

StorageInit ==
  /\ disk \in Disks
  /\ proc = [p \in Processes |-> Down]
  /\ foreign = FALSE /\ overlapped = FALSE
  /\ budget = 0

-----------------------------------------------------------------------------
(* Keys.  A configuration maps versions to keys; a payload carries a version. *)

\* configuredKeys, key: a version that is missing or whose key is unfit fails.
CurrentKeyVersion(conf) == IF conf.active # Nil THEN conf.active ELSE Max2(DOMAIN conf.keys)
Fit(conf, v) == v \in DOMAIN conf.keys /\ conf.keys[v] # "unfit"
AssertConfigured(conf) == Fit(conf, CurrentKeyVersion(conf))

KeyVersion(c) == IF c.ver = Nil THEN 1 ELSE c.ver
Readable(conf, c) ==
  c.sealed => c.intact /\ Fit(conf, KeyVersion(c)) /\ conf.keys[KeyVersion(c)] = c.key

Sealed(conf, body) ==
  [sealed |-> TRUE, intact |-> TRUE, known |-> TRUE, ver |-> CurrentKeyVersion(conf),
   key |-> conf.keys[CurrentKeyVersion(conf)], body |-> body]

\* isEncryptedPayload, or a legacy form that is known for the file's name.
Supported(c) == c.sealed \/ c.known

NeedsNewKeyOnly(conf, c) == ~c.sealed                          \* mutant: old keys may stay
NeedsReEncryption(conf, c) == ~c.sealed \/ KeyVersion(c) # CurrentKeyVersion(conf)

Loadable(conf, f) == ~Absent(disk[f]) => Readable(conf, disk[f])

-----------------------------------------------------------------------------
(* Processes.                                                               *)

Running(p) == proc[p].at = "serving"
Conf(p) == proc[p].conf
Disturbance == budget < MaxDisturbances /\ budget' = budget + 1
Exit(p) == proc' = [proc EXCEPT ![p] = Down]

\* bootstrap: the provider definitions are read before anything else, and the CLI
\* goes to work at once.
Start(p, conf) ==
  /\ proc[p].at = "down" /\ Disturbance
  /\ \A f \in Unlisted : Loadable(conf, f)
  /\ IF p = "cli" THEN TRUE ELSE AssertConfigured(conf)
  /\ proc' = [proc EXCEPT ![p] = [Down EXCEPT !.at = IF p = "cli" THEN "serving" ELSE "migrating",
                                              !.conf = conf]]
  /\ foreign' = \/ foreign /\ p = "cli"
                \/ \E q \in Processes \ {p} : proc[q].at # "down" /\ proc[q].conf # conf
  /\ UNCHANGED <<disk, overlapped>>

\* migrateBeforeServing, the next file: one that cannot be read or is of no known
\* legacy form ends the start; one that is not under the active key is read.
Inspect ==
  LET s == proc["server"]  f == Listed[s.next]  c == disk[f]
      skipped == Absent(c) \/ (Readable(s.conf, c) /\ ~NeedsReEncryption(s.conf, c))
      refused == ~Absent(c) /\ ~(Supported(c) /\ Readable(s.conf, c))
  IN  /\ s.at = "migrating" /\ s.next <= Len(Listed) /\ s.held = Nil
      /\ IF skipped THEN proc' = [proc EXCEPT !["server"].next = @ + 1]
         ELSE IF refused THEN Exit("server")
         ELSE proc' = [proc EXCEPT !["server"].held = c]
      /\ UNCHANGED <<disk, foreign, overlapped, budget>>

\* ... and written back at once, beside its old content and then over it.
Reseal ==
  LET s == proc["server"]  f == Listed[s.next]
  IN  /\ s.at = "migrating" /\ s.held # Nil
      /\ \/ /\ disk' = [disk EXCEPT ![f] = Sealed(s.conf, s.held.body)]
            /\ proc' = [proc EXCEPT !["server"].held = Nil, !["server"].next = @ + 1]
            /\ overlapped' = (overlapped \/ disk[f] # s.held) /\ UNCHANGED budget
         \/ Disturbance /\ Exit("server") /\ UNCHANGED <<disk, overlapped>>
      /\ UNCHANGED foreign

Serve ==
  /\ proc["server"].at = "migrating" /\ proc["server"].next > Len(Listed)
  /\ proc' = [proc EXCEPT !["server"].at = "serving"]
  /\ UNCHANGED <<disk, foreign, overlapped, budget>>

\* Any store of the process: it reads its file and writes it in a step of its own.
Write(p, f, body) ==
  /\ Running(p) /\ Loadable(Conf(p), f) /\ AssertConfigured(Conf(p))
  /\ disk' = [disk EXCEPT ![f] = Sealed(Conf(p), body)]

SaveFile(p, f) ==
  /\ Write(p, f, {}) /\ UNCHANGED <<proc, foreign, overlapped, budget>>

StorageNext ==
  \/ \E p \in Processes, conf \in Confs : Start(p, conf)
  \/ Inspect \/ Reseal \/ Serve

\* While the server serves, every listed file there is can be read, and is under
\* the active key of its configuration: whatever keys the files had and wherever
\* earlier starts were cut off, once the old keys are taken away nothing is lost.
\* A CLI run meanwhile with another configuration is the exception.
ServedUnderActiveKey ==
  (proc["server"].at = "serving" /\ ~foreign) =>
    \A f \in ToSet(Listed) : ~Absent(disk[f]) =>
      /\ Readable(Conf("server"), disk[f]) /\ disk[f].sealed
      /\ KeyVersion(disk[f]) = CurrentKeyVersion(Conf("server"))
=============================================================================
