-------------------------------- MODULE Renewal --------------------------------
(***************************************************************************)
(* How Credentials are renewed: the scheduler's runs, which refresh what   *)
(* is about to expire and then rotate what a policy says is overdue, and   *)
(* the refreshes and validations of clients (the API, bulk actions, a      *)
(* Consumer's resolve) that meet them.                                     *)
(*                                                                         *)
(* A Secret is the number of the token its provider issued.  The provider  *)
(* is called between the reading of a Credential and its conditional write.*)
(***************************************************************************)
EXTENDS Naturals, FiniteSets

CONSTANTS N,            \* Credentials 1 .. N, in the order they are listed
          Clients,
          Traits,       \* per Credential: what its provider makes of it
          MaxStarts, MaxIssued,    \* bounds
          MaxEvents     \* what others do, and writes and calls that fail, in all

Creds == 1 .. N
Scheduler == "scheduler"
Procs == Clients \cup {Scheduler}

ASSUME RenewalAssumption ==
  /\ N \in Nat /\ Scheduler \notin Clients
  /\ Traits \in [Creds -> [method : {"bound", "unbound"}, scopes : BOOLEAN,
                           capabilities : SUBSET {"refresh", "validation"},
                           profile : {"current", "missing", "unverified", "stale"}]]
  /\ {MaxStarts, MaxIssued, MaxEvents} \subseteq Nat

VARIABLES cred,       \* per Credential: version, token, state, due, overdue
          issued,     \* per Credential: tokens its provider issued
          op,         \* per process: what it does, to which Credential, and where
          starting,   \* start() calls that wait for their first run
          timers,     \* intervals that fire
          timer,      \* this.timer is set
          running,
          report,     \* per Credential: what the last rotation said, and of what token
          budget      \* starts and events so far

vars == <<cred, issued, op, starting, timers, timer, running, report, budget>>
schedulerVars == <<starting, timers, timer, running>>

Fresh == [version |-> 1, token |-> 1, state |-> "active", due |-> FALSE, overdue |-> FALSE]
Idle == [kind |-> "none", pc |-> "idle", todo |-> {}, at |-> 0, token |-> 0,
         read |-> [c \in Creds |-> Fresh]]
Spend(what) == budget' = [budget EXCEPT ![what] = @ + 1]
Event == budget.events < MaxEvents /\ Spend("events")

Init ==
  /\ cred = [c \in Creds |-> Fresh]
  /\ issued = [c \in Creds |-> 1]
  /\ op = [p \in Procs |-> Idle]
  /\ starting = 0 /\ timers = 0 /\ timer = FALSE /\ running = FALSE
  /\ report = [c \in Creds |-> [as |-> "none", token |-> 0]]
  /\ budget = [starts |-> 0, events |-> 0]

-----------------------------------------------------------------------------
(* The scheduler: an interval, and a flag that lets one run at a time.      *)

Begin == /\ running' = TRUE
         /\ op' = [op EXCEPT ![Scheduler] = [Idle EXCEPT !.kind = "expired", !.pc = "list"]]

\* start() waits for a run before it sets its timer; stop() does not see it.
Start ==
  /\ ~timer /\ budget.starts < MaxStarts /\ Spend("starts")
  /\ starting' = starting + 1
  /\ IF running THEN UNCHANGED <<op, running>> ELSE Begin
  /\ UNCHANGED <<cred, issued, timers, timer, report>>

SetTimer ==
  /\ starting > 0 /\ starting' = starting - 1
  /\ starting = 1 => ~running
  /\ timers' = timers + 1 /\ timer' = TRUE
  /\ UNCHANGED <<cred, issued, op, running, report, budget>>

Stop ==
  /\ timer /\ Event
  /\ timers' = timers - 1 /\ timer' = FALSE
  /\ UNCHANGED <<cred, issued, op, starting, running, report>>

\* An interval fires, or somebody asks for a run; a second run is skipped.
Fire ==
  /\ timers > 0 /\ ~running /\ Begin
  /\ UNCHANGED <<cred, issued, starting, timers, timer, report, budget>>

RunOnce ==
  /\ budget.starts < MaxStarts /\ Spend("starts") /\ ~running /\ Begin
  /\ UNCHANGED <<cred, issued, starting, timers, timer, report>>

-----------------------------------------------------------------------------
(* What a provider makes of a Credential.                                   *)

\* credentialMethodContext: the method is bound, supports it and has its scopes.
MethodAllows(c) == Traits[c].method = "bound" /\ Traits[c].scopes
Capable(c, capability) == capability \in Traits[c].capabilities
\* executeCredentialOperation: the profile is the one the Credential was made for.
Executable(c, capability) ==
  MethodAllows(c) /\ Capable(c, capability) /\ Traits[c].profile = "current"

\* Active, about to expire, with the tokens to refresh it.
ShouldRefresh(k) == k.state = "active" /\ k.due

At(p, kinds, pc) == op[p].kind \in kinds /\ op[p].pc = pc
Goto(p, pc) == op' = [op EXCEPT ![p].pc = pc]
Done(p) == op' = [op EXCEPT ![p].pc = "next", ![p].at = 0, ![p].token = 0,
                            ![p].read[op[p].at] = Fresh]
GotoRead(p, pc, k) == op' = [op EXCEPT ![p].pc = pc, ![p].read = k]

\* A step that fails for one of the faults that are left, or does not.
Fails(p) == Event /\ Goto(p, "failed")

-----------------------------------------------------------------------------
(* Choosing the Credentials.                                                *)

List ==
  /\ At(Scheduler, {"expired"}, "list")
  /\ op' = [op EXCEPT ![Scheduler].todo = {c \in Creds : ShouldRefresh(cred[c])},
                      ![Scheduler].read = cred, ![Scheduler].pc = "next"]
  /\ UNCHANGED <<cred, issued, schedulerVars, report, budget>>

\* The policies look at age only, so revoked Credentials are planned as well.
PlanRotation ==
  /\ At(Scheduler, {"expired"}, "next") /\ op[Scheduler].todo = {}
  /\ op' = [op EXCEPT ![Scheduler].kind = "rotate",
                      ![Scheduler].todo = {c \in Creds : cred[c].overdue}]
  /\ UNCHANGED <<cred, issued, schedulerVars, report, budget>>

\* A single action, or a bulk action on several Credentials.
Ask(p, kind, S) ==
  /\ op[p].pc = "idle"
  /\ Event
  /\ op' = [op EXCEPT ![p] = [Idle EXCEPT !.kind = kind, !.todo = S, !.pc = "next"]]
  /\ UNCHANGED <<cred, issued, schedulerVars, report>>

NextItem(p) ==
  /\ op[p].pc = "next"
  /\ \E c \in op[p].todo :
       /\ \A d \in op[p].todo : c <= d
       /\ op' = [op EXCEPT ![p].at = c, ![p].todo = @ \ {c},
                           ![p].pc = CASE op[p].kind = "expired" -> "call"
                                       [] op[p].kind = "rotate" -> "announce"
                                       [] OTHER -> "read"]
  /\ UNCHANGED <<cred, issued, schedulerVars, report, budget>>

EndRunStuck(p) ==                       \* mutant: the flag stays after a failure
  IF p = Scheduler /\ op[p].pc # "failed" THEN running' = FALSE ELSE UNCHANGED running

EndRun(p) == IF p = Scheduler THEN running' = FALSE ELSE UNCHANGED running

Finish(p) ==
  /\ op[p].pc = "next" /\ op[p].todo = {} /\ op[p].kind # "expired"
  /\ op' = [op EXCEPT ![p] = Idle] /\ EndRun(p)
  /\ UNCHANGED <<cred, issued, starting, timers, timer, report, budget>>

-----------------------------------------------------------------------------
(* One Credential: read, ask the provider, write if it is still the same.   *)

Read(p) ==
  LET c == op[p].at IN
  /\ op[p].pc = "read"
  /\ CASE cred[c].state = "revoked" -> Goto(p, "failed")
       [] cred[c].state = "active" /\ op[p].kind = "ifDue" /\ ~cred[c].due -> Done(p)
       [] OTHER -> GotoRead(p, "call", [op[p].read EXCEPT ![c] = cred[c]])
  /\ UNCHANGED <<cred, issued, schedulerVars, report, budget>>

CapabilityOf(p) == IF op[p].kind = "validate" THEN "validation" ELSE "refresh"

\* The provider answers with a new token, or refuses.  A refresh that is not the
\* scheduler's own also checks the answer against the OAuth binding.
Call(p) ==
  LET c == op[p].at IN
  /\ op[p].pc = "call"
  /\ \/ /\ Executable(c, CapabilityOf(p)) /\ op[p].kind # "validate"
        /\ issued[c] < MaxIssued
        /\ issued' = [issued EXCEPT ![c] = @ + 1]
        /\ \/ /\ op' = [op EXCEPT ![p].token = issued[c] + 1, ![p].pc = "commit"]
              /\ UNCHANGED budget
           \/ op[p].kind # "expired" /\ Fails(p)
     \/ /\ Executable(c, "validation") /\ op[p].kind = "validate"
        /\ op' = [op EXCEPT ![p].token = op[p].read[c].token, ![p].pc = "commit"]
        /\ UNCHANGED <<issued, budget>>
     \/ ~Executable(c, CapabilityOf(p)) /\ Goto(p, "failed") /\ UNCHANGED <<issued, budget>>
     \/ Fails(p) /\ UNCHANGED issued
  /\ UNCHANGED <<cred, schedulerVars, report>>

UnchangedSinceAny(p) == cred[op[p].at].state = "active"        \* mutant: no version check
UnchangedSince(p) == /\ cred[op[p].at].version = op[p].read[op[p].at].version
                     /\ cred[op[p].at].state = "active"

\* credentialFromOAuthResult: what was read, with what the provider answered.
Renewed(p) == LET k == op[p].read[op[p].at] IN
  [k EXCEPT !.version = @ + 1, !.token = op[p].token, !.overdue = FALSE,
            !.due = @ /\ op[p].kind = "validate"]

\* saveLifecycleIfCurrent; a scheduled refresh records no Secret version.
Commit(p) ==
  LET c == op[p].at IN
  /\ op[p].pc = "commit"
  /\ \/ /\ UnchangedSince(p)
        /\ cred' = [cred EXCEPT ![c] = Renewed(p)]
        /\ IF op[p].kind \in {"expired", "validate"} THEN Done(p) ELSE Goto(p, "record")
        /\ UNCHANGED budget
     \/ ~UnchangedSince(p) /\ Goto(p, "failed") /\ UNCHANGED <<cred, budget>>
     \/ Fails(p) /\ UNCHANGED cred
  /\ UNCHANGED <<issued, schedulerVars, report>>

\* The Secret version and the audit record; either may fail after the commit.
RecordVersion(p) ==
  /\ op[p].pc = "record"
  /\ \/ (IF op[p].kind = "rotate" THEN Goto(p, "report") ELSE Done(p)) /\ UNCHANGED budget
     \/ Fails(p)
  /\ UNCHANGED <<cred, issued, schedulerVars, report>>

\* The scheduled refresh stops at the first failure, and the rotation with it;
\* a bulk action goes on with the next Credential.
GiveUp(p) ==
  /\ op[p].pc = "failed" /\ op[p].kind # "rotate"
  /\ IF p = Scheduler THEN op' = [op EXCEPT ![p] = Idle] ELSE Done(p)
  /\ EndRun(p)
  /\ UNCHANGED <<cred, issued, starting, timers, timer, report, budget>>

-----------------------------------------------------------------------------
(* Rotating: announce, rotate through the framework, report.                *)

Announce ==
  LET c == op[Scheduler].at IN
  /\ At(Scheduler, {"rotate"}, "announce")
  /\ \/ Capable(c, "refresh") /\ Goto(Scheduler, "read") /\ UNCHANGED <<report, budget>>
     \/ /\ ~Capable(c, "refresh")                   \* skipped, and noted
        /\ Done(Scheduler)
        /\ report' = [report EXCEPT ![c] = [as |-> "skipped", token |-> 0]]
        /\ UNCHANGED budget
     \/ Fails(Scheduler) /\ UNCHANGED report
  /\ UNCHANGED <<cred, issued, schedulerVars>>

Tell(c, as, token) == report' = [report EXCEPT ![c] = [as |-> as, token |-> token]]

\* The audit of the framework, the completion audit and the notification.  Only
\* when the completion audit fails is the item reported as committed.
ReportRotation ==
  LET c == op[Scheduler].at IN
  /\ At(Scheduler, {"rotate"}, "report")
  /\ \/ /\ Tell(c, "rotated", op[Scheduler].token)
        /\ Done(Scheduler) /\ UNCHANGED <<running, budget>>
     \/ /\ Event /\ UNCHANGED running
        /\ Tell(c, "committed", op[Scheduler].token) /\ Done(Scheduler)
     \/ Fails(Scheduler) /\ UNCHANGED <<running, report>>
     \/ /\ Event /\ op' = [op EXCEPT ![Scheduler] = Idle]    \* nor can it be noted
        /\ EndRun(Scheduler) /\ UNCHANGED report
  /\ UNCHANGED <<cred, issued, starting, timers, timer>>

ReportAnyFailure ==                                           \* mutant
  /\ At(Scheduler, {"rotate"}, "failed")
  /\ Tell(op[Scheduler].at, "committed", op[Scheduler].token)
  /\ Done(Scheduler)
  /\ UNCHANGED <<cred, issued, schedulerVars, budget>>

\* A failed item is audited and noted; when that fails too, the run ends.
ReportFailure ==
  /\ At(Scheduler, {"rotate"}, "failed")
  /\ \/ /\ Tell(op[Scheduler].at, "failed", 0)
        /\ Done(Scheduler) /\ UNCHANGED <<running, budget>>
     \/ /\ Event /\ UNCHANGED report
        /\ op' = [op EXCEPT ![Scheduler] = Idle] /\ EndRun(Scheduler)
  /\ UNCHANGED <<cred, issued, starting, timers, timer>>

-----------------------------------------------------------------------------
(* Meanwhile time passes, and Credentials are edited and revoked.           *)

Expire(c) ==
  /\ Event
  /\ \/ cred[c].state = "active" /\ cred' = [cred EXCEPT ![c].due = TRUE]
     \/ cred' = [cred EXCEPT ![c].overdue = TRUE]
  /\ UNCHANGED <<issued, op, schedulerVars, report>>

Change(c) ==
  /\ cred[c].state = "active" /\ Event
  /\ \E state \in {"active", "revoked"} :
       cred' = [cred EXCEPT ![c].version = @ + 1, ![c].state = state, ![c].overdue = FALSE]
  /\ UNCHANGED <<issued, op, schedulerVars, report>>

Step(p) == \/ NextItem(p) \/ Finish(p) \/ Read(p) \/ Call(p) \/ Commit(p)
           \/ RecordVersion(p) \/ GiveUp(p)
Run == Step(Scheduler) \/ List \/ PlanRotation \/ Announce \/ ReportRotation \/ ReportFailure

Next == \/ Start \/ SetTimer \/ Stop \/ Fire \/ RunOnce \/ Run
        \/ \E p \in Clients : \/ Step(p)
                              \/ \E kind \in {"refresh", "ifDue", "validate"}, S \in SUBSET Creds :
                                   S # {} /\ Ask(p, kind, S)
        \/ \E c \in Creds : Expire(c) \/ Change(c)

\* Intervals fire, and a run goes on until it ends; nothing is asked of clients.
Fairness == WF_vars(Fire) /\ WF_vars(Run)

Spec == Init /\ [][Next]_vars /\ Fairness

-----------------------------------------------------------------------------
\* Refreshes of one Credential that overlap, each with its own answer of the
\* provider, never put an older token back or undo a revocation, whichever is
\* written last (operations-guide/index.md:150-160).
OnlyForward ==
  [][\A c \in Creds : /\ cred'[c].token >= cred[c].token
                      /\ cred[c].state = "revoked" => cred'[c].state = "revoked"]_vars

\* A rotation that is reported as done or as committed is in the store.
ReportedIsStored ==
  \A c \in Creds : report[c].as \in {"rotated", "committed"} =>
    report[c].token > 0 /\ cred[c].token >= report[c].token

\* While an interval fires, what is due gets renewed in spite of failures that
\* pass, races and a run that is skipped, unless a Credential listed before it
\* can never be refreshed: the first failure ends the run.
DueIsRenewed ==
  \A c \in Creds :
    (\A d \in 1 .. c : Executable(d, "refresh")) =>
      (timers > 0 /\ ShouldRefresh(cred[c])) ~>
        (timers = 0 \/ ~ShouldRefresh(cred[c]) \/ \E d \in Creds : issued[d] = MaxIssued)
=============================================================================
