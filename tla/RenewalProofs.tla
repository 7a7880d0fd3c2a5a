----------------------------- MODULE RenewalProofs -----------------------------
(***************************************************************************)
(* What Renewal promises, for any Credentials, clients, traits of their    *)
(* providers and bounds.                                                   *)
(*                                                                         *)
(* A version of a Credential stands for one token, so whoever finds the    *)
(* version he has read finds the token he has read; and the token that his *)
(* call got was issued after it.                                           *)
(***************************************************************************)
EXTENDS Renewal, TLAPS

Kinds == {"none", "expired", "rotate", "refresh", "ifDue", "validate"}
Working == {"announce", "read", "call", "commit", "record", "report", "failed"}
Pcs == {"idle", "list", "next"} \cup Working
Credential == [version : Nat, token : Nat, state : {"active", "revoked"},
               due : BOOLEAN, overdue : BOOLEAN]
Operation == [kind : Kinds, pc : Pcs, todo : SUBSET Creds, at : Creds \cup {0}, token : Nat,
              read : [Creds -> Credential]]
Reports == [as : {"none", "skipped", "rotated", "committed", "failed"}, token : Nat]

SchedulerOK ==
  /\ starting \in Nat /\ timers \in Nat /\ timer \in BOOLEAN /\ running \in BOOLEAN
  /\ timer => timers > 0
  /\ budget \in [starts : Nat, events : Nat]

TypeOK ==
  /\ cred \in [Creds -> Credential]
  /\ issued \in [Creds -> Nat]
  /\ op \in [Procs -> Operation]
  /\ report \in [Creds -> Reports]
  /\ SchedulerOK

\* What is read of a Credential is older than it, or the same.
Before(k, c) == /\ k.version <= cred[c].version /\ k.token <= cred[c].token
                /\ k.version = cred[c].version => k.token = cred[c].token

\* What a process has read, and the token it has in hand at each stage.
Fits(q) ==
  /\ \A c \in Creds : Before(q.read[c], c)
  /\ q.pc \in Working => q.at \in Creds
  /\ q.pc = "commit" /\ q.kind = "validate" => q.token = q.read[q.at].token
  /\ q.pc = "commit" /\ q.kind # "validate" =>
       q.token > q.read[q.at].token /\ q.token <= issued[q.at]
  /\ q.pc \in {"record", "report"} => q.token > 0 /\ cred[q.at].token >= q.token

IInv ==
  /\ TypeOK /\ ReportedIsStored
  /\ \A c \in Creds : Before(Fresh, c) /\ cred[c].token <= issued[c]
  /\ \A p \in Procs : Fits(op[p])

\* What the action property says of a step.
Forward == \A c \in Creds : /\ cred'[c].token >= cred[c].token
                            /\ cred[c].state = "revoked" => cred'[c].state = "revoked"
Good == IInv' /\ Forward
-----------------------------------------------------------------------------
(* What is common to the steps.                                             *)

\* A Credential stays or goes forward, and its provider forgets nothing.
Later(c) == /\ cred'[c].version >= cred[c].version /\ cred'[c].token >= cred[c].token
            /\ cred'[c].version = cred[c].version => cred'[c].token = cred[c].token
            /\ cred[c].state = "revoked" => cred'[c].state = "revoked"
            /\ issued'[c] >= issued[c] /\ cred'[c].token <= issued'[c]

LEMMA FreshIs == Fresh \in Credential /\ Fresh.version = 1 /\ Fresh.token = 1
BY DEF Fresh, Credential

LEMMA IdleIs == /\ Idle \in Operation /\ Idle.pc = "idle" /\ Idle.read = [c \in Creds |-> Fresh]
                /\ Idle.todo = {} /\ Idle.at = 0 /\ Idle.token = 0
BY FreshIs DEF Idle, Operation, Kinds, Pcs

LEMMA BeforeStays ==
  ASSUME NEW c \in Creds, NEW k \in Credential, cred \in [Creds -> Credential],
         cred' \in [Creds -> Credential], Before(k, c), Later(c)
  PROVE  Before(k, c)'
<1>1. /\ {k.version, k.token, cred[c].version, cred[c].token} \subseteq Nat
      /\ {cred'[c].version, cred'[c].token} \subseteq Nat
  BY DEF Credential
<1> QED
  BY <1>1 DEF Before, Later

LEMMA FitsStays ==
  ASSUME NEW q \in Operation, TypeOK, Fits(q), cred' \in [Creds -> Credential],
         issued' \in [Creds -> Nat], \A c \in Creds : Later(c)
  PROVE  Fits(q)'
<1>1. \A c \in Creds : q.read[c] \in Credential
  BY DEF Operation
<1>2. \A c \in Creds : Before(q.read[c], c)'
  BY <1>1, BeforeStays DEF Fits, TypeOK
<1>3. q.token \in Nat /\ \A c \in Creds : /\ issued[c] \in Nat /\ issued'[c] \in Nat
                                         /\ cred[c].token \in Nat /\ cred'[c].token \in Nat
  BY DEF Operation, TypeOK, Credential
<1>4. q.pc \in Working => q.at \in Creds
  BY DEF Fits
<1>5. q.pc = "commit" /\ q.kind # "validate" => q.token <= issued'[q.at]
  BY <1>3, <1>4 DEF Fits, Later, Working
<1>6. q.pc \in {"record", "report"} => q.token > 0 /\ cred'[q.at].token >= q.token
  BY <1>3, <1>4 DEF Fits, Later, Working
<1> QED
  BY <1>2, <1>4, <1>5, <1>6 DEF Fits

\* A step of one process.
LEMMA StepKeeps ==
  ASSUME IInv, NEW p \in Procs, NEW q \in Operation, op' = [op EXCEPT ![p] = q], Fits(q)',
         cred' \in [Creds -> Credential], issued' \in [Creds -> Nat],
         \A c \in Creds : Later(c), SchedulerOK', report' \in [Creds -> Reports], ReportedIsStored'
  PROVE  Good
<1>1. op \in [Procs -> Operation] /\ op' \in [Procs -> Operation]
  BY DEF IInv, TypeOK
<1>2. ASSUME NEW r \in Procs PROVE Fits(op[r])'
  <2>1. CASE r = p
    BY <1>1, <2>1
  <2>2. CASE r # p
    <3>1. PICK k \in Operation : k = op[r]
      BY <1>1
    <3>2. Fits(k)'
      BY <3>1, FitsStays DEF IInv
    <3>3. op'[r] = k
      BY <1>1, <2>2, <3>1
    <3> QED
      BY <3>2, <3>3
  <2> QED
    BY <2>1, <2>2
<1>3. \A c \in Creds : Before(Fresh, c)'
  BY FreshIs, BeforeStays DEF IInv, TypeOK
<1>4. \A c \in Creds : cred'[c].token <= issued'[c]
  BY DEF Later
<1>5. Forward
  BY DEF Forward, Later
<1> QED
  BY <1>1, <1>2, <1>3, <1>4, <1>5 DEF Good, IInv, TypeOK

\* A step that changes no operation.
LEMMA OthersKeep ==
  ASSUME IInv, UNCHANGED op, cred' \in [Creds -> Credential], issued' \in [Creds -> Nat],
         \A c \in Creds : Later(c), SchedulerOK', report' \in [Creds -> Reports], ReportedIsStored'
  PROVE  Good
<1>1. PICK q \in Operation : q = op[Scheduler]
  BY DEF IInv, TypeOK, Procs
<1>2. op' = [op EXCEPT ![Scheduler] = q] /\ Scheduler \in Procs
  BY <1>1 DEF IInv, TypeOK, Procs
<1>3. Fits(q)'
  BY <1>1, <1>2, FitsStays DEF IInv
<1> QED
  BY <1>2, <1>3, StepKeeps

\* Credentials and reports that stay.
LEMMA StillLater ==
  ASSUME IInv, UNCHANGED cred, issued' \in [Creds -> Nat], \A c \in Creds : issued'[c] >= issued[c]
  PROVE  cred' \in [Creds -> Credential] /\ \A c \in Creds : Later(c)
<1>1. \A c \in Creds : /\ cred[c].version \in Nat /\ cred[c].token \in Nat /\ issued[c] \in Nat
                       /\ issued'[c] \in Nat /\ cred[c].token <= issued[c]
  BY DEF IInv, TypeOK, Credential
<1> QED
  BY <1>1 DEF Later, IInv, TypeOK

\* A process goes on with nothing new in its hands.
LEMMA MoveKeeps ==
  ASSUME IInv, NEW p \in Procs, NEW q \in Operation, op' = [op EXCEPT ![p] = q],
         UNCHANGED <<cred, issued, report>>, SchedulerOK', Fits(q)
  PROVE  Good
<1>1. issued' \in [Creds -> Nat] /\ \A c \in Creds : issued'[c] >= issued[c]
  BY DEF IInv, TypeOK
<1>2. cred' \in [Creds -> Credential] /\ \A c \in Creds : Later(c)
  BY <1>1, StillLater
<1>3. Fits(q)'
  BY <1>1, <1>2, FitsStays DEF IInv
<1>4. report' \in [Creds -> Reports] /\ ReportedIsStored'
  BY DEF IInv, TypeOK, ReportedIsStored
<1> QED
  BY <1>1, <1>2, <1>3, <1>4, StepKeeps

LEMMA SpendIs ==
  ASSUME IInv, UNCHANGED budget \/ Event \/ Spend("starts")
  PROVE  budget' \in [starts : Nat, events : Nat]
BY DEF IInv, TypeOK, SchedulerOK, Event, Spend

\* Where the operation of p, at another stage, still fits.
LEMMA GotoFits ==
  ASSUME IInv, NEW p \in Procs, NEW pc \in {"idle", "list", "next"} \cup (Working \ {"commit"}),
         pc \in Working => op[p].at \in Creds,
         pc \in {"record", "report"} => op[p].token > 0 /\ cred[op[p].at].token >= op[p].token
  PROVE  [op[p] EXCEPT !.pc = pc] \in Operation /\ Fits([op[p] EXCEPT !.pc = pc])
<1>1. op[p] \in Operation /\ Fits(op[p])
  BY DEF IInv, TypeOK
<1> DEFINE q == [op[p] EXCEPT !.pc = pc]
<1>2. /\ q \in Operation /\ q.pc = pc /\ q.at = op[p].at /\ q.token = op[p].token
      /\ q.read = op[p].read
  BY <1>1 DEF Operation, Pcs
<1>3. pc # "commit"
  BY DEF Working
<1> HIDE DEF q
<1>4. Fits(q)
  BY <1>1, <1>2, <1>3 DEF Fits
<1> QED
  BY <1>2, <1>4 DEF q

LEMMA GotoKeeps ==
  ASSUME IInv, NEW p \in Procs, NEW pc \in {"idle", "list", "next"} \cup (Working \ {"commit"}),
         Goto(p, pc), UNCHANGED <<cred, issued, report>>, SchedulerOK',
         pc \in Working => op[p].at \in Creds,
         pc \in {"record", "report"} => op[p].token > 0 /\ cred[op[p].at].token >= op[p].token
  PROVE  Good
<1>1. PICK q : q = [op[p] EXCEPT !.pc = pc]
  OBVIOUS
<1>2. q \in Operation /\ Fits(q)
  BY <1>1, GotoFits
<1>3. op' = [op EXCEPT ![p] = q]
  BY <1>1 DEF Goto
<1> QED
  BY <1>2, <1>3, MoveKeeps

\* The operation after a Credential is done with.
AfterDone(p) == [op[p] EXCEPT !.pc = "next", !.at = 0, !.token = 0,
                              !.read = [@ EXCEPT ![op[p].at] = Fresh]]

LEMMA DoneIs ==
  ASSUME IInv, NEW p \in Procs, Done(p)
  PROVE  /\ op' = [op EXCEPT ![p] = AfterDone(p)] /\ AfterDone(p) \in Operation
         /\ Fits(AfterDone(p))
<1>1. op \in [Procs -> Operation] /\ op[p] \in Operation /\ Fits(op[p])
  BY DEF IInv, TypeOK
<1>2. op' = [op EXCEPT ![p] = AfterDone(p)]
  BY <1>1 DEF Done, AfterDone
<1>3. PICK read : read = [op[p].read EXCEPT ![op[p].at] = Fresh]
  OBVIOUS
<1>4. read \in [Creds -> Credential] /\ \A c \in Creds : Before(read[c], c)
  BY <1>1, <1>3, FreshIs DEF Operation, Fits, IInv
<1>5. /\ AfterDone(p) \in Operation /\ AfterDone(p).pc = "next" /\ AfterDone(p).read = read
  BY <1>1, <1>3, <1>4 DEF AfterDone, Operation, Pcs
<1>6. Fits(AfterDone(p))
  BY <1>4, <1>5 DEF Fits, Working
<1> QED
  BY <1>2, <1>5, <1>6

LEMMA DoneKeeps ==
  ASSUME IInv, NEW p \in Procs, Done(p), UNCHANGED <<cred, issued, report>>, SchedulerOK'
  PROVE  Good
<1>1. PICK q : q = AfterDone(p)
  OBVIOUS
<1> QED
  BY <1>1, DoneIs, MoveKeeps

LEMMA IdleFits == ASSUME IInv PROVE Fits(Idle)
BY IdleIs DEF IInv, Fits, Working

LEMMA IdleKeeps ==
  ASSUME IInv, NEW p \in Procs, op' = [op EXCEPT ![p] = Idle],
         UNCHANGED <<cred, issued, report>>, SchedulerOK'
  PROVE  Good
<1>1. PICK q : q = Idle
  OBVIOUS
<1> QED
  BY <1>1, IdleIs, IdleFits, MoveKeeps

\* A report that is kept to.
LEMMA TellKeeps ==
  ASSUME IInv, NEW p \in Procs, NEW q \in Operation, op' = [op EXCEPT ![p] = q], Fits(q),
         UNCHANGED <<cred, issued>>, SchedulerOK',
         NEW c \in Creds, NEW as \in {"skipped", "rotated", "committed", "failed"}, NEW token \in Nat,
         report' = [report EXCEPT ![c] = [as |-> as, token |-> token]],
         as \in {"rotated", "committed"} => token > 0 /\ cred[c].token >= token
  PROVE  Good
<1>1. issued' \in [Creds -> Nat] /\ \A d \in Creds : issued'[d] >= issued[d]
  BY DEF IInv, TypeOK
<1>2. cred' \in [Creds -> Credential] /\ \A d \in Creds : Later(d)
  BY <1>1, StillLater
<1>3. Fits(q)'
  BY <1>1, <1>2, FitsStays DEF IInv
<1>4. report' \in [Creds -> Reports] /\ ReportedIsStored'
  BY DEF IInv, TypeOK, ReportedIsStored, Reports
<1> QED
  BY <1>1, <1>2, <1>3, <1>4, StepKeeps

LEMMA SchedulerIs ==
  ASSUME IInv, UNCHANGED <<starting, timers, timer>>, running' = running \/ running' \in BOOLEAN,
         UNCHANGED budget \/ Event \/ Spend("starts")
  PROVE  SchedulerOK'
BY SpendIs DEF SchedulerOK, IInv, TypeOK

LEMMA EndRunIs == ASSUME NEW p, EndRun(p) PROVE running' = running \/ running' \in BOOLEAN
BY DEF EndRun

-----------------------------------------------------------------------------
(* The scheduler.                                                           *)

LEMMA BeginKeeps ==
  ASSUME IInv, op' = [op EXCEPT ![Scheduler] = [Idle EXCEPT !.kind = "expired", !.pc = "list"]],
         UNCHANGED <<cred, issued, report>>, SchedulerOK'
  PROVE  Good
<1>1. PICK q : q = [Idle EXCEPT !.kind = "expired", !.pc = "list"]
  OBVIOUS
<1>2. q \in Operation /\ q.pc = "list" /\ q.read = Idle.read
  BY <1>1, IdleIs DEF Operation, Kinds, Pcs
<1>3. Fits(q)
  BY <1>2, IdleIs DEF Fits, IInv, Working
<1> QED
  BY <1>1, <1>2, <1>3, MoveKeeps DEF Procs

\* A step that leaves operations, Credentials and reports alone.
LEMMA RestKeeps ==
  ASSUME IInv, UNCHANGED <<op, cred, issued, report>>, SchedulerOK'
  PROVE  Good
<1>1. PICK q \in Operation : q = op[Scheduler]
  BY DEF IInv, TypeOK, Procs
<1>2. op' = [op EXCEPT ![Scheduler] = q] /\ Scheduler \in Procs /\ Fits(q)
  BY <1>1 DEF IInv, TypeOK, Procs
<1> QED
  BY <1>2, MoveKeeps

LEMMA StartKeeps == ASSUME IInv, Start PROVE Good
<1>1. SchedulerOK'
  <2>1. budget' \in [starts : Nat, events : Nat]
    BY SpendIs DEF Start
  <2>2. starting' \in Nat /\ UNCHANGED <<timers, timer>>
    BY DEF Start, IInv, TypeOK, SchedulerOK
  <2>3. running' = running \/ running' = TRUE
    BY DEF Start, Begin
  <2>4. running' \in BOOLEAN
    BY <2>3 DEF IInv, TypeOK, SchedulerOK
  <2> QED
    BY <2>1, <2>2, <2>4 DEF SchedulerOK, IInv, TypeOK
<1>2. CASE running
  BY <1>1, <1>2, RestKeeps DEF Start
<1>3. CASE ~running
  BY <1>1, <1>3, BeginKeeps DEF Start, Begin
<1> QED
  BY <1>2, <1>3

LEMMA SetTimerKeeps == ASSUME IInv, SetTimer PROVE Good
<1>1. SchedulerOK'
  BY DEF SetTimer, IInv, TypeOK, SchedulerOK
<1> QED
  BY <1>1, RestKeeps DEF SetTimer

LEMMA StopKeeps == ASSUME IInv, Stop PROVE Good
<1>1. SchedulerOK'
  <2>1. budget' \in [starts : Nat, events : Nat]
    BY SpendIs DEF Stop
  <2>2. timers' \in Nat /\ timer' = FALSE /\ UNCHANGED <<starting, running>>
    BY DEF Stop, IInv, TypeOK, SchedulerOK
  <2> QED
    BY <2>1, <2>2 DEF SchedulerOK, IInv, TypeOK
<1> QED
  BY <1>1, RestKeeps DEF Stop

LEMMA FireKeeps == ASSUME IInv, Fire \/ RunOnce PROVE Good
<1>1. SchedulerOK'
  BY SchedulerIs DEF Fire, RunOnce, Begin
<1> QED
  BY <1>1, BeginKeeps DEF Fire, RunOnce, Begin

LEMMA ListKeeps == ASSUME IInv, List PROVE Good
<1>1. Scheduler \in Procs /\ op[Scheduler] \in Operation /\ op \in [Procs -> Operation]
  BY DEF Procs, IInv, TypeOK
<1>2. PICK q : q = [op[Scheduler] EXCEPT !.todo = {c \in Creds : ShouldRefresh(cred[c])},
                                         !.read = cred, !.pc = "next"]
  OBVIOUS
<1>3. q \in Operation /\ q.pc = "next" /\ q.read = cred
  BY <1>1, <1>2 DEF Operation, Pcs, IInv, TypeOK
<1>4. Fits(q)
  BY <1>3 DEF Fits, Before, Working, IInv, TypeOK, Credential
<1>5. op' = [op EXCEPT ![Scheduler] = q]
  BY <1>2 DEF List
<1>6. SchedulerOK'
  BY SchedulerIs DEF List, schedulerVars
<1> QED
  BY <1>1, <1>3, <1>4, <1>5, <1>6, MoveKeeps DEF List

LEMMA PlanRotationKeeps == ASSUME IInv, PlanRotation PROVE Good
<1>1. Scheduler \in Procs /\ op[Scheduler] \in Operation /\ op[Scheduler].pc = "next"
      /\ Fits(op[Scheduler])
  BY DEF Procs, IInv, TypeOK, PlanRotation, At
<1>2. PICK q : q = [op[Scheduler] EXCEPT !.kind = "rotate", !.todo = {c \in Creds : cred[c].overdue}]
  OBVIOUS
<1>3. q \in Operation /\ q.pc = "next" /\ q.read = op[Scheduler].read
  BY <1>1, <1>2 DEF Operation, Kinds
<1>4. Fits(q)
  BY <1>1, <1>3 DEF Fits, Working
<1>5. op' = [op EXCEPT ![Scheduler] = q]
  BY <1>2 DEF PlanRotation
<1>6. SchedulerOK'
  BY SchedulerIs DEF PlanRotation, schedulerVars
<1> QED
  BY <1>1, <1>3, <1>4, <1>5, <1>6, MoveKeeps DEF PlanRotation

-----------------------------------------------------------------------------
(* One Credential at a time.                                                *)

LEMMA AskKeeps ==
  ASSUME IInv, NEW p \in Procs, NEW kind \in Kinds, NEW S \in SUBSET Creds, Ask(p, kind, S)
  PROVE  Good
<1>1. PICK q : q = [Idle EXCEPT !.kind = kind, !.todo = S, !.pc = "next"]
  OBVIOUS
<1>2. q \in Operation /\ q.pc = "next" /\ q.read = Idle.read
  BY <1>1, IdleIs DEF Operation, Pcs
<1>3. Fits(q)
  BY <1>2, IdleIs DEF Fits, IInv, Working
<1>4. SchedulerOK'
  BY SchedulerIs DEF Ask, schedulerVars
<1> QED
  BY <1>1, <1>2, <1>3, <1>4, MoveKeeps DEF Ask

LEMMA NextItemKeeps == ASSUME IInv, NEW p \in Procs, NextItem(p) PROVE Good
<1>1. op[p] \in Operation /\ Fits(op[p])
  BY DEF IInv, TypeOK
<1>2. PICK c \in op[p].todo :
        op' = [op EXCEPT ![p].at = c, ![p].todo = @ \ {c},
                         ![p].pc = CASE op[p].kind = "expired" -> "call"
                                     [] op[p].kind = "rotate" -> "announce"
                                     [] OTHER -> "read"]
  BY DEF NextItem
<1>3. PICK pc \in {"call", "announce", "read"} :
        op' = [op EXCEPT ![p].at = c, ![p].todo = @ \ {c}, ![p].pc = pc]
  BY <1>2
<1>4. PICK q : q = [op[p] EXCEPT !.at = c, !.todo = @ \ {c}, !.pc = pc]
  OBVIOUS
<1>5. q \in Operation /\ q.pc = pc /\ q.read = op[p].read /\ q.at = c /\ c \in Creds
  BY <1>1, <1>4 DEF Operation, Pcs, Working
<1>6. Fits(q)
  BY <1>1, <1>5 DEF Fits
<1>7. op' = [op EXCEPT ![p] = q]
  BY <1>3, <1>4
<1>8. SchedulerOK'
  BY SchedulerIs DEF NextItem, schedulerVars
<1> QED
  BY <1>5, <1>6, <1>7, <1>8, MoveKeeps DEF NextItem

LEMMA FinishKeeps == ASSUME IInv, NEW p \in Procs, Finish(p) PROVE Good
<1>1. SchedulerOK'
  BY SchedulerIs, EndRunIs DEF Finish
<1> QED
  BY <1>1, IdleKeeps DEF Finish

LEMMA GiveUpKeeps == ASSUME IInv, NEW p \in Procs, GiveUp(p) PROVE Good
<1>1. SchedulerOK'
  BY SchedulerIs, EndRunIs DEF GiveUp
<1>2. CASE p = Scheduler
  BY <1>1, <1>2, IdleKeeps DEF GiveUp
<1>3. CASE p # Scheduler
  BY <1>1, <1>3, DoneKeeps DEF GiveUp
<1> QED
  BY <1>2, <1>3

LEMMA ReadKeeps == ASSUME IInv, NEW p \in Procs, Read(p) PROVE Good
<1> DEFINE c == op[p].at
<1>1. op[p] \in Operation /\ Fits(op[p]) /\ op[p].pc = "read" /\ c \in Creds
  BY DEF IInv, TypeOK, Read, Fits, Working
<1>2. SchedulerOK'
  BY SchedulerIs DEF Read, schedulerVars
<1>3. UNCHANGED <<cred, issued, report>>
  BY DEF Read
<1>4. \/ Goto(p, "failed") \/ Done(p)
      \/ GotoRead(p, "call", [op[p].read EXCEPT ![c] = cred[c]])
  BY DEF Read
<1>5. CASE Goto(p, "failed")
  BY <1>1, <1>2, <1>3, <1>5, GotoKeeps DEF Working
<1>6. CASE Done(p)
  BY <1>2, <1>3, <1>6, DoneKeeps
<1>7. CASE GotoRead(p, "call", [op[p].read EXCEPT ![c] = cred[c]])
  <2>1. PICK read : read = [op[p].read EXCEPT ![c] = cred[c]]
    OBVIOUS
  <2>2. read \in [Creds -> Credential] /\ \A d \in Creds : Before(read[d], d)
    BY <1>1, <2>1 DEF Operation, Fits, Before, IInv, TypeOK, Credential
  <2>3. PICK q : q = [op[p] EXCEPT !.pc = "call", !.read = read]
    OBVIOUS
  <2>4. q \in Operation /\ q.pc = "call" /\ q.read = read /\ q.at = c
    BY <1>1, <2>2, <2>3 DEF Operation, Pcs, Working
  <2>5. Fits(q)
    BY <1>1, <2>2, <2>4 DEF Fits
  <2>6. op' = [op EXCEPT ![p] = q]
    BY <1>7, <2>1, <2>3 DEF GotoRead
  <2> QED
    BY <1>2, <1>3, <2>4, <2>5, <2>6, MoveKeeps
<1> QED
  BY <1>4, <1>5, <1>6, <1>7

LEMMA FailsKeeps ==
  ASSUME IInv, NEW p \in Procs, op[p].pc \in Working, Fails(p),
         cred' = cred, issued' = issued, report' = report, UNCHANGED schedulerVars
  PROVE  Good
<1>1. op[p].at \in Creds
  BY DEF IInv, Fits
<1>2. SchedulerOK'
  BY SchedulerIs DEF Fails, schedulerVars
<1> QED
  BY <1>1, <1>2, GotoKeeps DEF Fails, Working

LEMMA CallKeeps == ASSUME IInv, NEW p \in Procs, Call(p) PROVE Good
<1>1. PICK c : c = op[p].at
  OBVIOUS
<1>2. /\ op[p] \in Operation /\ Fits(op[p]) /\ op[p].pc = "call" /\ c \in Creds
      /\ op[p].pc \in Working
  BY <1>1 DEF IInv, TypeOK, Call, Fits, Working
<1>3. UNCHANGED <<cred, schedulerVars, report>> /\ (UNCHANGED budget \/ Event)
  BY DEF Call, Fails
<1>4. SchedulerOK'
  BY <1>3, SchedulerIs DEF schedulerVars
<1>5. /\ issued' \in [Creds -> Nat] /\ \A d \in Creds : issued'[d] >= issued[d]
      /\ issued' = issued \/ (issued' = [issued EXCEPT ![c] = @ + 1] /\ op[p].kind # "validate")
  BY <1>1, <1>2 DEF Call, IInv, TypeOK
<1>6. cred' \in [Creds -> Credential] /\ \A d \in Creds : Later(d)
  BY <1>3, <1>5, StillLater
<1>7. report' \in [Creds -> Reports] /\ ReportedIsStored'
  BY <1>3 DEF IInv, TypeOK, ReportedIsStored
<1>8. CASE Goto(p, "failed")
  <2>1. PICK q : q = [op[p] EXCEPT !.pc = "failed"]
    OBVIOUS
  <2>2. q \in Operation /\ Fits(q)
    BY <1>1, <1>2, <2>1, GotoFits DEF Working
  <2>3. Fits(q)' /\ op' = [op EXCEPT ![p] = q]
    BY <1>5, <1>6, <1>8, <2>1, <2>2, FitsStays DEF IInv, Goto
  <2> QED
    BY <1>4, <1>5, <1>6, <1>7, <2>2, <2>3, StepKeeps
<1>9. ASSUME NEW token \in Nat, op' = [op EXCEPT ![p].token = token, ![p].pc = "commit"],
             op[p].kind = "validate" => token = op[p].read[c].token,
             op[p].kind # "validate" => token = issued[c] + 1 /\ issued'[c] = token
      PROVE  Good
  <2>1. PICK q : q = [op[p] EXCEPT !.token = token, !.pc = "commit"]
    OBVIOUS
  <2>2. /\ q \in Operation /\ q.pc = "commit" /\ q.read = op[p].read /\ q.at = c
        /\ q.token = token /\ q.kind = op[p].kind
    BY <1>1, <1>2, <2>1 DEF Operation, Pcs, Working
  <2>3. op' = [op EXCEPT ![p] = q]
    BY <1>9, <2>1
  <2>4. \A d \in Creds : Before(q.read[d], d)' /\ q.read[d] \in Credential
    BY <1>2, <1>6, <2>2, BeforeStays DEF Fits, Operation, IInv, TypeOK
  <2>5. q.read[c].token <= issued[c] /\ {q.read[c].token, issued[c]} \subseteq Nat
    BY <1>2, <2>2, <2>4 DEF Fits, Before, IInv, TypeOK, Credential
  <2>6. op[p].kind # "validate" => token > q.read[c].token /\ token <= issued'[c]
    BY <1>9, <2>5
  <2>7. Fits(q)'
    BY <1>2, <1>9, <2>2, <2>4, <2>6 DEF Fits, Working
  <2> QED
    BY <1>4, <1>5, <1>6, <1>7, <2>2, <2>3, <2>7, StepKeeps
<1>10. CASE /\ op[p].kind # "validate" /\ issued' = [issued EXCEPT ![c] = @ + 1]
            /\ op' = [op EXCEPT ![p].token = issued[c] + 1, ![p].pc = "commit"]
  <2>1. PICK token : token = issued[c] + 1
    OBVIOUS
  <2>2. token \in Nat /\ issued'[c] = token
    BY <1>2, <1>10, <2>1 DEF IInv, TypeOK
  <2> QED
    BY <1>9, <1>10, <2>1, <2>2
<1>11. CASE /\ op[p].kind = "validate"
            /\ op' = [op EXCEPT ![p].token = op[p].read[c].token, ![p].pc = "commit"]
  <2>1. PICK token : token = op[p].read[c].token
    OBVIOUS
  <2>2. token \in Nat
    BY <1>2, <2>1 DEF Operation, Credential
  <2> QED
    BY <1>9, <1>11, <2>1, <2>2
<1> QED
  BY <1>1, <1>8, <1>10, <1>11 DEF Call, Fails

LEMMA CommitKeeps == ASSUME IInv, NEW p \in Procs, Commit(p) PROVE Good
<1>1. PICK c : c = op[p].at
  OBVIOUS
<1>2. /\ op[p] \in Operation /\ Fits(op[p]) /\ op[p].pc = "commit" /\ c \in Creds
      /\ op[p].pc \in Working
  BY <1>1 DEF IInv, TypeOK, Commit, Fits, Working
<1>3. UNCHANGED <<issued, schedulerVars, report>> /\ (UNCHANGED budget \/ Event)
  BY DEF Commit, Fails
<1>4. SchedulerOK'
  BY <1>3, SchedulerIs DEF schedulerVars
<1>5. CASE Goto(p, "failed") /\ cred' = cred
  BY <1>1, <1>2, <1>3, <1>4, <1>5, GotoKeeps DEF Working
<1>6. CASE /\ UnchangedSince(p) /\ cred' = [cred EXCEPT ![c] = Renewed(p)]
           /\ \/ Done(p)
              \/ Goto(p, "record") /\ op[p].kind # "validate"
  <2>1. PICK k : k = op[p].read[c]
    OBVIOUS
  <2>2. PICK new : new = Renewed(p)
    OBVIOUS
  <2>3. /\ k \in Credential /\ Before(k, c) /\ k.version = cred[c].version /\ cred[c].state = "active"
        /\ cred[c] \in Credential /\ op[p].token \in Nat /\ issued[c] \in Nat
        /\ cred[c].token <= issued[c]
    BY <1>1, <1>2, <1>6, <2>1 DEF Operation, Fits, UnchangedSince, IInv, TypeOK
  <2>4. k.token = cred[c].token
    BY <2>3 DEF Before
  <2>5. /\ op[p].token >= cred[c].token /\ op[p].token <= issued[c]
        /\ op[p].kind # "validate" => op[p].token > 0
    BY <1>1, <1>2, <2>1, <2>3, <2>4 DEF Fits, Credential
  <2>6. new \in Credential /\ new.version = cred[c].version + 1 /\ new.token = op[p].token
    <3>1. PICK due \in BOOLEAN : due = (k.due /\ op[p].kind = "validate")
      BY <2>3 DEF Credential
    <3>2. new = [k EXCEPT !.version = @ + 1, !.token = op[p].token, !.overdue = FALSE, !.due = due]
      BY <1>1, <2>1, <2>2, <2>3, <3>1, Zenon DEF Renewed, Credential
    <3>3. PICK version \in Nat, token \in Nat : version = k.version + 1 /\ token = op[p].token
      BY <2>3 DEF Credential
    <3>4. new = [k EXCEPT !.version = version, !.token = token, !.overdue = FALSE, !.due = due]
      BY <2>3, <3>2, <3>3 DEF Credential
    <3>5. new = [version |-> version, token |-> token, state |-> k.state, due |-> due,
                 overdue |-> FALSE]
      BY <2>3, <3>4 DEF Credential
    <3> QED
      BY <2>3, <3>3, <3>5 DEF Credential
  <2>7. cred \in [Creds -> Credential] /\ issued \in [Creds -> Nat] /\ cred' = [cred EXCEPT ![c] = new]
        /\ \A d \in Creds : cred[d].token <= issued[d]
    BY <1>6, <2>2 DEF IInv, TypeOK
  <2>8. cred' \in [Creds -> Credential] /\ issued' \in [Creds -> Nat] /\ \A d \in Creds : Later(d)
    <3>1. Later(c)
      BY <1>2, <1>3, <2>3, <2>5, <2>6, <2>7 DEF Later, Credential
    <3>2. ASSUME NEW d \in Creds, d # c PROVE Later(d)
      BY <1>3, <2>7, <3>2 DEF Later, Credential
    <3> QED
      BY <1>3, <2>6, <2>7, <3>1, <3>2
  <2>9. ReportedIsStored' /\ report' \in [Creds -> Reports]
    BY <1>3, <2>7, <2>8 DEF ReportedIsStored, IInv, TypeOK, Later, Reports, Credential
  <2>10. CASE Done(p)
    <3>1. PICK q : q = AfterDone(p)
      OBVIOUS
    <3>2. q \in Operation /\ Fits(q) /\ op' = [op EXCEPT ![p] = q]
      BY <2>10, <3>1, DoneIs
    <3>3. Fits(q)'
      BY <2>8, <3>2, FitsStays DEF IInv
    <3> QED
      BY <1>4, <2>8, <2>9, <3>2, <3>3, StepKeeps
  <2>11. CASE Goto(p, "record") /\ op[p].kind # "validate"
    <3>1. PICK q : q = [op[p] EXCEPT !.pc = "record"]
      OBVIOUS
    <3>2. /\ q \in Operation /\ q.pc = "record" /\ q.read = op[p].read /\ q.at = c
          /\ q.token = op[p].token /\ op' = [op EXCEPT ![p] = q]
      BY <1>1, <1>2, <2>11, <3>1 DEF Operation, Pcs, Working, Goto
    <3>3. \A d \in Creds : Before(q.read[d], d)'
      BY <1>2, <2>8, <3>2, BeforeStays DEF Fits, Operation, IInv, TypeOK
    <3>4. cred'[c].token = q.token
      BY <1>2, <2>6, <2>7, <3>2
    <3>5. Fits(q)'
      BY <1>2, <2>3, <2>5, <2>11, <3>2, <3>3, <3>4 DEF Fits
    <3> QED
      BY <1>4, <2>8, <2>9, <3>2, <3>5, StepKeeps
  <2> QED
    BY <1>6, <2>10, <2>11
<1>7. \/ Goto(p, "failed") /\ cred' = cred
      \/ /\ UnchangedSince(p) /\ cred' = [cred EXCEPT ![c] = Renewed(p)]
         /\ IF op[p].kind \in {"expired", "validate"} THEN Done(p) ELSE Goto(p, "record")
  BY <1>1 DEF Commit, Fails
<1> QED
  BY <1>5, <1>6, <1>7

LEMMA RecordVersionKeeps == ASSUME IInv, NEW p \in Procs, RecordVersion(p) PROVE Good
<1>1. /\ op[p] \in Operation /\ Fits(op[p]) /\ op[p].pc = "record" /\ op[p].at \in Creds
      /\ op[p].pc \in Working
  BY DEF IInv, TypeOK, RecordVersion, Fits, Working
<1>2. SchedulerOK'
  BY SchedulerIs DEF RecordVersion, Fails, schedulerVars
<1>3. Goto(p, "failed") \/ Goto(p, "report") \/ Done(p)
  BY DEF RecordVersion, Fails
<1>4. UNCHANGED <<cred, issued, report>>
  BY DEF RecordVersion
<1>5. CASE Done(p)
  BY <1>2, <1>4, <1>5, DoneKeeps
<1>6. CASE Goto(p, "failed") \/ Goto(p, "report")
  BY <1>1, <1>2, <1>4, <1>6, GotoKeeps DEF Working, Fits
<1> QED
  BY <1>3, <1>5, <1>6

-----------------------------------------------------------------------------
(* The rotation and its reports.                                            *)

LEMMA AnnounceKeeps == ASSUME IInv, Announce PROVE Good
<1>1. /\ Scheduler \in Procs /\ op[Scheduler].pc = "announce" /\ op[Scheduler].at \in Creds
  BY DEF Procs, IInv, TypeOK, Announce, At, Fits, Working
<1>2. SchedulerOK'
  BY SchedulerIs DEF Announce, Fails, schedulerVars
<1>3. UNCHANGED <<cred, issued>>
  BY DEF Announce
<1>4. CASE (Goto(Scheduler, "read") \/ Goto(Scheduler, "failed")) /\ UNCHANGED report
  BY <1>1, <1>2, <1>3, <1>4, GotoKeeps DEF Working
<1>5. CASE Done(Scheduler) /\ Tell(op[Scheduler].at, "skipped", 0)
  <2>1. PICK c \in Creds : c = op[Scheduler].at
    BY <1>1
  <2>2. PICK q : q = AfterDone(Scheduler)
    OBVIOUS
  <2>3. q \in Operation /\ Fits(q) /\ op' = [op EXCEPT ![Scheduler] = q]
    BY <1>1, <1>5, <2>2, DoneIs
  <2> QED
    BY <1>1, <1>2, <1>3, <1>5, <2>1, <2>3, TellKeeps DEF Tell
<1> QED
  BY <1>4, <1>5 DEF Announce, Fails, Tell

LEMMA ReportRotationKeeps == ASSUME IInv, ReportRotation PROVE Good
<1>1. /\ Scheduler \in Procs /\ op[Scheduler].pc = "report" /\ op[Scheduler].at \in Creds
      /\ op[Scheduler] \in Operation /\ Fits(op[Scheduler])
  BY DEF Procs, IInv, TypeOK, ReportRotation, At, Fits, Working
<1>2. SchedulerOK'
  BY <1>1, SchedulerIs, EndRunIs DEF ReportRotation, Fails
<1>3. UNCHANGED <<cred, issued>>
  BY DEF ReportRotation
<1>4. CASE Goto(Scheduler, "failed") /\ UNCHANGED report
  BY <1>1, <1>2, <1>3, <1>4, GotoKeeps DEF Working
<1>5. CASE op' = [op EXCEPT ![Scheduler] = Idle] /\ UNCHANGED report
  BY <1>1, <1>2, <1>3, <1>5, IdleKeeps
<1>6. ASSUME NEW as \in {"rotated", "committed"}, Done(Scheduler),
             Tell(op[Scheduler].at, as, op[Scheduler].token)
      PROVE  Good
  <2>1. PICK c \in Creds : c = op[Scheduler].at
    BY <1>1
  <2>2. PICK token : token = op[Scheduler].token
    OBVIOUS
  <2>3. token \in Nat /\ token > 0 /\ cred[c].token >= token
    BY <1>1, <2>1, <2>2 DEF Operation, Fits
  <2>4. PICK q : q = AfterDone(Scheduler)
    OBVIOUS
  <2>5. q \in Operation /\ Fits(q) /\ op' = [op EXCEPT ![Scheduler] = q]
    BY <1>1, <1>6, <2>4, DoneIs
  <2> QED
    BY <1>1, <1>2, <1>3, <1>6, <2>1, <2>2, <2>3, <2>5, TellKeeps DEF Tell
<1> QED
  BY <1>4, <1>5, <1>6 DEF ReportRotation, Fails

LEMMA ReportFailureKeeps == ASSUME IInv, ReportFailure PROVE Good
<1>1. /\ Scheduler \in Procs /\ op[Scheduler].pc = "failed" /\ op[Scheduler].at \in Creds
  BY DEF Procs, IInv, TypeOK, ReportFailure, At, Fits, Working
<1>2. SchedulerOK'
  BY <1>1, SchedulerIs, EndRunIs DEF ReportFailure
<1>3. UNCHANGED <<cred, issued>>
  BY DEF ReportFailure
<1>4. CASE op' = [op EXCEPT ![Scheduler] = Idle] /\ UNCHANGED report
  BY <1>1, <1>2, <1>3, <1>4, IdleKeeps
<1>5. CASE Done(Scheduler) /\ Tell(op[Scheduler].at, "failed", 0)
  <2>1. PICK c \in Creds : c = op[Scheduler].at
    BY <1>1
  <2>2. PICK q : q = AfterDone(Scheduler)
    OBVIOUS
  <2>3. q \in Operation /\ Fits(q) /\ op' = [op EXCEPT ![Scheduler] = q]
    BY <1>1, <1>5, <2>2, DoneIs
  <2> QED
    BY <1>1, <1>2, <1>3, <1>5, <2>1, <2>3, TellKeeps DEF Tell
<1> QED
  BY <1>4, <1>5 DEF ReportFailure

-----------------------------------------------------------------------------
(* Time, edits and revocations.                                             *)

LEMMA OneChanges ==
  ASSUME IInv, NEW c \in Creds, NEW new \in Credential, cred' = [cred EXCEPT ![c] = new],
         UNCHANGED <<issued, op, schedulerVars, report>>, Event,
         new.token = cred[c].token, new.version >= cred[c].version,
         cred[c].state = "revoked" => new.state = "revoked"
  PROVE  Good
<1>1. cred \in [Creds -> Credential] /\ cred' \in [Creds -> Credential]
      /\ issued' \in [Creds -> Nat] /\ \A d \in Creds : cred[d].token <= issued[d]
  BY DEF IInv, TypeOK
<1>2. Later(c)
  BY <1>1 DEF Later, Credential
<1>3. ASSUME NEW d \in Creds, d # c PROVE Later(d)
  BY <1>1, <1>3 DEF Later, Credential
<1>4. \A d \in Creds : cred'[d].token = cred[d].token
  BY <1>1
<1>5. report' \in [Creds -> Reports] /\ ReportedIsStored'
  BY <1>4 DEF IInv, TypeOK, ReportedIsStored
<1>6. SchedulerOK'
  BY SchedulerIs DEF schedulerVars
<1> QED
  BY <1>1, <1>2, <1>3, <1>5, <1>6, OthersKeep

LEMMA ExpireKeeps == ASSUME IInv, NEW c \in Creds, Expire(c) PROVE Good
<1>1. cred[c] \in Credential
  BY DEF IInv, TypeOK
<1>2. PICK new \in {[cred[c] EXCEPT !.due = TRUE], [cred[c] EXCEPT !.overdue = TRUE]} :
        cred' = [cred EXCEPT ![c] = new]
  BY DEF Expire
<1>3. new \in Credential /\ new.token = cred[c].token /\ new.version = cred[c].version
      /\ new.state = cred[c].state
  BY <1>1, <1>2 DEF Credential
<1>4. new.version >= cred[c].version
  BY <1>1, <1>3 DEF Credential
<1> QED
  BY <1>2, <1>3, <1>4, OneChanges DEF Expire

LEMMA ChangeKeeps == ASSUME IInv, NEW c \in Creds, Change(c) PROVE Good
<1>1. cred[c] \in Credential /\ cred[c].state = "active"
  BY DEF IInv, TypeOK, Change
<1>2. PICK state \in {"active", "revoked"} :
        cred' = [cred EXCEPT ![c].version = @ + 1, ![c].state = state, ![c].overdue = FALSE]
  BY DEF Change
<1>3. PICK new : new = [cred[c] EXCEPT !.version = @ + 1, !.state = state, !.overdue = FALSE]
  OBVIOUS
<1>4. new \in Credential /\ new.token = cred[c].token /\ new.version = cred[c].version + 1
  <2>1. PICK version \in Nat : version = cred[c].version + 1
    BY <1>1 DEF Credential
  <2>2. new = [cred[c] EXCEPT !.version = version, !.state = state, !.overdue = FALSE]
    BY <1>1, <1>3, <2>1 DEF Credential
  <2> QED
    BY <1>1, <2>1, <2>2 DEF Credential
<1>5. new.version >= cred[c].version
  BY <1>1, <1>4 DEF Credential
<1>6. cred' = [cred EXCEPT ![c] = new]
  BY <1>2, <1>3
<1> QED
  BY <1>1, <1>4, <1>5, <1>6, OneChanges DEF Change
-----------------------------------------------------------------------------
LEMMA InitHolds == Init => IInv
<1> SUFFICES ASSUME Init PROVE IInv
  OBVIOUS
<1>1. TypeOK
  BY FreshIs, IdleIs DEF Init, TypeOK, SchedulerOK, Reports
<1>2. \A c \in Creds : cred[c] = Fresh /\ issued[c] = 1 /\ report[c].as = "none"
  BY DEF Init
<1>3. \A c \in Creds : Before(Fresh, c) /\ cred[c].token <= issued[c]
  BY <1>2, FreshIs DEF Before
<1>4. Fits(Idle)
  BY <1>3, IdleIs DEF Fits, Working
<1>5. \A p \in Procs : op[p] = Idle
  BY DEF Init
<1> QED
  BY <1>1, <1>2, <1>3, <1>4, <1>5 DEF IInv, ReportedIsStored

LEMMA NextKeeps == IInv /\ [Next]_vars => Good
<1> SUFFICES ASSUME IInv, [Next]_vars PROVE Good
  OBVIOUS
<1>1. ASSUME NEW p \in Procs, Step(p) PROVE Good
  BY <1>1, NextItemKeeps, FinishKeeps, ReadKeeps, CallKeeps, CommitKeeps, RecordVersionKeeps,
     GiveUpKeeps
     DEF Step
<1>2. CASE Run
  BY <1>1, <1>2, ListKeeps, PlanRotationKeeps, AnnounceKeeps, ReportRotationKeeps, ReportFailureKeeps
     DEF Run, Procs
<1>3. ASSUME NEW p \in Clients, NEW kind \in {"refresh", "ifDue", "validate"}, NEW S \in SUBSET Creds,
             Ask(p, kind, S)
      PROVE  Good
  BY <1>3, AskKeeps DEF Procs, Kinds
<1>4. CASE UNCHANGED vars
  <2>1. SchedulerOK'
    BY <1>4, SchedulerIs DEF vars
  <2> QED
    BY <1>4, <2>1, RestKeeps DEF vars
<1> QED
  BY <1>1, <1>2, <1>3, <1>4, StartKeeps, SetTimerKeeps, StopKeeps, FireKeeps, ExpireKeeps, ChangeKeeps
     DEF Next, Procs

\* The inductive invariant holds in every state.
THEOREM Invariance == Spec => []IInv
<1>1. Init => IInv
  BY InitHolds
<1>2. IInv /\ [Next]_vars => IInv'
  BY NextKeeps DEF Good
<1> QED
  BY <1>1, <1>2, PTL DEF Spec

\* Credentials, operations, reports and the scheduler keep their types.
THEOREM TypeCorrect == Spec => []TypeOK
<1>1. IInv => TypeOK
  BY DEF IInv
<1> QED
  BY <1>1, Invariance, PTL

\* A rotation that is reported as done or as committed is in the store
\* (executeRotations tells a rotation that committed from one that failed).
THEOREM ReportsAreTrue == Spec => []ReportedIsStored
<1>1. IInv => ReportedIsStored
  BY DEF IInv
<1> QED
  BY <1>1, Invariance, PTL

\* No refresh, whichever is written last, puts an older token back or undoes a
\* revocation (saveLifecycleIfCurrent).
THEOREM TokensGoForward == Spec => OnlyForward
<1>1. IInv /\ [Next]_vars => Forward
  BY NextKeeps DEF Good
<1>2. IInv /\ [Next]_vars =>
        [\A c \in Creds : /\ cred'[c].token >= cred[c].token
                          /\ cred[c].state = "revoked" => cred'[c].state = "revoked"]_vars
  BY <1>1 DEF Forward
<1> QED
  BY <1>2, Invariance, PTL DEF Spec, OnlyForward
=============================================================================
