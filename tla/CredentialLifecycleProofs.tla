---------------------- MODULE CredentialLifecycleProofs ----------------------
(***************************************************************************)
(* What CredentialLifecycle promises, for any operations and Secrets, any  *)
(* bound on the history and any scenarios.                                 *)
(*                                                                         *)
(* Two facts carry the proofs.  Whoever holds the history's queue has a    *)
(* plan made from what is still stored, so that saving it brings no        *)
(* removed Secret back and reuses no number; and while an import holds the *)
(* collection the Credential stays the active one it has written, so that  *)
(* the restore that follows a failure revives nothing.                     *)
(*                                                                         *)
(* That the current Secret stays in the history takes a count, at the end: *)
(* above its number there are, with those still to be recorded, fewer than *)
(* the history keeps.                                                      *)
(***************************************************************************)
EXTENDS CredentialLifecycle, FiniteSetTheorems, TLAPS

AllKinds == Startable \cup {"retry", "erase"}
Stages == Ended \cup
          {"idle", "create", "commit", "record", "save", "undo", "read", "audit", "restore",
           "contain", "provider", "invalidate", "saveInvalidated", "markHistory",
           "historyFailed", "eraseContain", "eraseProvider", "grants", "erase"}
Credential == [state : {"active", "revoked"}, version : Nat, secret : Secrets,
               provider : Steps, history : Steps]
Fields == {"kind", "pc", "mine", "next", "plan"}

VersionRecord == [secret : Secrets, status : {"live", "lapsed"}] \cup {Invalidated}
IsHistory(h) == DOMAIN h \subseteq Nat /\ h \in [DOMAIN h -> VersionRecord]

\* What an operation brings along: all but a registration have read a
\* Credential, and what is recorded is a Secret.
Invalidating == {"invalidate", "saveInvalidated", "markHistory", "historyFailed"}
OperationTyped(q) ==
  /\ DOMAIN q = Fields
  /\ q.kind \in AllKinds \cup {None}
  /\ q.pc \in Stages
  /\ q.pc \in Invalidating => q.kind \in {"revoke", "retry", "delete", "erase"}
  /\ q.kind \in AllKinds \ {"register"} => q.mine \in Credential
  /\ q.pc \in {"record", "save", "read"} \/ (q.kind = "rollback" /\ q.pc = "commit") =>
       q.next.secret \in Secrets

TypeOK ==
  /\ IsHistory(versions) /\ watermark \in Nat
  /\ issued \subseteq Nat \X Secrets
  /\ cred \in Credential \cup {None}
  /\ gone \in BOOLEAN
  /\ queue \in Ops \cup {Free} /\ lock \in Ops \cup {Free}
  /\ DOMAIN op = Ops
  /\ \A o \in Ops : OperationTyped(op[o])
  /\ scenario \in Scenarios

\* A history that may be stored: the watermark is above every number in it and
\* every number ever issued, and a number that was issued names its Secret or
\* none any more.
Fits(h, mark) ==
  /\ IsHistory(h) /\ mark \in Nat
  /\ \A n \in DOMAIN h : n <= mark
  /\ \A i \in issued : /\ i[1] <= mark
                       /\ i[1] \in DOMAIN h => h[i[1]].secret \in {i[2], NoSecret}

\* It brings back no Secret that was removed from what is stored.
BringsNothingBack(h) ==
  \A n \in DOMAIN h \cap DOMAIN versions :
    versions[n].secret = NoSecret => h[n].secret = NoSecret

\* What the one in the queue knows.
QueueKnows(o) ==
  LET q == op[o] IN
  /\ q.pc \in {"save", "saveInvalidated", "audit"} =>
       /\ queue = o
       /\ Fits(q.plan.versions, q.plan.watermark)
       /\ BringsNothingBack(q.plan.versions)
  /\ q.pc = "save" =>
       \A n \in DOMAIN q.plan.versions \cap DOMAIN versions :
         q.plan.versions[n].secret = NoSecret => n \notin Live(versions)
  /\ q.kind = "rollback" /\ q.pc \in {"read", "commit", "record"} => queue = o
  /\ q.kind = "rollback" /\ q.pc \in {"read", "commit"} =>
       /\ q.next.number \in DOMAIN versions
       /\ versions[q.next.number].secret = q.next.secret

\* What a rollback and an import know of the Credential.
StoreKnows(o) ==
  LET q == op[o] IN
  /\ q.kind = "rollback" /\ q.pc \in {"read", "commit"} => Active(q.mine)
  /\ q.kind = "import" /\ q.pc \notin Ended => Active(q.mine)
  /\ q.kind = "import" /\ q.pc \in {"record", "save", "audit", "restore"} =>
       lock = o /\ ~gone /\ cred.state = "active"

IInv == /\ TypeOK
        /\ Fits(versions, watermark) /\ NumbersNameOneSecret
        /\ gone => cred = None
        /\ \A o \in Ops : QueueKnows(o) /\ StoreKnows(o)
-----------------------------------------------------------------------------
(* Histories.                                                               *)

\* Reading a history takes Secrets away, and old records, and nothing else.
LEMMA RetainedIs ==
  ASSUME NEW h, IsHistory(h)
  PROVE  /\ IsHistory(Retained(h)) /\ DOMAIN Retained(h) \subseteq DOMAIN h
         /\ \A n \in DOMAIN Retained(h) :
              Retained(h)[n] = IF n \in Live(h) THEN h[n] ELSE Invalidated
BY DEF Retained, Bounded, Pruned, IsHistory, VersionRecord

LEMMA InvalidIsNoSecret ==
  /\ Invalidated.secret = NoSecret /\ Invalidated.status = "invalid"
  /\ NoSecret \notin Secrets
  /\ \A r \in VersionRecord : /\ r.secret \in Secrets \cup {NoSecret}
                              /\ r.secret = NoSecret => r.status = "invalid"
                              /\ r.status # "invalid" => r.secret \in Secrets
BY HistoryAssumption DEF Invalidated, VersionRecord

\* The watermark is the greatest number there is.
LEMMA NextNumberIs ==
  ASSUME Fits(versions, watermark)
  PROVE  NextNumber = watermark + 1
<1> DEFINE S == {watermark} \cup DOMAIN versions
<1>1. /\ watermark \in S /\ S \subseteq Nat
      /\ \A y \in S : watermark >= y
  BY DEF Fits, IsHistory
<1>2. \A x \in S : (\A y \in S : x >= y) => x = watermark
  BY <1>1
<1> HIDE DEF S
<1>3. Max(S) = watermark
  BY <1>1, <1>2 DEF Max
<1> QED
  BY <1>3 DEF NextNumber, S

LEMMA ReadingFits ==
  ASSUME Fits(versions, watermark)
  PROVE  Fits(Retained(versions), watermark) /\ BringsNothingBack(Retained(versions))
<1>1. IsHistory(versions)
  BY DEF Fits
<1> QED
  BY <1>1, RetainedIs, InvalidIsNoSecret DEF Fits, BringsNothingBack, IsHistory

LEMMA InvalidatingFits ==
  ASSUME Fits(versions, watermark)
  PROVE  /\ Fits(AllInvalidated.versions, AllInvalidated.watermark)
         /\ BringsNothingBack(AllInvalidated.versions)
<1> DEFINE h == AllInvalidated.versions
<1>1. /\ DOMAIN h \subseteq DOMAIN versions
      /\ \A n \in DOMAIN h : h[n] = Invalidated
      /\ h \in [DOMAIN h -> VersionRecord]
  BY DEF AllInvalidated, Bounded, VersionRecord
<1>2. AllInvalidated.watermark = watermark
  BY DEF AllInvalidated
<1> HIDE DEF h
<1>3. Fits(h, watermark) /\ BringsNothingBack(h)
  BY <1>1, InvalidIsNoSecret DEF Fits, IsHistory, BringsNothingBack
<1> QED
  BY <1>2, <1>3 DEF h

\* A version is added under a number nobody has used.
LEMMA AddingFits ==
  ASSUME Fits(versions, watermark), NEW s \in Secrets, issued \subseteq Nat \X Secrets
  PROVE  LET plan == WithVersion(s)
         IN  /\ Fits(plan.versions, plan.watermark)
             /\ BringsNothingBack(plan.versions)
             /\ \A n \in DOMAIN plan.versions \cap DOMAIN versions :
                  plan.versions[n].secret = NoSecret => n \notin Live(versions)
<1> DEFINE h == WithVersion(s).versions
           old == Retained(versions)
<1>1. /\ IsHistory(versions) /\ watermark \in Nat
      /\ \A n \in DOMAIN versions : n <= watermark
      /\ \A i \in issued : i[1] <= watermark /\ i[1] \in Nat
  BY DEF Fits
<1>2. NextNumber = watermark + 1 /\ WithVersion(s).watermark = watermark + 1
  BY NextNumberIs DEF WithVersion
<1>3. /\ IsHistory(old) /\ DOMAIN old \subseteq DOMAIN versions
      /\ \A n \in DOMAIN old : old[n] = IF n \in Live(versions) THEN versions[n] ELSE Invalidated
  BY <1>1, RetainedIs
<1>4. /\ DOMAIN h \subseteq DOMAIN old \cup {watermark + 1}
      /\ \A n \in DOMAIN h : h[n] = IF n = watermark + 1 THEN Record(s) ELSE old[n]
      /\ h = [n \in DOMAIN h |-> h[n]]
  BY <1>2 DEF WithVersion, Bounded
<1>5. Record(s) \in VersionRecord /\ Record(s).secret = s /\ s # NoSecret
  BY InvalidIsNoSecret DEF VersionRecord, Record
<1> HIDE DEF h, old
<1>6. IsHistory(h)
  <2>1. \A n \in DOMAIN h : h[n] \in VersionRecord
    BY <1>3, <1>4, <1>5 DEF IsHistory
  <2>2. DOMAIN h \subseteq Nat
    BY <1>1, <1>3, <1>4 DEF IsHistory
  <2> QED
    BY <1>4, <2>1, <2>2 DEF IsHistory
<1>7. ASSUME NEW n \in DOMAIN h \cap DOMAIN versions
      PROVE  /\ n \in DOMAIN old /\ n # watermark + 1
             /\ h[n] = IF n \in Live(versions) THEN versions[n] ELSE Invalidated
             /\ versions[n] \in VersionRecord
  <2>1. n <= watermark /\ n \in Nat /\ versions[n] \in VersionRecord
    BY <1>1 DEF IsHistory
  <2> QED
    BY <1>1, <1>3, <1>4, <2>1
<1>8. \A n \in DOMAIN h \cap DOMAIN versions :
        /\ versions[n].secret = NoSecret => h[n].secret = NoSecret
        /\ h[n].secret = NoSecret => n \notin Live(versions)
  BY <1>7, InvalidIsNoSecret DEF Live
<1>9. \A n \in DOMAIN h : n <= watermark + 1
  BY <1>1, <1>3, <1>4 DEF IsHistory
<1>10. \A i \in issued : /\ i[1] <= watermark + 1
                         /\ i[1] \in DOMAIN h => h[i[1]].secret \in {i[2], NoSecret}
  <2> SUFFICES ASSUME NEW i \in issued, i[1] \in DOMAIN h
               PROVE  h[i[1]].secret \in {i[2], NoSecret}
    BY <1>1
  <2>1. i[1] \in DOMAIN versions
    BY <1>1, <1>3, <1>4
  <2>2. versions[i[1]].secret \in {i[2], NoSecret}
    BY <2>1 DEF Fits
  <2> QED
    BY <1>7, <2>1, <2>2, InvalidIsNoSecret
<1>11. Fits(h, watermark + 1)
  BY <1>1, <1>6, <1>9, <1>10 DEF Fits
<1> QED
  BY <1>2, <1>8, <1>11 DEF h, BringsNothingBack

\* What is stored when the queue is released.
HistoryOK == /\ issued \subseteq Nat \X Secrets /\ queue \in Ops \cup {Free}
             /\ Fits(versions, watermark) /\ NumbersNameOneSecret
RemovedStay == \A n \in DOMAIN versions \cap DOMAIN versions' :
                 versions[n].secret = NoSecret => versions'[n].secret = NoSecret

LEMMA LeavingFits ==
  ASSUME HistoryOK, NEW h, NEW mark, Fits(h, mark), BringsNothingBack(h),
         versions' = h, watermark' = mark, Leave(h)
  PROVE  HistoryOK' /\ RemovedStay
<1>1. issued' = issued \cup {<<n, h[n].secret>> : n \in {k \in DOMAIN h : h[k].secret # NoSecret}}
  BY DEF Leave
<1>2. \A n \in DOMAIN h : n \in Nat /\ h[n] \in VersionRecord /\ n <= mark
  BY DEF Fits, IsHistory
<1>3. issued' \subseteq Nat \X Secrets
  BY <1>1, <1>2, InvalidIsNoSecret DEF HistoryOK
<1>4. \A i \in issued' : /\ i \in issued \/ (i[1] \in DOMAIN h /\ i[2] = h[i[1]].secret)
                         /\ i[1] <= mark
                         /\ i[1] \in DOMAIN h => h[i[1]].secret \in {i[2], NoSecret}
  BY <1>1, <1>2 DEF Fits
<1>5. Fits(h, mark)'
  BY <1>4 DEF Fits
<1>6. NumbersNameOneSecret'
  <2> SUFFICES ASSUME NEW p \in issued', NEW q \in issued', p[1] = q[1]
               PROVE  p[2] = q[2]
    BY DEF NumbersNameOneSecret
  <2>1. \A i \in issued' : i \notin issued => i[2] = h[i[1]].secret /\ i[1] \in DOMAIN h /\ i[2] # NoSecret
    BY <1>1
  <2> QED
    BY <1>4, <2>1, <1>3, InvalidIsNoSecret DEF HistoryOK, NumbersNameOneSecret
<1> QED
  BY <1>3, <1>5, <1>6 DEF HistoryOK, Leave, RemovedStay, BringsNothingBack

LEMMA LeavingUnsavedFits ==
  ASSUME HistoryOK, LeaveUnsaved
  PROVE  HistoryOK' /\ RemovedStay
<1>1. Fits(versions, watermark) /\ BringsNothingBack(versions)
  BY DEF HistoryOK, BringsNothingBack
<1> QED
  BY <1>1, LeavingFits DEF LeaveUnsaved

LEMMA SavingFits ==
  ASSUME HistoryOK, NEW plan, Fits(plan.versions, plan.watermark),
         BringsNothingBack(plan.versions)
  PROVE  /\ SaveAndLeave(plan) => HistoryOK' /\ RemovedStay
         /\ SaveAndStay(plan) => HistoryOK' /\ RemovedStay
<1>1. ASSUME SaveAndLeave(plan) PROVE HistoryOK' /\ RemovedStay
  BY <1>1, LeavingFits DEF SaveAndLeave
<1>2. ASSUME SaveAndStay(plan) PROVE HistoryOK' /\ RemovedStay
  BY <1>2 DEF SaveAndStay, HistoryOK, Fits, NumbersNameOneSecret, BringsNothingBack, RemovedStay
<1> QED
  BY <1>1, <1>2

-----------------------------------------------------------------------------
(* What a step changes, and what it leaves to the other operations.         *)

StoreOK == /\ cred \in Credential \cup {None} /\ gone \in BOOLEAN
           /\ lock \in Ops \cup {Free}
           /\ gone => cred = None
TerminalKept == /\ cred # None /\ cred.state = "revoked" => ~Active(cred')
                /\ gone => cred' = None

LEMMA Parts ==
  IInv <=> /\ HistoryOK /\ StoreOK /\ DOMAIN op = Ops /\ scenario \in Scenarios
           /\ \A o \in Ops : OperationTyped(op[o]) /\ QueueKnows(o) /\ StoreKnows(o)
BY DEF IInv, TypeOK, HistoryOK, StoreOK, Fits

\* A step of o and of no other operation.
OnlyOf(o) == DOMAIN op' = Ops /\ \A p \in Ops \ {o} : op'[p] = op[p]

LEMMA GotoIs ==
  ASSUME IInv, NEW o \in Ops, NEW pc, Goto(o, pc)
  PROVE  /\ OnlyOf(o) /\ DOMAIN op'[o] = Fields
         /\ op'[o].pc = pc /\ op'[o].kind = op[o].kind
         /\ op'[o].mine = op[o].mine /\ op'[o].next = op[o].next /\ op'[o].plan = op[o].plan
<1>1. DOMAIN op = Ops /\ DOMAIN op[o] = Fields
  BY DEF IInv, TypeOK, OperationTyped
<1> QED
  BY <1>1 DEF Goto, OnlyOf, Fields

LEMMA MoveIs ==
  ASSUME IInv, NEW o \in Ops, NEW changes, Move(o, changes)
  PROVE  /\ OnlyOf(o) /\ DOMAIN op'[o] = Fields
         /\ op'[o].pc = IF "pc" \in DOMAIN changes THEN changes.pc ELSE op[o].pc
         /\ op'[o].kind = IF "kind" \in DOMAIN changes THEN changes.kind ELSE op[o].kind
         /\ op'[o].mine = IF "mine" \in DOMAIN changes THEN changes.mine ELSE op[o].mine
         /\ op'[o].next = IF "next" \in DOMAIN changes THEN changes.next ELSE op[o].next
         /\ op'[o].plan = IF "plan" \in DOMAIN changes THEN changes.plan ELSE op[o].plan
<1>1. DOMAIN op = Ops /\ DOMAIN op[o] = Fields
  BY DEF IInv, TypeOK, OperationTyped
<1>2. op'[o] = [f \in Fields |-> IF f \in DOMAIN changes THEN changes[f] ELSE op[o][f]]
  BY <1>1 DEF Move
<1>3. OnlyOf(o)
  BY <1>1 DEF Move, OnlyOf
<1> QED
  BY <1>2, <1>3 DEF Fields

\* Those who wait, and those who hold the other lock, see nothing of it.
LEMMA StepKeeps ==
  ASSUME IInv, UNCHANGED scenario, NEW o \in Ops, OnlyOf(o),
         OperationTyped(op'[o]), QueueKnows(o)', StoreKnows(o)',
         HistoryOK', queue \in {Free, o} \/ UNCHANGED historyVars,
         StoreOK', lock \in {Free, o} \/ UNCHANGED <<cred, gone, lock>>
  PROVE  IInv'
<1>1. ASSUME NEW p \in Ops, p # o
      PROVE  OperationTyped(op'[p]) /\ QueueKnows(p)' /\ StoreKnows(p)'
  <2>1. /\ OperationTyped(op[p]) /\ QueueKnows(p) /\ StoreKnows(p)
        /\ op'[p] = op[p] /\ p # Free
    BY <1>1, HistoryAssumption DEF IInv, TypeOK, OnlyOf
  <2>2. QueueKnows(p)'
    BY <1>1, <2>1 DEF QueueKnows, historyVars, Fits, BringsNothingBack, Live
  <2>3. StoreKnows(p)'
    BY <1>1, <2>1 DEF StoreKnows
  <2> QED
    BY <2>1, <2>2, <2>3
<1>2. DOMAIN op' = Ops
  BY DEF OnlyOf
<1> QED
  BY <1>1, <1>2, Parts DEF IInv, TypeOK, HistoryOK, StoreOK, Fits

\* A write, or none.
StoreKept == /\ lock' = lock /\ (lock = Free \/ UNCHANGED <<cred, gone>>)
             /\ StoreOK' /\ TerminalKept

LEMMA CommitIs ==
  ASSUME IInv, NEW o, NEW old, NEW new \in Credential, NEW changes, NEW lostPc,
         CommitOr(o, old, new, changes, lostPc)
  PROVE  StoreKept /\ (Move(o, changes) \/ Goto(o, lostPc))
BY DEF CommitOr, WriteOr, Lost, Replaceable, IInv, TypeOK, StoreKept, StoreOK, TerminalKept, Active

\* An operation that holds neither the queue nor the collection.
Quiet(q) == /\ q.pc \notin {"save", "saveInvalidated", "audit", "read"}
            /\ q.kind = "rollback" => q.pc \notin {"commit", "record"}
            /\ q.kind = "import" => q.pc \in Ended

\* Nothing that is not at the place of a rollback can be taken for one.
RollbackTakes(o) ==
  At(o, {"rollback"}, "commit") /\ op'[o].pc = "record" =>
    /\ Active(cred)
    /\ versions[op[o].next.number].secret = op[o].next.secret

\* All that is shown of a step of o.
Good(o) == /\ IInv' /\ OnlyOf(o) /\ TerminalKept /\ RemovedStay
           /\ lock' \in {lock, Free} \/ (lock' = o /\ cred = op[o].mine)
           /\ RollbackTakes(o)

LEMMA QuietStepKeeps ==
  ASSUME IInv, UNCHANGED scenario, NEW o \in Ops, OnlyOf(o), OperationTyped(op'[o]), Quiet(op'[o]),
         UNCHANGED historyVars, StoreKept, ~At(o, {"rollback"}, "commit")
  PROVE  Good(o)
<1>1. QueueKnows(o)' /\ StoreKnows(o)'
  BY DEF Quiet, QueueKnows, StoreKnows, Ended
<1>2. HistoryOK' /\ RemovedStay
  BY DEF IInv, TypeOK, HistoryOK, Fits, NumbersNameOneSecret, historyVars, RemovedStay
<1>3. IInv'
  BY <1>1, <1>2, StepKeeps DEF StoreKept
<1> QED
  BY <1>2, <1>3 DEF Good, StoreKept, RollbackTakes

QuietStages == Stages \ {"save", "saveInvalidated", "audit", "read", "commit", "record"}

LEMMA QuietGotoKeeps ==
  ASSUME IInv, UNCHANGED scenario, NEW o \in Ops, NEW pc \in QuietStages, Goto(o, pc),
         op[o].kind = "import" => pc \in Ended,
         pc \in Invalidating => op[o].kind \in {"revoke", "retry", "delete", "erase"},
         UNCHANGED historyVars, StoreKept, ~At(o, {"rollback"}, "commit")
  PROVE  Good(o)
<1>1. /\ OnlyOf(o) /\ DOMAIN op'[o] = Fields
      /\ op'[o].pc = pc /\ op'[o].kind = op[o].kind /\ op'[o].mine = op[o].mine
  BY GotoIs
<1>2. OperationTyped(op[o])
  BY DEF IInv, TypeOK
<1>3. OperationTyped(op'[o]) /\ Quiet(op'[o])
  BY <1>1, <1>2 DEF OperationTyped, Quiet, QuietStages
<1> QED
  BY <1>1, <1>3, QuietStepKeeps

\* A step of the cleanup and its mark in the Credential.
LEMMA MarkKeeps ==
  ASSUME IInv, UNCHANGED scenario, NEW o \in Ops, op[o].kind \in {"revoke", "retry", "delete", "erase"},
         NEW new \in Credential, NEW pc \in QuietStages, NEW lostPc \in QuietStages,
         MarkOr(o, new, pc, lostPc)
  PROVE  Good(o)
<1>1. /\ UNCHANGED historyVars /\ StoreKept /\ ~At(o, {"rollback"}, "commit")
      /\ Move(o, [mine |-> new, pc |-> pc]) \/ Goto(o, lostPc)
  BY CommitIs DEF MarkOr, At
<1>2. CASE Goto(o, lostPc)
  BY <1>1, <1>2, QuietGotoKeeps
<1>3. CASE Move(o, [mine |-> new, pc |-> pc])
  <2>1. /\ OnlyOf(o) /\ DOMAIN op'[o] = Fields
        /\ op'[o].pc = pc /\ op'[o].kind = op[o].kind /\ op'[o].mine = new
    BY <1>3, MoveIs
  <2>2. OperationTyped(op[o])
    BY DEF IInv, TypeOK
  <2>3. OperationTyped(op'[o]) /\ Quiet(op'[o])
    BY <2>1, <2>2 DEF OperationTyped, Quiet, QuietStages
  <2> QED
    BY <1>1, <2>1, <2>3, QuietStepKeeps
<1> QED
  BY <1>1, <1>2, <1>3

-----------------------------------------------------------------------------
(* Operations that change the Credential.                                   *)

LEMMA CredentialsChange ==
  ASSUME NEW c \in Credential
  PROVE  /\ Bump(c) \in Credential /\ Contained(c) \in Credential
         /\ Bump(c).state = c.state
         /\ \A s \in Steps : /\ [Bump(c) EXCEPT !.provider = s] \in Credential
                             /\ [Bump(c) EXCEPT !.history = s] \in Credential
         /\ \A s \in Secrets : /\ [Bump(c) EXCEPT !.secret = s] \in Credential
                               /\ [Bump(c) EXCEPT !.secret = s].state = c.state
                               /\ [Bump(c) EXCEPT !.secret = s].secret = s
                               /\ [Bump(c) EXCEPT !.secret = s, !.state = "active"] \in Credential
                               /\ [Bump(c) EXCEPT !.secret = s, !.state = "active"].secret = s
<1>1. Bump(c) \in Credential /\ Bump(c).state = c.state
  BY DEF Credential, Bump
<1>2. Contained(c) \in Credential
  BY <1>1 DEF Contained, Credential, Steps
<1>3. ASSUME NEW s \in Steps
      PROVE  /\ [Bump(c) EXCEPT !.provider = s] \in Credential
             /\ [Bump(c) EXCEPT !.history = s] \in Credential
  BY <1>1 DEF Credential
<1>4. ASSUME NEW s \in Secrets
      PROVE  /\ [Bump(c) EXCEPT !.secret = s] \in Credential
             /\ [Bump(c) EXCEPT !.secret = s].state = c.state
             /\ [Bump(c) EXCEPT !.secret = s].secret = s
  BY <1>1 DEF Credential
<1>5. ASSUME NEW s \in Secrets
      PROVE  /\ [Bump(c) EXCEPT !.secret = s, !.state = "active"] \in Credential
             /\ [Bump(c) EXCEPT !.secret = s, !.state = "active"].secret = s
  BY <1>1 DEF Credential
<1> QED
  BY <1>1, <1>2, <1>3, <1>4, <1>5

LEMMA MineIs ==
  ASSUME IInv, NEW o \in Ops, op[o].kind \in AllKinds \ {"register"}
  PROVE  op[o].mine \in Credential
BY DEF IInv, TypeOK, OperationTyped

LEMMA OpsAreSecrets == Ops \subseteq Secrets /\ InitialSecret \in Secrets
BY LifecycleAssumption

LEMMA CreateKeeps ==
  ASSUME IInv, UNCHANGED scenario, NEW o \in Ops, Create(o)
  PROVE  Good(o)
<1>1. /\ op[o].kind = "register" /\ op[o].pc = "create" /\ ~At(o, {"rollback"}, "commit")
      /\ UNCHANGED historyVars
  BY DEF Create, At
<1>2. Initially(o) \in Credential /\ Initially(o).secret = o
  BY OpsAreSecrets DEF Initially, Credential, Steps
<1>3. /\ StoreKept
      /\ Move(o, [next |-> Initially(o), pc |-> "record"]) \/ Goto(o, "failed")
  BY <1>2 DEF Create, WriteOr, Lost, IInv, TypeOK, StoreKept, StoreOK, TerminalKept, Active
<1>4. CASE Goto(o, "failed")
  BY <1>1, <1>3, <1>4, QuietGotoKeeps DEF QuietStages, Stages, Ended, Invalidating
<1>5. CASE Move(o, [next |-> Initially(o), pc |-> "record"])
  <2>1. /\ OnlyOf(o) /\ DOMAIN op'[o] = Fields /\ op'[o].pc = "record"
        /\ op'[o].kind = "register" /\ op'[o].mine = op[o].mine
        /\ op'[o].next.secret = o
    BY <1>1, <1>2, <1>5, MoveIs
  <2>2. OperationTyped(op'[o]) /\ Quiet(op'[o])
    BY <2>1, OpsAreSecrets DEF OperationTyped, Quiet, AllKinds, Startable, Stages, Invalidating
  <2> QED
    BY <1>1, <1>3, <2>1, <2>2, QuietStepKeeps
<1> QED
  BY <1>3, <1>4, <1>5

LEMMA CommitChangeKeeps ==
  ASSUME IInv, UNCHANGED scenario, NEW o \in Ops, CommitChange(o)
  PROVE  Good(o)
<1> DEFINE to == IF op[o].kind = "edit" THEN "ok" ELSE "record"
<1>1. /\ op[o].kind \in {"update", "edit", "refresh"} /\ op[o].pc = "commit"
      /\ ~At(o, {"rollback"}, "commit") /\ UNCHANGED historyVars
  BY DEF CommitChange, At
<1>2. op[o].mine \in Credential /\ OperationTyped(op[o])
  BY <1>1, MineIs DEF AllKinds, Startable, IInv, TypeOK
<1>3. /\ Successor(o) \in Credential
      /\ op[o].kind # "edit" => Successor(o).secret = o
  BY <1>1, <1>2, CredentialsChange, OpsAreSecrets DEF Successor
<1>4. StoreKept /\ (Move(o, [next |-> Successor(o), pc |-> to]) \/ Goto(o, "failed"))
  BY <1>3, CommitIs DEF CommitChange
<1>5. CASE Goto(o, "failed")
  BY <1>1, <1>4, <1>5, QuietGotoKeeps DEF QuietStages, Stages, Ended, Invalidating
<1>6. CASE Move(o, [next |-> Successor(o), pc |-> to])
  <2>1. /\ OnlyOf(o) /\ DOMAIN op'[o] = Fields /\ op'[o].pc = to
        /\ op'[o].kind = op[o].kind /\ op'[o].mine = op[o].mine
        /\ op'[o].next = Successor(o)
    BY <1>6, MoveIs
  <2>2. OperationTyped(op'[o]) /\ Quiet(op'[o])
    BY <1>1, <1>2, <1>3, <2>1, OpsAreSecrets DEF OperationTyped, Quiet, AllKinds, Startable, Stages, Ended, Invalidating
  <2> QED
    BY <1>1, <1>4, <2>1, <2>2, QuietStepKeeps
<1> QED
  BY <1>4, <1>5, <1>6
LEMMA ErasingIs ==
  ASSUME IInv, lock = Free /\ lock' = lock,
         UNCHANGED <<cred, gone>> \/ (cred' = None /\ gone' = TRUE)
  PROVE  StoreKept
<1>1. CASE UNCHANGED <<cred, gone>>
  BY <1>1 DEF IInv, TypeOK, StoreKept, StoreOK, TerminalKept, Active
<1>2. CASE cred' = None /\ gone' = TRUE
  <2>1. cred' = None /\ gone' \in BOOLEAN
    BY <1>2
  <2>2. TerminalKept
    BY <2>1 DEF TerminalKept, Active
  <2>3. StoreOK'
    BY <2>1 DEF StoreOK, IInv, TypeOK
  <2> QED
    BY <2>2, <2>3 DEF StoreKept
<1> QED
  BY <1>1, <1>2

LEMMA UndosKeep ==
  ASSUME IInv, UNCHANGED scenario, NEW o \in Ops, UndoUpdate(o) \/ UndoRegistration(o) \/ Erase(o)
  PROVE  Good(o)
<1>1. /\ op[o].kind \in {"register", "update", "erase"} /\ ~At(o, {"rollback"}, "commit")
      /\ UNCHANGED historyVars
  BY DEF UndoUpdate, UndoRegistration, Erase, At
<1>2. /\ StoreKept
      /\ \E pc \in Ended : Goto(o, pc) \/ Move(o, [pc |-> pc])
  <2>1. CASE UndoUpdate(o)
    <3>1. op[o].mine \in Credential
      BY <2>1, MineIs DEF UndoUpdate, At, AllKinds, Startable
    <3>2. StoreKept /\ (Move(o, [pc |-> "rolledBack"]) \/ Goto(o, "ok"))
      BY <2>1, <3>1, CommitIs DEF UndoUpdate
    <3> QED
      BY <3>2 DEF Ended
  <2>2. CASE UndoRegistration(o)
    <3>1. /\ lock = Free /\ lock' = lock
          /\ UNCHANGED <<cred, gone>> \/ (cred' = None /\ gone' = TRUE)
      BY <2>2 DEF UndoRegistration, WriteOr, Lost
    <3>2. StoreKept
      BY <3>1, ErasingIs
    <3>3. Move(o, [pc |-> "rolledBack"]) \/ Goto(o, "ok")
      BY <2>2 DEF UndoRegistration, WriteOr
    <3> QED
      BY <3>2, <3>3 DEF Ended
  <2>3. CASE Erase(o)
    <3>1. /\ lock = Free /\ lock' = lock
          /\ UNCHANGED <<cred, gone>> \/ (cred' = None /\ gone' = TRUE)
      BY <2>3 DEF Erase, WriteOr, Lost
    <3>2. StoreKept
      BY <3>1, ErasingIs
    <3>3. Move(o, [pc |-> "ok"]) \/ Goto(o, "failed")
      BY <2>3 DEF Erase, WriteOr
    <3> QED
      BY <3>2, <3>3 DEF Ended
  <2> QED
    BY <2>1, <2>2, <2>3
<1>3. PICK pc \in Ended : Goto(o, pc) \/ Move(o, [pc |-> pc])
  BY <1>2
<1>4. /\ OnlyOf(o) /\ DOMAIN op'[o] = Fields
      /\ op'[o].pc = pc /\ op'[o].kind = op[o].kind /\ op'[o].mine = op[o].mine
  <2>1. CASE Goto(o, pc)
    BY <2>1, GotoIs
  <2>2. CASE Move(o, [pc |-> pc])
    BY <2>2, MoveIs
  <2> QED
    BY <1>3, <2>1, <2>2
<1>5. OperationTyped(op[o])
  BY DEF IInv, TypeOK
<1>6. OperationTyped(op'[o]) /\ Quiet(op'[o])
  BY <1>1, <1>4, <1>5 DEF OperationTyped, Quiet, Stages, Ended, Invalidating
<1> QED
  BY <1>1, <1>2, <1>4, <1>6, QuietStepKeeps

LEMMA ContainmentKeeps ==
  ASSUME IInv, UNCHANGED scenario, NEW o \in Ops,
         \/ Contain(o) \/ RevokeAtProvider(o)
         \/ EraseContain(o) \/ EraseAtProvider(o) \/ CleanGrants(o)
  PROVE  Good(o)
<1> DEFINE c == op[o].mine
<1>1. op[o].kind \in {"revoke", "retry", "delete", "erase"}
  BY DEF Contain, RevokeAtProvider, EraseContain, EraseAtProvider, CleanGrants, At
<1>2. c \in Credential
  BY <1>1, MineIs DEF AllKinds, Startable
<1>3. /\ Bump(c) \in Credential /\ Contained(c) \in Credential
      /\ [Bump(c) EXCEPT !.provider = "complete"] \in Credential
      /\ [Bump(c) EXCEPT !.provider = "failed"] \in Credential
  BY <1>2, CredentialsChange DEF Steps
<1>4. {"failed", "provider", "invalidate", "grants", "eraseProvider", "kept"} \subseteq QuietStages
  BY DEF QuietStages, Stages, Ended
<1>5. \E new \in Credential, pc \in QuietStages, lostPc \in QuietStages :
        MarkOr(o, new, pc, lostPc)
  <2>1. CASE Contain(o)
    BY <2>1, <1>3, <1>4 DEF Contain
  <2>2. CASE RevokeAtProvider(o)
    BY <2>2, <1>3, <1>4 DEF RevokeAtProvider
  <2>3. CASE EraseContain(o)
    BY <2>3, <1>3, <1>4 DEF EraseContain
  <2>4. CASE EraseAtProvider(o)
    BY <2>4, <1>3, <1>4 DEF EraseAtProvider
  <2>5. CASE CleanGrants(o)
    BY <2>5, <1>3, <1>4 DEF CleanGrants
  <2> QED
    BY <2>1, <2>2, <2>3, <2>4, <2>5
<1> QED
  BY <1>1, <1>5, MarkKeeps

LEMMA MarkHistoryKeeps ==
  ASSUME IInv, UNCHANGED scenario, NEW o \in Ops, MarkHistory(o) \/ MarkHistoryFailed(o)
  PROVE  Good(o)
<1> DEFINE c == op[o].mine
           complete == [Bump(c) EXCEPT !.history = "complete"]
           failed == [Bump(c) EXCEPT !.history = "failed"]
<1>1. OperationTyped(op[o])
  BY DEF IInv, TypeOK
<1>2. /\ op[o].kind \in {"revoke", "retry", "delete", "erase"}
      /\ ~At(o, {"rollback"}, "commit") /\ UNCHANGED historyVars
  BY <1>1 DEF MarkHistory, MarkHistoryFailed, OperationTyped, Invalidating, At
<1>3. c \in Credential
  BY <1>2, MineIs DEF AllKinds, Startable
<1>4. /\ complete \in Credential /\ failed \in Credential
      /\ complete.state = c.state /\ failed.state = c.state
  <2>1. Bump(c) \in Credential /\ Bump(c).state = c.state
    BY <1>3, CredentialsChange
  <2> QED
    BY <2>1 DEF Credential, Steps
<1> HIDE DEF complete, failed
<1>5. /\ lock' = lock /\ gone' = gone
      /\ \/ cred' = cred
         \/ /\ lock = Free /\ cred # None
            /\ cred' \in {complete, failed}
            /\ cred.state = "revoked" => c.state = "revoked"
  <2>1. CASE MarkHistory(o)
    BY <2>1, <1>4 DEF MarkHistory, Lost, Replaceable, complete
  <2>2. CASE MarkHistoryFailed(o)
    BY <2>2, <1>4 DEF MarkHistoryFailed, Lost, Replaceable, failed
  <2> QED
    BY <2>1, <2>2
<1>6. StoreKept
  BY <1>4, <1>5 DEF IInv, TypeOK, StoreKept, StoreOK, TerminalKept, Active
<1>7. Revoked(o, complete) \/ Revoked(o, failed) \/ Revoked(o, c) \/ Goto(o, "historyFailed")
  BY DEF MarkHistory, MarkHistoryFailed, complete, failed
<1>8. CASE Goto(o, "historyFailed")
  BY <1>2, <1>6, <1>8, QuietGotoKeeps DEF QuietStages, Stages, Ended
<1>9. ASSUME NEW new \in Credential, Revoked(o, new) PROVE Good(o)
  <2>1. /\ OnlyOf(o) /\ DOMAIN op'[o] = Fields /\ op'[o].mine = new
        /\ op'[o].pc = IF op[o].kind = "delete" THEN "eraseContain" ELSE "ok"
        /\ op'[o].kind = IF op[o].kind = "delete" THEN "erase" ELSE op[o].kind
    BY <1>9, MoveIs DEF Revoked
  <2>2. OperationTyped(op'[o]) /\ Quiet(op'[o])
    BY <1>2, <2>1, <1>9 DEF OperationTyped, Quiet, AllKinds, Startable, Stages, Ended, Invalidating
  <2> QED
    BY <1>2, <1>6, <2>1, <2>2, QuietStepKeeps
<1> QED
  BY <1>3, <1>4, <1>7, <1>8, <1>9
-----------------------------------------------------------------------------
(* Recording and removing Secret versions.                                  *)

LEMMA QueueIs ==
  ASSUME IInv, NEW o \in Ops
  PROVE  /\ OperationTyped(op[o]) /\ HistoryOK /\ StoreOK
         /\ op[o].pc \in {"save", "saveInvalidated", "audit"} =>
              /\ queue = o /\ Fits(op[o].plan.versions, op[o].plan.watermark)
              /\ BringsNothingBack(op[o].plan.versions)
BY Parts DEF QueueKnows

\* The queue is released: others may enter, and o needs nothing of it any more.
LEMMA LeaveKeeps ==
  ASSUME IInv, UNCHANGED scenario, NEW o \in Ops, queue = o,
         \/ LeaveUnsaved
         \/ /\ op[o].pc \in {"save", "saveInvalidated", "audit"}
            /\ SaveAndLeave(op[o].plan),
         NEW pc \in QuietStages, Goto(o, pc),
         pc \in Invalidating => op[o].kind \in {"revoke", "retry", "delete", "erase"},
         StoreOK', lock \in {Free, o} \/ UNCHANGED <<cred, gone, lock>>,
         TerminalKept, lock' \in {lock, Free}, StoreKnows(o)'
  PROVE  Good(o)
<1>1. /\ OnlyOf(o) /\ DOMAIN op'[o] = Fields
      /\ op'[o].pc = pc /\ op'[o].kind = op[o].kind /\ op'[o].mine = op[o].mine
  BY GotoIs
<1>2. OperationTyped(op'[o])
  BY <1>1, QueueIs DEF OperationTyped, QuietStages
<1>3. QueueKnows(o)'
  BY <1>1 DEF QueueKnows, QuietStages
<1>4. HistoryOK' /\ RemovedStay
  BY QueueIs, LeavingUnsavedFits, SavingFits
<1>5. IInv'
  BY <1>1, <1>2, <1>3, <1>4, StepKeeps
<1>6. RollbackTakes(o)
  BY <1>1 DEF RollbackTakes, QuietStages
<1> QED
  BY <1>1, <1>4, <1>5, <1>6 DEF Good

LEMMA LoadHistoryKeeps ==
  ASSUME IInv, UNCHANGED scenario, NEW o \in Ops, LoadHistory(o)
  PROVE  Good(o)
<1>0. PICK plan : plan = WithVersion(op[o].next.secret)
  OBVIOUS
<1>1. /\ op[o].pc = "record" /\ Move(o, [plan |-> plan, pc |-> "save"])
      /\ op[o].kind \in {"register", "update", "refresh", "import", "rollback"}
      /\ UNCHANGED <<cred, gone, lock>>
  BY <1>0 DEF LoadHistory, At
<1>2. op[o].next.secret \in Secrets
  BY <1>1, QueueIs DEF OperationTyped
<1>3. /\ queue' = o /\ queue \in {Free, o}
      /\ UNCHANGED <<versions, watermark, issued>>
  <2>1. CASE At(o, {"rollback"}, "record")
    <3>1. queue = o
      BY <2>1 DEF At, IInv, QueueKnows
    <3> QED
      BY <2>1, <3>1, <1>1 DEF LoadHistory, Enter, MayEnter, historyVars, At
  <2>2. CASE ~At(o, {"rollback"}, "record")
    BY <2>2 DEF LoadHistory, Enter, MayEnter
  <2> QED
    BY <2>1, <2>2
<1>4. /\ Fits(plan.versions, plan.watermark) /\ BringsNothingBack(plan.versions)
      /\ \A n \in DOMAIN plan.versions \cap DOMAIN versions :
           plan.versions[n].secret = NoSecret => n \notin Live(versions)
  BY <1>0, <1>2, QueueIs, AddingFits DEF HistoryOK
<1>5. /\ OnlyOf(o) /\ DOMAIN op'[o] = Fields
      /\ op'[o].pc = "save" /\ op'[o].kind = op[o].kind /\ op'[o].mine = op[o].mine
      /\ op'[o].next = op[o].next /\ op'[o].plan = plan
  BY <1>1, MoveIs
<1>6. OperationTyped(op'[o])
  BY <1>1, <1>2, <1>5, QueueIs DEF OperationTyped, Stages, Invalidating
<1>7. Fits(plan.versions, plan.watermark)' /\ BringsNothingBack(plan.versions)'
      /\ Live(versions)' = Live(versions)
  BY <1>3, <1>4 DEF Fits, BringsNothingBack, Live
<1> QED
  <2>1. QueueKnows(o)'
    BY <1>1, <1>3, <1>4, <1>5, <1>7 DEF QueueKnows
  <2>2. StoreKnows(o)'
    BY <1>1, <1>5 DEF StoreKnows, IInv, Ended
  <2>3. HistoryOK' /\ RemovedStay
    BY <1>3, QueueIs DEF HistoryOK, Fits, NumbersNameOneSecret, RemovedStay
  <2>4. IInv'
    BY <1>1, <1>3, <1>5, <1>6, <2>1, <2>2, <2>3, QueueIs, StepKeeps DEF StoreOK
  <2> QED
    BY <1>1, <1>5, <2>3, <2>4, QueueIs DEF Good, RollbackTakes, TerminalKept, Active, StoreOK

LEMMA SavesKeep ==
  ASSUME IInv, UNCHANGED scenario, NEW o \in Ops, SaveVersion(o) \/ SaveInvalidated(o)
  PROVE  Good(o)
<1>1. /\ op[o].pc \in {"save", "saveInvalidated"} /\ queue = o
      /\ UNCHANGED <<cred, gone, lock>>
      /\ SaveAndLeave(op[o].plan) \/ LeaveUnsaved
  BY QueueIs DEF SaveVersion, SaveInvalidated
<1>2. StoreOK' /\ TerminalKept
  BY <1>1, QueueIs DEF StoreOK, TerminalKept, Active
<1>3. \E pc \in QuietStages :
        /\ Goto(o, pc)
        /\ op[o].kind = "import" => pc \in Ended
        /\ pc \in Invalidating => op[o].kind \in {"revoke", "retry", "delete", "erase"}
  <2>1. CASE SaveVersion(o)
    <3>1. op[o].kind # "import"
      BY <2>1 DEF SaveVersion
    <3>2. Goto(o, "ok") \/ Goto(o, "undo") \/ Goto(o, "failed")
      BY <2>1 DEF SaveVersion, AfterRecordError
    <3> QED
      BY <3>1, <3>2 DEF QuietStages, Stages, Ended, Invalidating
  <2>2. CASE SaveInvalidated(o)
    <3>1. op[o].kind \in {"revoke", "retry", "delete", "erase"}
      BY <2>2, QueueIs DEF SaveInvalidated, OperationTyped, Invalidating
    <3>2. \/ Goto(o, "markHistory") \/ Goto(o, "ok") \/ Goto(o, "erase")
          \/ Goto(o, "failed") \/ Goto(o, "historyFailed")
      BY <2>2, <3>1 DEF SaveInvalidated, AfterInvalidation
    <3> QED
      BY <3>1, <3>2 DEF QuietStages, Stages, Ended
  <2> QED
    BY <2>1, <2>2
<1>4. PICK pc \in QuietStages :
        /\ Goto(o, pc)
        /\ op[o].kind = "import" => pc \in Ended
        /\ pc \in Invalidating => op[o].kind \in {"revoke", "retry", "delete", "erase"}
  BY <1>3
<1>5. StoreKnows(o)'
  BY <1>4, GotoIs DEF StoreKnows, QuietStages, Ended
<1> QED
  BY <1>1, <1>2, <1>4, <1>5, LeaveKeeps

LEMMA LoadForInvalidationKeeps ==
  ASSUME IInv, UNCHANGED scenario, NEW o \in Ops, LoadForInvalidation(o)
  PROVE  Good(o)
<1>1. PICK plan : plan = AllInvalidated
  OBVIOUS
<1>2. /\ op[o].pc = "invalidate" /\ Move(o, [plan |-> plan, pc |-> "saveInvalidated"])
      /\ queue = Free /\ queue' = o
      /\ UNCHANGED <<versions, watermark, issued, cred, gone, lock>>
  BY <1>1 DEF LoadForInvalidation, Enter, MayEnter
<1>3. /\ OnlyOf(o) /\ DOMAIN op'[o] = Fields /\ op'[o].pc = "saveInvalidated"
      /\ op'[o].kind = op[o].kind /\ op'[o].mine = op[o].mine /\ op'[o].plan = plan
  BY <1>2, MoveIs
<1>4. op[o].kind \in {"revoke", "retry", "delete", "erase"}
  BY <1>2, QueueIs DEF OperationTyped, Invalidating
<1>5. OperationTyped(op'[o])
  BY <1>3, <1>4, QueueIs DEF OperationTyped, Stages
<1>6. Fits(plan.versions, plan.watermark) /\ BringsNothingBack(plan.versions)
  BY <1>1, QueueIs, InvalidatingFits DEF HistoryOK
<1>7. Fits(plan.versions, plan.watermark)' /\ BringsNothingBack(plan.versions)'
  BY <1>2, <1>6 DEF Fits, BringsNothingBack
<1>8. QueueKnows(o)' /\ StoreKnows(o)'
  BY <1>2, <1>3, <1>4, <1>7 DEF QueueKnows, StoreKnows
<1>9. HistoryOK' /\ RemovedStay
  BY <1>2, QueueIs DEF HistoryOK, Fits, NumbersNameOneSecret, RemovedStay
<1>10. IInv'
  BY <1>2, <1>3, <1>5, <1>8, <1>9, QueueIs, StepKeeps DEF StoreOK
<1> QED
  BY <1>2, <1>3, <1>9, <1>10, QueueIs DEF Good, RollbackTakes, TerminalKept, Active, StoreOK
-----------------------------------------------------------------------------
(* The rollback, which holds the queue throughout.                          *)

LEMMA TakeTargetKeeps ==
  ASSUME IInv, UNCHANGED scenario, NEW o \in Ops, TakeTarget(o)
  PROVE  Good(o)
<1>1. /\ op[o].pc = "idle" /\ Active(cred) /\ queue = Free /\ queue' = o
      /\ versions' = Retained(versions)
      /\ UNCHANGED <<watermark, issued, cred, gone, lock>>
  BY DEF TakeTarget, MayStart, EnterPruning, MayEnter
<1>2. PICK n \in Live(Retained(versions)) :
        Move(o, [kind |-> "rollback", pc |-> "read", mine |-> cred,
                 next |-> [secret |-> versions[n].secret, number |-> n]])
  BY DEF TakeTarget
<1>3. IsHistory(versions)
  BY QueueIs DEF HistoryOK, Fits
<1>4. /\ n \in DOMAIN Retained(versions) /\ Retained(versions)[n] = versions[n]
      /\ versions[n].secret \in Secrets
  <2>1. /\ n \in DOMAIN Retained(versions) /\ Retained(versions)[n].status = "live"
        /\ Retained(versions)[n] \in VersionRecord
    BY <1>2, <1>3, RetainedIs DEF Live, IsHistory
  <2>2. Retained(versions)[n] = IF n \in Live(versions) THEN versions[n] ELSE Invalidated
    BY <2>1, <1>3, RetainedIs
  <2> QED
    BY <2>1, <2>2, InvalidIsNoSecret
<1>5. /\ OnlyOf(o) /\ DOMAIN op'[o] = Fields /\ op'[o].pc = "read"
      /\ op'[o].kind = "rollback" /\ op'[o].mine = cred
      /\ op'[o].next = [secret |-> versions[n].secret, number |-> n]
  BY <1>2, MoveIs
<1>6. cred \in Credential
  BY <1>1, QueueIs DEF StoreOK, Active
<1>7. OperationTyped(op'[o])
  BY <1>4, <1>5, <1>6 DEF OperationTyped, AllKinds, Startable, Stages, Invalidating
<1>8. QueueKnows(o)'
  BY <1>1, <1>4, <1>5 DEF QueueKnows
<1>9. StoreKnows(o)'
  BY <1>1, <1>5 DEF StoreKnows, Active
<1>10. HistoryOK' /\ RemovedStay
  <2>1. Fits(Retained(versions), watermark) /\ BringsNothingBack(Retained(versions))
    BY QueueIs, ReadingFits DEF HistoryOK
  <2>2. Fits(versions, watermark)'
    BY <2>1, <1>1 DEF Fits
  <2> QED
    BY <1>1, <2>1, <2>2, QueueIs DEF HistoryOK, NumbersNameOneSecret, RemovedStay, BringsNothingBack
<1>11. IInv'
  BY <1>1, <1>5, <1>7, <1>8, <1>9, <1>10, QueueIs, StepKeeps DEF StoreOK
<1> QED
  BY <1>1, <1>5, <1>10, <1>11, QueueIs DEF Good, RollbackTakes, TerminalKept, Active, StoreOK, At

\* A rollback goes on with the queue and the version it has taken.
LEMMA RollbackGoesOn ==
  ASSUME IInv, UNCHANGED scenario, NEW o \in Ops, op[o].kind = "rollback",
         \/ op[o].pc = "read" /\ Goto(o, "commit")
         \/ op[o].pc = "commit" /\ Goto(o, "record"),
         UNCHANGED historyVars, StoreKept, RollbackTakes(o)
  PROVE  Good(o)
<1>1. /\ OnlyOf(o) /\ DOMAIN op'[o] = Fields /\ op'[o].kind = "rollback"
      /\ op'[o].pc = IF op[o].pc = "read" THEN "commit" ELSE "record"
      /\ op'[o].mine = op[o].mine /\ op'[o].next = op[o].next
  BY GotoIs
<1>2. QueueKnows(o) /\ StoreKnows(o) /\ OperationTyped(op[o])
  BY Parts
<1>3. OperationTyped(op'[o])
  BY <1>1, <1>2 DEF OperationTyped, Stages, Invalidating
<1>4. QueueKnows(o)' /\ queue = o
  BY <1>1, <1>2 DEF QueueKnows, historyVars
<1>5. StoreKnows(o)'
  BY <1>1, <1>2 DEF StoreKnows, Active
<1>6. HistoryOK' /\ RemovedStay
  BY QueueIs DEF HistoryOK, Fits, NumbersNameOneSecret, RemovedStay, historyVars
<1>7. IInv'
  BY <1>1, <1>3, <1>4, <1>5, <1>6, StepKeeps DEF StoreKept
<1> QED
  BY <1>1, <1>6, <1>7 DEF Good, StoreKept

LEMMA ReadAgainKeeps ==
  ASSUME IInv, UNCHANGED scenario, NEW o \in Ops, ReadAgain(o)
  PROVE  Good(o)
<1>1. op[o].kind = "rollback" /\ op[o].pc = "read" /\ UNCHANGED <<cred, gone, lock>>
  BY DEF ReadAgain, At
<1>2. StoreKept /\ StoreOK' /\ TerminalKept /\ RollbackTakes(o) /\ queue = o
  BY <1>1, Parts DEF StoreKept, StoreOK, TerminalKept, Active, RollbackTakes, At, QueueKnows
<1>3. CASE Goto(o, "commit") /\ UNCHANGED historyVars
  BY <1>1, <1>2, <1>3, RollbackGoesOn
<1>4. CASE Goto(o, "failed") /\ LeaveUnsaved
  <2>1. StoreKnows(o)'
    BY <1>1, <1>4, GotoIs DEF StoreKnows
  <2> QED
    BY <1>1, <1>2, <1>4, <2>1, LeaveKeeps DEF QuietStages, Stages, Ended, Invalidating
<1> QED
  BY <1>3, <1>4 DEF ReadAgain

LEMMA CommitRollbackKeeps ==
  ASSUME IInv, UNCHANGED scenario, NEW o \in Ops, CommitRollback(o)
  PROVE  Good(o)
<1> DEFINE mine == op[o].mine
           new == [Bump(mine) EXCEPT !.secret = op[o].next.secret]
<1>1. /\ op[o].kind = "rollback" /\ op[o].pc = "commit" /\ queue = o
      /\ QueueKnows(o) /\ StoreKnows(o) /\ OperationTyped(op[o])
  BY Parts DEF CommitRollback, At, QueueKnows
<1>2. mine \in Credential /\ mine.state = "active" /\ op[o].next.secret \in Secrets
  BY <1>1, MineIs DEF AllKinds, Startable, StoreKnows, Active, OperationTyped
<1>3. new \in Credential /\ new.state = "active"
  BY <1>2, CredentialsChange
<1>4. cred \in Credential \cup {None} /\ gone \in BOOLEAN
  BY Parts DEF StoreOK
<1> HIDE DEF new, mine
<1>5. \/ /\ lock = Free /\ Replaceable(mine, new) /\ cred' = new
         /\ Goto(o, "record") /\ UNCHANGED <<historyVars, gone, lock>>
      \/ Lost(Replaceable(mine, new), new, gone) /\ Goto(o, "failed") /\ LeaveUnsaved
  BY DEF CommitRollback, mine, new
<1>6. CASE /\ lock = Free /\ Replaceable(mine, new) /\ cred' = new
           /\ Goto(o, "record") /\ UNCHANGED <<historyVars, gone, lock>>
  <2>1. cred \in Credential /\ cred # None /\ cred.state = "active"
    BY <1>3, <1>4, <1>6 DEF Replaceable, Credential
  <2>2. RollbackTakes(o)
    BY <1>1, <2>1 DEF RollbackTakes, Active, QueueKnows
  <2>3. StoreKept
    BY <1>3, <1>6, <2>1, Parts DEF StoreKept, StoreOK, TerminalKept
  <2> QED
    BY <1>1, <1>6, <2>2, <2>3, RollbackGoesOn
<1>7. CASE Lost(Replaceable(mine, new), new, gone) /\ Goto(o, "failed") /\ LeaveUnsaved
  <2>1. StoreKept
    BY <1>3, <1>7, Parts DEF Lost, Replaceable, StoreKept, StoreOK, TerminalKept, Active
  <2>2. StoreKnows(o)'
    BY <1>1, <1>7, GotoIs DEF StoreKnows
  <2>3. lock = Free /\ lock' = lock
    BY <1>7 DEF Lost
  <2> QED
    BY <1>1, <1>7, <2>1, <2>2, <2>3, LeaveKeeps DEF StoreKept, QuietStages, Stages, Ended, Invalidating
<1> QED
  BY <1>5, <1>6, <1>7
-----------------------------------------------------------------------------
(* The import, which holds the collection from its commit on.               *)

LEMMA CommitImportKeeps ==
  ASSUME IInv, UNCHANGED scenario, NEW o \in Ops, CommitImport(o)
  PROVE  Good(o)
<1> DEFINE mine == op[o].mine
           new == [Bump(mine) EXCEPT !.secret = o]
<1>1. /\ op[o].kind = "import" /\ op[o].pc = "commit" /\ lock = Free
      /\ UNCHANGED <<versions, watermark, queue, issued, gone>>
      /\ OperationTyped(op[o]) /\ StoreKnows(o) /\ HistoryOK /\ StoreOK
  BY Parts DEF CommitImport, At, historyVars
<1>2. mine \in Credential /\ Active(mine)
  BY <1>1, MineIs DEF AllKinds, Startable, StoreKnows, Ended
<1>3. new \in Credential /\ new.state = "active" /\ new.secret = o /\ o \in Secrets
  BY <1>2, CredentialsChange, OpsAreSecrets DEF Active
<1> HIDE DEF new
<1>4. HistoryOK' /\ RemovedStay
  BY <1>1 DEF HistoryOK, Fits, NumbersNameOneSecret, RemovedStay
<1>5. \/ /\ cred = mine /\ cred' = new /\ lock' = o
         /\ Move(o, [next |-> new, pc |-> "record"])
      \/ Goto(o, "failed") /\ UNCHANGED <<cred, lock>>
  BY DEF CommitImport, SameAsPreviewed, new
<1>6. CASE /\ cred = mine /\ cred' = new /\ lock' = o
           /\ Move(o, [next |-> new, pc |-> "record"])
  <2>1. /\ OnlyOf(o) /\ DOMAIN op'[o] = Fields /\ op'[o].pc = "record"
        /\ op'[o].kind = "import" /\ op'[o].mine = mine /\ op'[o].next = new
    BY <1>1, <1>6, MoveIs
  <2>2. OperationTyped(op'[o])
    BY <1>1, <1>2, <1>3, <2>1 DEF OperationTyped, Stages, Invalidating
  <2>3. gone = FALSE
    BY <1>1, <1>2, <1>6 DEF StoreOK, Active
  <2>4. QueueKnows(o)' /\ StoreKnows(o)'
    BY <1>1, <1>2, <1>3, <1>6, <2>1, <2>3 DEF QueueKnows, StoreKnows, Active
  <2>5. StoreOK' /\ TerminalKept
    BY <1>1, <1>2, <1>3, <1>6, <2>3 DEF StoreOK, TerminalKept, Active
  <2>6. IInv'
    BY <1>1, <1>4, <2>1, <2>2, <2>4, <2>5, StepKeeps DEF historyVars
  <2> QED
    BY <1>1, <1>4, <1>6, <2>1, <2>5, <2>6 DEF Good, RollbackTakes, At
<1>7. CASE Goto(o, "failed") /\ UNCHANGED <<cred, lock>>
  <2>1. StoreKept /\ ~At(o, {"rollback"}, "commit")
    BY <1>1, <1>7 DEF StoreKept, StoreOK, TerminalKept, Active, At
  <2> QED
    BY <1>1, <1>7, <2>1, QuietGotoKeeps DEF QuietStages, Stages, Ended, Invalidating, historyVars
<1> QED
  BY <1>5, <1>6, <1>7

\* What an import knows after its commit.
LEMMA ImportIs ==
  ASSUME IInv, NEW o \in Ops, op[o].kind = "import",
         op[o].pc \in {"record", "save", "audit", "restore"}
  PROVE  /\ lock = o /\ gone = FALSE /\ cred.state = "active"
         /\ Active(op[o].mine) /\ op[o].mine \in Credential
  <1>1. StoreKnows(o) /\ StoreOK
    BY Parts
  <1> QED
    BY <1>1, MineIs DEF StoreKnows, StoreOK, Ended, AllKinds, Startable

LEMMA SaveImportedVersionKeeps ==
  ASSUME IInv, UNCHANGED scenario, NEW o \in Ops, SaveImportedVersion(o)
  PROVE  Good(o)
<1>1. /\ op[o].kind = "import" /\ op[o].pc = "save" /\ queue = o
      /\ UNCHANGED <<cred, gone, lock>>
      /\ QueueKnows(o) /\ StoreKnows(o) /\ OperationTyped(op[o]) /\ HistoryOK /\ StoreOK
  BY Parts DEF SaveImportedVersion, At, QueueKnows
<1>2. StoreOK' /\ TerminalKept
  BY <1>1 DEF StoreOK, TerminalKept, Active
<1>3. PICK plan : plan = Reverted
  OBVIOUS
<1>4. \/ SaveAndStay(op[o].plan) /\ Move(o, [plan |-> plan, pc |-> "audit"])
      \/ LeaveUnsaved /\ Goto(o, "restore")
  BY <1>3 DEF SaveImportedVersion
<1>5. CASE SaveAndStay(op[o].plan) /\ Move(o, [plan |-> plan, pc |-> "audit"])
  <2>1. /\ OnlyOf(o) /\ DOMAIN op'[o] = Fields /\ op'[o].pc = "audit"
        /\ op'[o].kind = "import" /\ op'[o].mine = op[o].mine /\ op'[o].plan = plan
    BY <1>1, <1>5, MoveIs
  <2>2. OperationTyped(op'[o])
    BY <1>1, <2>1 DEF OperationTyped, Stages, Invalidating
  <2>3. StoreKnows(o)'
    BY <1>1, <2>1 DEF StoreKnows, Ended
  <2>4. HistoryOK' /\ RemovedStay
    BY <1>1, <1>5, QueueIs, SavingFits
  <2>5. versions' = op[o].plan.versions /\ UNCHANGED <<queue, issued>>
    BY <1>5 DEF SaveAndStay
  <2>6. plan.versions = Retained(versions) /\ plan.watermark = watermark
    BY <1>3 DEF Reverted
  <2>7. Fits(plan.versions, plan.watermark)'
    BY <1>1, <2>5, <2>6, ReadingFits DEF HistoryOK, Fits
  <2>8. BringsNothingBack(plan.versions)'
    <3> SUFFICES ASSUME NEW n \in DOMAIN plan.versions \cap DOMAIN op[o].plan.versions,
                        op[o].plan.versions[n].secret = NoSecret
                 PROVE  plan.versions[n].secret = NoSecret
      BY <2>5 DEF BringsNothingBack
    <3>1. n \in DOMAIN versions /\ plan.versions[n] = IF n \in Live(versions) THEN versions[n] ELSE Invalidated
      BY <1>1, <2>6, RetainedIs DEF HistoryOK, Fits
    <3>2. n \notin Live(versions)
      BY <1>1, <3>1 DEF QueueKnows
    <3> QED
      BY <3>1, <3>2, InvalidIsNoSecret
  <2>9. QueueKnows(o)'
    BY <1>1, <2>1, <2>5, <2>7, <2>8 DEF QueueKnows
  <2>10. IInv'
    BY <1>1, <1>2, <2>1, <2>2, <2>3, <2>4, <2>9, StepKeeps
  <2> QED
    BY <1>1, <1>2, <2>1, <2>4, <2>10 DEF Good, RollbackTakes
<1>6. CASE LeaveUnsaved /\ Goto(o, "restore")
  <2>1. StoreKnows(o)'
    BY <1>1, <1>6, GotoIs DEF StoreKnows, Ended
  <2> QED
    BY <1>1, <1>2, <1>6, <2>1, LeaveKeeps DEF QuietStages, Stages, Ended, Invalidating
<1> QED
  BY <1>4, <1>5, <1>6

LEMMA RecordImportKeeps ==
  ASSUME IInv, UNCHANGED scenario, NEW o \in Ops, RecordImport(o)
  PROVE  Good(o)
<1>1. /\ op[o].kind = "import" /\ op[o].pc = "audit" /\ queue = o
      /\ UNCHANGED <<cred, gone>>
      /\ StoreKnows(o) /\ StoreOK
  BY Parts DEF RecordImport, At, QueueKnows
<1>2. lock = o /\ lock' \in {lock, Free}
  BY <1>1, ImportIs DEF RecordImport
<1>3. StoreOK' /\ TerminalKept
  BY <1>1, <1>2 DEF StoreOK, TerminalKept, Active
<1>4. LeaveUnsaved \/ SaveAndLeave(op[o].plan)
  BY DEF RecordImport
<1>5. Goto(o, "ok") \/ (Goto(o, "restore") /\ UNCHANGED lock)
  BY DEF RecordImport
<1>6. CASE Goto(o, "ok")
  <2>1. StoreKnows(o)'
    BY <1>1, <1>6, GotoIs DEF StoreKnows, Ended
  <2> QED
    BY <1>1, <1>2, <1>3, <1>4, <1>6, <2>1, LeaveKeeps DEF QuietStages, Stages, Ended, Invalidating
<1>7. CASE Goto(o, "restore") /\ UNCHANGED lock
  <2>1. StoreKnows(o)'
    BY <1>1, <1>7, GotoIs DEF StoreKnows, Ended
  <2> QED
    BY <1>1, <1>2, <1>3, <1>4, <1>7, <2>1, LeaveKeeps DEF QuietStages, Stages, Ended, Invalidating
<1> QED
  BY <1>5, <1>6, <1>7

LEMMA RestoreCollectionKeeps ==
  ASSUME IInv, UNCHANGED scenario, NEW o \in Ops, RestoreCollection(o)
  PROVE  Good(o)
<1>1. /\ op[o].kind = "import" /\ op[o].pc = "restore"
      /\ cred' = op[o].mine /\ lock' = Free /\ Goto(o, "rolledBack")
      /\ UNCHANGED <<versions, watermark, queue, issued, gone>>
      /\ OperationTyped(op[o]) /\ HistoryOK /\ StoreOK
  BY Parts DEF RestoreCollection, At, historyVars
<1>2. /\ lock = o /\ gone = FALSE /\ cred.state = "active"
      /\ op[o].mine \in Credential
  BY <1>1, ImportIs
<1>3. /\ OnlyOf(o) /\ DOMAIN op'[o] = Fields /\ op'[o].pc = "rolledBack"
      /\ op'[o].kind = "import" /\ op'[o].mine = op[o].mine
  BY <1>1, GotoIs
<1>4. OperationTyped(op'[o])
  BY <1>1, <1>3 DEF OperationTyped, Stages, Ended, Invalidating
<1>5. QueueKnows(o)' /\ StoreKnows(o)'
  BY <1>3 DEF QueueKnows, StoreKnows, Ended
<1>6. StoreOK' /\ TerminalKept
  BY <1>1, <1>2 DEF StoreOK, TerminalKept
<1>7. HistoryOK' /\ RemovedStay
  BY <1>1 DEF HistoryOK, Fits, NumbersNameOneSecret, RemovedStay
<1>8. IInv'
  BY <1>1, <1>2, <1>3, <1>4, <1>5, <1>6, <1>7, StepKeeps DEF historyVars
<1> QED
  BY <1>1, <1>3, <1>6, <1>7, <1>8 DEF Good, RollbackTakes
-----------------------------------------------------------------------------
(* Starting, the clock, reading, and a crash.                               *)

LEMMA StartKeeps ==
  ASSUME IInv, UNCHANGED scenario, NEW o \in Ops, NEW k \in Kinds \ {"rollback"}, Start(o, k)
  PROVE  Good(o)
<1>1. /\ op[o].pc = "idle" /\ lock = Free /\ (k = "register") = (cred = None)
      /\ k = "import" => Active(cred)
      /\ UNCHANGED <<historyVars, cred, gone, lock>>
      /\ op' = [op EXCEPT ![o].kind = KindNow(k), ![o].pc = FirstStep(KindNow(k)), ![o].mine = cred]
  BY DEF Start, MayStart
<1>2. k \in {"register", "update", "edit", "refresh", "import", "revoke", "delete"}
  BY LifecycleAssumption DEF IInv, TypeOK, Kinds, Startable
<1>3. /\ KindNow(k) \in {"register", "update", "edit", "refresh", "import",
                         "revoke", "retry", "delete", "erase"}
      /\ KindNow(k) = "register" => k = "register"
      /\ KindNow(k) = "import" => k = "import"
  BY <1>2 DEF KindNow
<1>4. PICK kind : kind = KindNow(k)
  OBVIOUS
<1>5. PICK pc : pc = FirstStep(kind)
  OBVIOUS
<1>6. /\ pc \in {"create", "contain", "invalidate", "provider", "eraseContain", "commit"}
      /\ pc = "invalidate" => kind = "retry"
  BY <1>3, <1>4, <1>5 DEF FirstStep
<1>7. /\ OnlyOf(o) /\ DOMAIN op'[o] = Fields
      /\ op'[o].kind = kind /\ op'[o].pc = pc /\ op'[o].mine = cred
  <2>1. DOMAIN op = Ops /\ DOMAIN op[o] = Fields
    BY DEF IInv, TypeOK, OperationTyped
  <2> QED
    BY <1>1, <1>4, <1>5, <2>1 DEF OnlyOf, Fields
<1>8. /\ cred \in Credential \cup {None}
      /\ kind # "register" => cred \in Credential
  <2>1. kind # "register" => k # "register"
    BY <1>2, <1>4 DEF KindNow
  <2> QED
    BY <1>1, <2>1 DEF IInv, TypeOK
<1>9. OperationTyped(op'[o])
  BY <1>3, <1>4, <1>6, <1>7, <1>8 DEF OperationTyped, AllKinds, Startable, Stages, Invalidating
<1>10. QueueKnows(o)' /\ StoreKnows(o)'
  BY <1>1, <1>3, <1>4, <1>6, <1>7 DEF QueueKnows, StoreKnows, Active
<1>11. HistoryOK' /\ RemovedStay /\ StoreOK' /\ TerminalKept
  BY <1>1, Parts DEF HistoryOK, Fits, NumbersNameOneSecret, RemovedStay, StoreOK, TerminalKept, Active, historyVars
<1>12. IInv'
  BY <1>1, <1>7, <1>9, <1>10, <1>11, StepKeeps
<1> QED
  BY <1>1, <1>7, <1>11, <1>12 DEF Good, RollbackTakes, At

\* What the clock, a reader, a crash or a pause keeps.
Safe == /\ IInv' /\ TerminalKept /\ RemovedStay
        /\ lock' \in {lock, Free}
        /\ \A o \in Ops : op[o].pc = "commit" => op'[o].pc # "record"

LEMMA LapseKeeps ==
  ASSUME IInv, Lapse, UNCHANGED <<cred, gone, lock, op, scenario>>
  PROVE  Safe
<1>1. /\ DOMAIN versions' = DOMAIN versions
      /\ versions' = [n \in DOMAIN versions |-> IF n \in Live(versions)
                        THEN [versions[n] EXCEPT !.status = "lapsed"] ELSE versions[n]]
      /\ UNCHANGED <<watermark, issued, queue>>
      /\ IsHistory(versions)
  BY DEF Lapse, IInv, TypeOK
<1>2. ASSUME NEW n \in DOMAIN versions
      PROVE  /\ versions'[n] \in VersionRecord /\ versions'[n].secret = versions[n].secret
             /\ versions'[n].status # "live"
  <2>1. versions[n] \in VersionRecord
    BY <1>1 DEF IsHistory
  <2>2. CASE n \in Live(versions)
    <3>1. versions[n] \in [secret : Secrets, status : {"live", "lapsed"}]
      BY <2>1, <2>2, InvalidIsNoSecret DEF VersionRecord, Live
    <3> QED
      BY <1>1, <2>2, <3>1 DEF VersionRecord
  <2>3. CASE n \notin Live(versions)
    BY <1>1, <2>1, <2>3 DEF Live
  <2> QED
    BY <2>2, <2>3
<1>3. IsHistory(versions)'
  BY <1>1, <1>2 DEF IsHistory
<1>4. HistoryOK' /\ RemovedStay
  BY <1>1, <1>2, <1>3, Parts DEF HistoryOK, Fits, NumbersNameOneSecret, RemovedStay
<1>5. Live(versions)' = {}
  BY <1>1, <1>2 DEF Live
<1>6. ASSUME NEW o \in Ops
      PROVE  OperationTyped(op[o])' /\ QueueKnows(o)' /\ StoreKnows(o)'
  <2>1. OperationTyped(op[o]) /\ QueueKnows(o) /\ StoreKnows(o)
    BY Parts
  <2>2. QueueKnows(o)'
    BY <1>1, <1>2, <1>5, <2>1 DEF QueueKnows, Fits, BringsNothingBack
  <2> QED
    BY <2>1, <2>2 DEF StoreKnows
<1>7. StoreOK' /\ TerminalKept /\ DOMAIN op' = Ops /\ (scenario \in Scenarios)'
  BY Parts DEF StoreOK, TerminalKept, Active
<1> QED
  BY <1>4, <1>6, <1>7, Parts DEF Safe, IInv, TypeOK, HistoryOK, StoreOK, Fits

\* Nobody is in the queue, or all who were have been forgotten.
LEMMA NobodyQueues ==
  ASSUME IInv, NEW o \in Ops, queue = Free
  PROVE  /\ op[o].pc \notin {"save", "saveInvalidated", "audit"}
         /\ op[o].kind = "rollback" => op[o].pc \notin {"read", "commit", "record"}
BY Parts, HistoryAssumption DEF QueueKnows

LEMMA BrowseKeeps ==
  ASSUME IInv, Browse, UNCHANGED <<cred, gone, lock, op, scenario>>
  PROVE  Safe
<1>1. queue = Free /\ SaveAndLeave(Reverted)
  BY DEF Browse
<1>2. HistoryOK' /\ RemovedStay
  <2>1. Fits(Reverted.versions, Reverted.watermark) /\ BringsNothingBack(Reverted.versions)
    BY Parts, ReadingFits DEF HistoryOK, Reverted
  <2> QED
    BY <1>1, <2>1, Parts, SavingFits
<1>3. ASSUME NEW o \in Ops
      PROVE  OperationTyped(op[o])' /\ QueueKnows(o)' /\ StoreKnows(o)'
  <2>1. OperationTyped(op[o]) /\ StoreKnows(o)
    BY Parts
  <2> QED
    BY <1>1, <2>1, NobodyQueues DEF StoreKnows, QueueKnows
<1>4. StoreOK' /\ TerminalKept /\ DOMAIN op' = Ops /\ (scenario \in Scenarios)'
  BY Parts DEF StoreOK, TerminalKept, Active
<1> QED
  BY <1>2, <1>3, <1>4, Parts DEF Safe, IInv, TypeOK, HistoryOK, StoreOK, Fits

LEMMA CrashKeeps ==
  ASSUME IInv, Crash, UNCHANGED scenario
  PROVE  Safe
<1>1. /\ lock' = Free /\ LeaveUnsaved /\ UNCHANGED <<cred, gone>>
      /\ op' = [o \in Ops |-> IF op[o].pc \in Ended \cup {"idle"} THEN op[o]
                              ELSE [op[o] EXCEPT !.pc = "failed"]]
  BY DEF Crash
<1>2. HistoryOK' /\ RemovedStay
  BY <1>1, Parts, LeavingUnsavedFits
<1>3. ASSUME NEW o \in Ops
      PROVE  /\ OperationTyped(op[o])' /\ QueueKnows(o)' /\ StoreKnows(o)'
             /\ op'[o].pc \in Ended \cup {"idle"}
  <2>1. OperationTyped(op[o])
    BY Parts
  <2>2. /\ DOMAIN op'[o] = Fields /\ op'[o].pc \in Ended \cup {"idle"}
        /\ op'[o].kind = op[o].kind /\ op'[o].mine = op[o].mine
    BY <1>1, <2>1 DEF OperationTyped, Fields, Ended
  <2>3. OperationTyped(op'[o])
    BY <2>1, <2>2 DEF OperationTyped, Stages, Ended, Invalidating
  <2>4. StoreKnows(o)'
    <3>1. op'[o].pc = "idle" => op'[o] = op[o]
      BY <1>1, <2>1 DEF OperationTyped, Fields
    <3>2. StoreKnows(o)
      BY Parts
    <3> QED
      BY <2>2, <3>1, <3>2 DEF StoreKnows, Ended, Active
  <2> QED
    BY <2>2, <2>3, <2>4 DEF QueueKnows, Ended
<1>4. StoreOK' /\ TerminalKept /\ DOMAIN op' = Ops /\ (scenario \in Scenarios)'
  BY <1>1, Parts DEF StoreOK, TerminalKept, Active
<1>5. \A o \in Ops : op'[o].pc # "record"
  BY <1>3 DEF Ended
<1> QED
  BY <1>1, <1>2, <1>3, <1>4, <1>5, Parts DEF Safe, IInv, TypeOK, HistoryOK, StoreOK, Fits

-----------------------------------------------------------------------------
(* The theorems.                                                            *)

LEMMA Initial == Init => IInv
<1> SUFFICES ASSUME Init PROVE IInv
  OBVIOUS
<1>1. /\ gone = FALSE /\ lock = Free /\ queue = Free /\ scenario \in Scenarios
      /\ cred \in {None, Initially(InitialSecret)}
      /\ op = [o \in Ops |-> [kind |-> None, pc |-> "idle", mine |-> None,
                              next |-> None, plan |-> None]]
  BY DEF Init, HistoryInit
<1>2. \A o \in Ops : /\ DOMAIN op[o] = Fields /\ op[o].pc = "idle" /\ op[o].kind = None
                     /\ op[o].mine = None
  BY <1>1 DEF Fields
<1>3. ASSUME NEW o \in Ops
      PROVE  OperationTyped(op[o]) /\ QueueKnows(o) /\ StoreKnows(o)
  BY <1>2, LifecycleAssumption
     DEF OperationTyped, QueueKnows, StoreKnows, AllKinds, Startable, Stages, Invalidating
<1>4. CASE cred = None
  <2>1. /\ versions = [n \in {} |-> None] /\ watermark = Cardinality(DOMAIN versions)
        /\ issued = {<<n, versions[n].secret>> : n \in DOMAIN versions}
    BY <1>4 DEF Init, HistoryInit
  <2>2. DOMAIN versions = {} /\ issued = {} /\ watermark = 0
    BY <2>1, FS_EmptySet
  <2>3. HistoryOK
    BY <1>1, <2>1, <2>2 DEF HistoryOK, Fits, IsHistory, NumbersNameOneSecret
  <2> QED
    BY <1>1, <1>3, <1>4, <2>3, Parts DEF StoreOK
<1>5. CASE cred # None
  <2>1. /\ versions = [n \in {1} |-> Record(InitialSecret)]
        /\ watermark = Cardinality(DOMAIN versions)
        /\ issued = {<<n, versions[n].secret>> : n \in DOMAIN versions}
    BY <1>5 DEF Init, HistoryInit
  <2>2. DOMAIN versions = {1} /\ watermark = 1
    BY <2>1, FS_Singleton
  <2>3. versions[1] \in VersionRecord /\ versions[1].secret = InitialSecret
    BY <2>1, OpsAreSecrets DEF VersionRecord, Record
  <2>4. issued = {<<1, InitialSecret>>}
    BY <2>1, <2>2, <2>3
  <2>5. IsHistory(versions)
    BY <2>1, <2>2, <2>3 DEF IsHistory
  <2>6. HistoryOK
    BY <1>1, <2>2, <2>3, <2>4, <2>5, OpsAreSecrets DEF HistoryOK, Fits, NumbersNameOneSecret
  <2>7. cred \in Credential
    BY <1>1, <1>5, OpsAreSecrets DEF Initially, Credential, Steps
  <2> QED
    BY <1>1, <1>3, <2>6, <2>7, Parts DEF StoreOK
<1> QED
  BY <1>4, <1>5

\* Every step of an operation is good, every other one safe.
LEMMA WorkKeeps ==
  ASSUME IInv, UNCHANGED scenario, NEW o \in Ops, Work(o)
  PROVE  Good(o)
BY CreateKeeps, CommitChangeKeeps, LoadHistoryKeeps, SavesKeep, UndosKeep, ReadAgainKeeps,
   CommitRollbackKeeps, CommitImportKeeps, SaveImportedVersionKeeps, RecordImportKeeps,
   RestoreCollectionKeeps, ContainmentKeeps, LoadForInvalidationKeeps, MarkHistoryKeeps
   DEF Work

\* What a step may never do.
Promised == /\ RemovedStay /\ TerminalKept
            /\ \A o \in Ops : lock = Free /\ lock' = o => cred = op[o].mine
            /\ \A o \in Ops : RollbackTakes(o)

LEMMA GoodIsPromised ==
  ASSUME IInv, NEW o \in Ops, Good(o)
  PROVE  IInv' /\ Promised
<1>1. ASSUME NEW p \in Ops, lock = Free, lock' = p PROVE cred = op[p].mine
  BY <1>1, HistoryAssumption DEF Good
<1>2. ASSUME NEW p \in Ops PROVE RollbackTakes(p)
  BY DEF Good, OnlyOf, RollbackTakes, At
<1> QED
  BY <1>1, <1>2 DEF Good, Promised

LEMMA Idle ==
  ASSUME IInv, UNCHANGED vars
  PROVE  IInv' /\ Promised
<1>1. UNCHANGED <<versions, watermark, queue, issued, cred, gone, lock, op, scenario>>
  BY DEF vars, historyVars
<1>2. \A o \in Ops : (QueueKnows(o) /\ StoreKnows(o))'
  BY <1>1, Parts DEF QueueKnows, StoreKnows, Fits, BringsNothingBack
<1>3. HistoryOK' /\ StoreOK' /\ DOMAIN op' = Ops /\ (scenario \in Scenarios)'
  BY <1>1, Parts DEF HistoryOK, Fits, NumbersNameOneSecret, StoreOK
<1>4. \A o \in Ops : OperationTyped(op[o])'
  BY <1>1, Parts
<1>5. IInv'
  BY <1>2, <1>3, <1>4 DEF IInv, TypeOK, HistoryOK, StoreOK, Fits
<1>6. Promised
  <2>1. \A o \in Ops : lock = Free => lock' # o
    BY <1>1, HistoryAssumption
  <2> QED
    BY <1>1, <2>1, Parts DEF Promised, RemovedStay, TerminalKept, StoreOK, Active, RollbackTakes, At
<1> QED
  BY <1>5, <1>6

LEMMA NextKeeps ==
  ASSUME IInv, [Next]_vars
  PROVE  IInv' /\ Promised
<1>1. CASE \E o \in Ops : Good(o)
  BY <1>1, GoodIsPromised
<1>2. CASE Safe
  <2>1. \A o \in Ops : lock = Free => lock' # o
    BY <1>2, HistoryAssumption DEF Safe
  <2> QED
    BY <1>2, <2>1 DEF Safe, Promised, RollbackTakes, At
<1>3. CASE Next
  <2> USE <1>3
  <2>1. UNCHANGED scenario
    BY DEF Next
  <2>2. ASSUME NEW o \in Ops, NEW k \in Kinds \ {"rollback"}, Start(o, k) PROVE Good(o)
    BY <2>1, <2>2, StartKeeps
  <2>3. ASSUME NEW o \in Ops, TakeTarget(o) PROVE Good(o)
    BY <2>1, <2>3, TakeTargetKeeps
  <2>4. ASSUME NEW o \in Ops, Work(o) PROVE Good(o)
    BY <2>1, <2>4, WorkKeeps
  <2>5. CASE Lapse /\ UNCHANGED <<cred, gone, lock, op>>
    BY <1>2, <2>1, <2>5, LapseKeeps
  <2>6. CASE Browse /\ UNCHANGED <<cred, gone, lock, op>>
    BY <1>2, <2>1, <2>6, BrowseKeeps
  <2>7. CASE Crash
    BY <1>2, <2>1, <2>7, CrashKeeps
  <2>8. CASE UNCHANGED <<historyVars, cred, gone, lock, op>>
    <3>1. UNCHANGED vars
      BY <2>1, <2>8 DEF vars
    <3> QED
      BY <3>1, Idle
  <2> QED
    BY <1>1, <2>2, <2>3, <2>4, <2>5, <2>6, <2>7, <2>8 DEF Next
<1>4. CASE UNCHANGED vars
  BY <1>4, Idle
<1> QED
  BY <1>3, <1>4

\* The inductive invariant.
THEOREM Invariance == Spec => []IInv
<1>1. IInv /\ [Next]_vars => IInv'
  BY NextKeeps
<1> QED
  BY Initial, <1>1, PTL DEF Spec

\* Type correctness of every variable.
THEOREM TypeCorrect == Spec => []TypeOK
<1>1. IInv => TypeOK
  BY DEF IInv
<1> QED
  BY Invariance, <1>1, PTL

\* A Secret-version number is one Secret's for good (#nextVersion, #saveState).
THEOREM NumbersAreUnique == Spec => []NumbersNameOneSecret
<1>1. IInv => NumbersNameOneSecret
  BY DEF IInv
<1> QED
  BY Invariance, <1>1, PTL

\* No writer of the history brings a removed Secret back.
THEOREM RemovalIsFinal == Spec => RemovedSecretsStayRemoved
<1>1. IInv /\ [Next]_vars =>
        [\A n \in DOMAIN versions \cap DOMAIN versions' :
           versions[n].secret = NoSecret => versions'[n].secret = NoSecret]_vars
  BY NextKeeps DEF Promised, RemovedStay
<1> QED
  BY Invariance, <1>1, PTL DEF Spec, RemovedSecretsStayRemoved

\* A revoked Credential stays revoked and a deleted one deleted.
THEOREM RevocationIsFinal == Spec => RevokedIsFinal
<1>1. IInv /\ [Next]_vars =>
        [/\ cred # None /\ cred.state = "revoked" => ~Active(cred')
         /\ gone => cred' = None]_vars
  BY NextKeeps DEF Promised, TerminalKept
<1> QED
  BY Invariance, <1>1, PTL DEF Spec, RevokedIsFinal

\* An import overwrites the very Credential that was previewed.
THEOREM ImportsAreReviewed == Spec => ImportReplacesPreviewed
<1>1. IInv /\ [Next]_vars =>
        [\A o \in Ops : lock = Free /\ lock' = o => cred = op[o].mine]_vars
  BY NextKeeps DEF Promised
<1> QED
  BY Invariance, <1>1, PTL DEF Spec, ImportReplacesPreviewed

\* A rollback reinstates what the history holds, on an active Credential.
THEOREM RollbacksAreRetained == Spec => RollbackTakesRetainedVersion
<1>1. IInv /\ [Next]_vars =>
        [\A o \in Ops :
           At(o, {"rollback"}, "commit") /\ op[o].pc' = "record" =>
             /\ Active(cred)
             /\ versions[op[o].next.number].secret = op[o].next.secret]_vars
  BY NextKeeps DEF Promised, RollbackTakes
<1> QED
  BY Invariance, <1>1, PTL DEF Spec, RollbackTakesRetainedVersion

-----------------------------------------------------------------------------
(* The Secret of the Credential has a version.                              *)

Running == {o \in Ops : op[o].pc \notin Ended \cup {"idle"}}

\* No more operations at a time than versions are kept (128 in the code): with
\* more, those that record late push the current Secret's version out.
FewAtOnce == Cardinality(Running) <= MaxRetained

\* They have changed the Secret and not recorded theirs.
Unrecorded == {o \in Ops : op[o].pc \in {"record", "save"}}

Above(h, n) == Cardinality({j \in DOMAIN h : j > n})

\* A history that has one version more than what is stored, that of s, or none
\* more, and lacks only what the bound takes.
Adds(h, s) ==
  \E m \in DOMAIN h :
    /\ h[m].secret = s /\ \A k \in DOMAIN versions : k < m
    /\ DOMAIN h \subseteq DOMAIN versions \cup {m}
    /\ \A n \in DOMAIN versions : Above(versions, n) + 1 < MaxRetained => n \in DOMAIN h
Trims(h) ==
  /\ DOMAIN h \subseteq DOMAIN versions
  /\ \A n \in DOMAIN versions : Above(versions, n) < MaxRetained => n \in DOMAIN h

\* What is about to be saved, or has been and is not listed yet.
QueueSaves(o) ==
  LET q == op[o] IN
  /\ q.pc = "save" => Adds(q.plan.versions, q.next.secret)
  /\ q.pc = "saveInvalidated" => Trims(q.plan.versions)
  /\ q.pc = "audit" =>
       \E n \in DOMAIN versions : /\ versions[n].secret = q.next.secret
                                  /\ \A k \in DOMAIN versions : k <= n

\* What an operation has read is older than what is stored, or is that.
ReadOnce(o) ==
  LET c == op[o].mine IN
  /\ cred = None /\ ~gone => c = None
  /\ cred # None /\ c # None => c.version \in 0 .. cred.version - 1 \/ c = cred

\* The Secret is about to be listed, or is under a number that those who are
\* still to record cannot push out.
Listing(o) == op[o].pc \in {"record", "save", "audit"} /\ op[o].next.secret = cred.secret
ListedAs(n) == /\ n \in DOMAIN versions /\ <<n, cred.secret>> \in issued
               /\ Above(versions, n) + Cardinality(Unrecorded) < MaxRetained

Undisturbed(o) == QueueSaves(o) /\ ReadOnce(o) /\ op[o].pc \notin {"undo", "restore"}
RecordingInv ==
  Faults = {} =>
    /\ IsFiniteSet(Running)
    /\ \A o \in Ops : Undisturbed(o)
    /\ Active(cred) => (\E o \in Ops : Listing(o)) \/ (\E n \in DOMAIN versions : ListedAs(n))

LEMMA AboveIs ==
  ASSUME NEW h, NEW mark, Fits(h, mark), NEW n \in Nat
  PROVE  IsFiniteSet({j \in DOMAIN h : j > n}) /\ Above(h, n) \in Nat
<1>1. {j \in DOMAIN h : j > n} \subseteq 0 .. mark /\ mark \in Nat
  BY DEF Fits, IsHistory
<1>2. IsFiniteSet(0 .. mark)
  BY <1>1, FS_Interval
<1>3. IsFiniteSet({j \in DOMAIN h : j > n})
  BY <1>1, <1>2, FS_Subset
<1> QED
  BY <1>3, FS_CardinalityType DEF Above

LEMMA NothingAbove ==
  ASSUME NEW h, NEW n, \A j \in DOMAIN h : ~(j > n)
  PROVE  Above(h, n) = 0
<1>1. {j \in DOMAIN h : j > n} = {}
  OBVIOUS
<1> QED
  BY <1>1, FS_EmptySet DEF Above

LEMMA ReadingTrims ==
  ASSUME Fits(versions, watermark)
  PROVE  Trims(Retained(versions)) /\ Trims(AllInvalidated.versions)
BY DEF Trims, Retained, AllInvalidated, Bounded, Pruned, Above

\* Of what a history leaves out nothing counts, and what it adds counts once.
LEMMA AboveShrinks ==
  ASSUME NEW h, NEW mark, Fits(h, mark), NEW g, DOMAIN g \subseteq DOMAIN h, NEW n \in Nat
  PROVE  Above(g, n) \in Nat /\ Above(g, n) <= Above(h, n)
<1>1. {j \in DOMAIN g : j > n} \subseteq {j \in DOMAIN h : j > n}
  OBVIOUS
<1>2. IsFiniteSet({j \in DOMAIN h : j > n})
  BY AboveIs
<1>3. /\ IsFiniteSet({j \in DOMAIN g : j > n})
      /\ Cardinality({j \in DOMAIN g : j > n}) <= Cardinality({j \in DOMAIN h : j > n})
  BY <1>1, <1>2, FS_Subset
<1> QED
  BY <1>3, FS_CardinalityType DEF Above

LEMMA AboveGrows ==
  ASSUME NEW h, NEW mark, Fits(h, mark), NEW m, NEW g, DOMAIN g \subseteq DOMAIN h \cup {m},
         NEW n \in Nat
  PROVE  Above(g, n) \in Nat /\ Above(g, n) <= Above(h, n) + 1
<1> DEFINE S == {j \in DOMAIN h : j > n}
<1>1. {j \in DOMAIN g : j > n} \subseteq S \cup {m}
  OBVIOUS
<1>2. IsFiniteSet(S) /\ Cardinality(S) \in Nat /\ Cardinality(S) = Above(h, n)
  BY AboveIs DEF Above
<1> HIDE DEF S
<1>3. /\ IsFiniteSet(S \cup {m})
      /\ Cardinality(S \cup {m}) = IF m \in S THEN Cardinality(S) ELSE Cardinality(S) + 1
  BY <1>2, FS_AddElement
<1>4. /\ IsFiniteSet({j \in DOMAIN g : j > n})
      /\ Cardinality({j \in DOMAIN g : j > n}) <= Cardinality(S \cup {m})
  BY <1>1, <1>3, FS_Subset
<1>5. Cardinality({j \in DOMAIN g : j > n}) \in Nat
  BY <1>4, FS_CardinalityType
<1> QED
  BY <1>2, <1>3, <1>4, <1>5 DEF Above

LEMMA RecordingAdds ==
  ASSUME Fits(versions, watermark), NEW s
  PROVE  Adds(WithVersion(s).versions, s)
<1> DEFINE old == Retained(versions)
           m == watermark + 1
           f == [n \in DOMAIN old \cup {m} |-> IF n = m THEN Record(s) ELSE old[n]]
           h == WithVersion(s).versions
<1>1. /\ DOMAIN versions \subseteq Nat /\ watermark \in Nat
      /\ \A n \in DOMAIN versions : n <= watermark
  BY DEF Fits, IsHistory
<1>2. h = Bounded(f)
  BY NextNumberIs DEF WithVersion
<1>3. /\ DOMAIN old \subseteq DOMAIN versions
      /\ \A n \in DOMAIN versions : Above(versions, n) < MaxRetained => n \in DOMAIN old
  BY ReadingTrims DEF Trims
<1>4. DOMAIN f = DOMAIN old \cup {m} /\ f[m] = Record(s)
  OBVIOUS
<1>5. \A n \in DOMAIN f : n \in DOMAIN h <=> Above(f, n) < MaxRetained
  BY <1>2 DEF Bounded, Above
<1>6. DOMAIN h \subseteq DOMAIN f /\ \A n \in DOMAIN h : h[n] = f[n]
  BY <1>2 DEF Bounded
<1> HIDE DEF old, f, h
<1>7. m \in DOMAIN h
  <2>1. \A j \in DOMAIN f : ~(j > m)
    BY <1>1, <1>3, <1>4
  <2>2. Above(f, m) = 0
    BY <2>1, NothingAbove
  <2> QED
    BY <1>4, <1>5, <2>2, HistoryAssumption
<1>8. ASSUME NEW n \in DOMAIN versions, Above(versions, n) + 1 < MaxRetained PROVE n \in DOMAIN h
  <2>1. n \in Nat /\ Above(versions, n) \in Nat
    BY <1>1, AboveIs
  <2>2. n \in DOMAIN old
    BY <1>3, <1>8, <2>1, HistoryAssumption
  <2>3. Above(f, n) \in Nat /\ Above(f, n) <= Above(versions, n) + 1
    <3>1. DOMAIN f \subseteq DOMAIN versions \cup {m}
      BY <1>3, <1>4
    <3> QED
      BY <2>1, <3>1, AboveGrows
  <2> QED
    BY <1>4, <1>5, <1>8, <2>1, <2>2, <2>3, HistoryAssumption
<1>9. h[m].secret = s
  BY <1>4, <1>6, <1>7 DEF Record
<1>10. \A k \in DOMAIN versions : k < m
  BY <1>1
<1>11. DOMAIN h \subseteq DOMAIN versions \cup {m}
  BY <1>3, <1>4, <1>6
<1> QED
  BY <1>7, <1>8, <1>9, <1>10, <1>11 DEF Adds, h

-----------------------------------------------------------------------------
(* What a step that meets no fault does to the store and to the history.    *)

StoreEffect(o) ==
  \/ /\ UNCHANGED <<cred, gone>>
     /\ op'[o].mine \in {op[o].mine, cred} /\ op'[o].pc # "record"
  \/ /\ cred # None /\ op[o].mine # None /\ op[o].mine.version = cred.version
     /\ cred' \in Credential /\ cred'.version = cred.version + 1 /\ gone' = gone
     /\ op'[o].mine \in {op[o].mine, cred'}
     /\ IF op'[o].pc = "record" THEN op'[o].next.secret = cred'.secret
                                ELSE cred'.secret = op[o].mine.secret
  \/ /\ cred = None /\ ~gone /\ cred' \in Credential /\ gone' = gone
     /\ op'[o].mine = op[o].mine
     /\ op'[o].pc = "record" /\ op'[o].next.secret = cred'.secret
  \/ cred' = None /\ gone' = TRUE /\ op'[o].mine = op[o].mine /\ op'[o].pc # "record"

Trimming(o) ==
  /\ op[o].pc \notin {"save", "audit"} /\ op'[o].pc # "audit"
  /\ op[o].pc = "record" => op'[o].pc = "save" /\ op'[o].next = op[o].next
  /\ op'[o].pc = "save" => op[o].pc = "record"
  /\ Trims(versions') /\ issued \subseteq issued'
Recording(o) ==
  /\ op[o].pc = "save" /\ op'[o].next = op[o].next /\ versions' = op[o].plan.versions
  /\ \/ op'[o].pc = "audit" /\ issued' = issued
     \/ op'[o].pc = "ok" /\ Leave(op[o].plan.versions)
ListingImported(o) ==
  op[o].pc = "audit" /\ op'[o].pc = "ok" /\ versions' = versions /\ Leave(versions)

HistoryEffect(o) ==
  /\ op'[o].pc \notin {"undo", "restore"}
  /\ queue \in {Free, o} \/ UNCHANGED historyVars
  /\ Trimming(o) \/ Recording(o) \/ ListingImported(o)
  /\ op'[o].pc = "save" =>
       Adds(op'[o].plan.versions, op'[o].next.secret) /\ versions' = versions
  /\ op'[o].pc = "saveInvalidated" => Trims(op'[o].plan.versions) /\ versions' = versions

Effect(o) == OnlyOf(o) /\ StoreEffect(o) /\ HistoryEffect(o)

LEMMA UnrecordedIs ==
  ASSUME IsFiniteSet(Running), FewAtOnce
  PROVE  /\ Unrecorded \subseteq Running
         /\ IsFiniteSet(Unrecorded) /\ Cardinality(Unrecorded) \in Nat
         /\ \A o \in Running \ Unrecorded : Cardinality(Unrecorded) < MaxRetained
         /\ \A o \in Unrecorded : /\ Cardinality(Unrecorded \ {o}) = Cardinality(Unrecorded) - 1
                                  /\ Cardinality(Unrecorded \ {o}) \in Nat
                                  /\ Cardinality(Unrecorded \ {o}) < MaxRetained
<1>1. Unrecorded \subseteq Running
  BY DEF Unrecorded, Running, Ended
<1>2. /\ IsFiniteSet(Unrecorded) /\ Cardinality(Unrecorded) \in Nat
      /\ Cardinality(Unrecorded) <= Cardinality(Running)
      /\ Cardinality(Running) \in Nat
  BY <1>1, FS_Subset, FS_CardinalityType
<1>3. MaxRetained \in Nat /\ Cardinality(Running) <= MaxRetained
  BY HistoryAssumption DEF FewAtOnce
<1>4. ASSUME NEW o \in Running \ Unrecorded PROVE Cardinality(Unrecorded) < MaxRetained
  <2>1. Unrecorded \subseteq Running \ {o}
    BY <1>1, <1>4
  <2>2. IsFiniteSet(Running \ {o}) /\ Cardinality(Running \ {o}) = Cardinality(Running) - 1
    BY <1>4, FS_RemoveElement
  <2>3. Cardinality(Unrecorded) <= Cardinality(Running \ {o})
    BY <2>1, <2>2, FS_Subset
  <2> QED
    BY <1>2, <1>3, <2>2, <2>3
<1>5. ASSUME NEW o \in Unrecorded
      PROVE  /\ Cardinality(Unrecorded \ {o}) = Cardinality(Unrecorded) - 1
             /\ Cardinality(Unrecorded \ {o}) \in Nat
             /\ Cardinality(Unrecorded \ {o}) < MaxRetained
  <2>1. /\ IsFiniteSet(Unrecorded \ {o})
        /\ Cardinality(Unrecorded \ {o}) = Cardinality(Unrecorded) - 1
    BY <1>2, FS_RemoveElement
  <2>2. Cardinality(Unrecorded \ {o}) \in Nat
    BY <2>1, FS_CardinalityType
  <2> QED
    BY <1>2, <1>3, <2>1, <2>2
<1> QED
  BY <1>1, <1>2, <1>4, <1>5

\* A number that is listed and near enough to the top stays both.
LEMMA ListedStays ==
  ASSUME IInv, NEW n, ListedAs(n), Trims(versions'), issued \subseteq issued',
         cred'.secret = cred.secret, Unrecorded' = Unrecorded,
         Cardinality(Unrecorded) \in Nat
  PROVE  ListedAs(n)'
<1>1. Fits(versions, watermark) /\ n \in DOMAIN versions /\ n \in Nat
  BY DEF IInv, ListedAs, Fits, IsHistory
<1>2. Above(versions, n) \in Nat
  BY <1>1, AboveIs
<1>3. n \in DOMAIN versions'
  BY <1>1, <1>2, HistoryAssumption DEF ListedAs, Trims
<1>4. Above(versions', n) \in Nat /\ Above(versions', n) <= Above(versions, n)
  BY <1>1, AboveShrinks DEF Trims
<1>5. Above(versions', n) + Cardinality(Unrecorded') < MaxRetained
  BY <1>2, <1>4, HistoryAssumption DEF ListedAs
<1> QED
  BY <1>3, <1>5 DEF ListedAs, Above

\* When another one records, one fewer is still to.
LEMMA ListedStaysBelow ==
  ASSUME IInv, IsFiniteSet(Running), FewAtOnce,
         NEW o \in Unrecorded, NEW s, Adds(versions', s), NEW n, ListedAs(n),
         issued \subseteq issued', cred'.secret = cred.secret, Unrecorded' = Unrecorded \ {o}
  PROVE  ListedAs(n)'
<1>1. Fits(versions, watermark) /\ n \in DOMAIN versions /\ n \in Nat
  BY DEF IInv, ListedAs, Fits, IsHistory
<1>2. Above(versions, n) \in Nat
  BY <1>1, AboveIs
<1>3. /\ Cardinality(Unrecorded \ {o}) = Cardinality(Unrecorded) - 1
      /\ Cardinality(Unrecorded \ {o}) \in Nat /\ Cardinality(Unrecorded) \in Nat
  BY UnrecordedIs
<1>4. PICK m \in DOMAIN versions' : DOMAIN versions' \subseteq DOMAIN versions \cup {m}
  BY DEF Adds
<1>5. n \in DOMAIN versions'
  BY <1>1, <1>2, <1>3, HistoryAssumption DEF ListedAs, Adds
<1>6. Above(versions', n) \in Nat /\ Above(versions', n) <= Above(versions, n) + 1
  BY <1>1, <1>4, AboveGrows
<1>7. Above(versions', n) + Cardinality(Unrecorded') < MaxRetained
  BY <1>2, <1>3, <1>6, HistoryAssumption DEF ListedAs
<1> QED
  BY <1>5, <1>7 DEF ListedAs, Above

\* The newest of the history is listed when the queue is released.
LEMMA NewestIsListed ==
  ASSUME NEW n \in DOMAIN versions', versions'[n].secret = cred'.secret,
         cred'.secret \in Secrets, \A k \in DOMAIN versions' : k <= n,
         DOMAIN versions' \subseteq Nat, NEW h, h = versions', Leave(h),
         Cardinality(Unrecorded') < MaxRetained, Cardinality(Unrecorded') \in Nat
  PROVE  ListedAs(n)'
<1>1. <<n, cred'.secret>> \in issued'
  BY HistoryAssumption DEF Leave
<1>2. Above(versions', n) = 0
  BY NothingAbove
<1>3. Above(versions', n) + Cardinality(Unrecorded') < MaxRetained
  BY <1>2
<1> QED
  BY <1>1, <1>3 DEF ListedAs, Above

LEMMA EffectOnReadings ==
  ASSUME IInv, NEW o \in Ops, \A p \in Ops : ReadOnce(p), OnlyOf(o), StoreEffect(o)
  PROVE  \A p \in Ops : ReadOnce(p)'
<1> SUFFICES ASSUME NEW p \in Ops PROVE ReadOnce(p)'
  OBVIOUS
<1>1. /\ ReadOnce(p) /\ ReadOnce(o) /\ (p # o => op'[p] = op[p])
      /\ cred \in Credential \cup {None}
      /\ \A c \in Credential : c.version \in Nat /\ c # None
  BY LifecycleAssumption DEF OnlyOf, IInv, TypeOK, Credential
<1>2. CASE /\ UNCHANGED <<cred, gone>> /\ op'[o].mine \in {op[o].mine, cred}
  BY <1>1, <1>2 DEF ReadOnce
<1>3. CASE /\ cred # None /\ op[o].mine # None /\ op[o].mine.version = cred.version
           /\ cred' \in Credential /\ cred'.version = cred.version + 1 /\ gone' = gone
           /\ op'[o].mine \in {op[o].mine, cred'}
  <2>1. op[p].mine # None => op[p].mine.version \in 0 .. cred'.version - 1
    BY <1>1, <1>3, SMT DEF ReadOnce
  <2> QED
    BY <1>1, <1>3, <2>1 DEF ReadOnce
<1>4. CASE cred = None /\ ~gone /\ cred' \in Credential /\ gone' = gone /\ op'[o].mine = op[o].mine
  BY <1>1, <1>4 DEF ReadOnce
<1>5. CASE cred' = None /\ gone' = TRUE
  BY <1>5 DEF ReadOnce
<1> QED
  BY <1>2, <1>3, <1>4, <1>5 DEF StoreEffect

LEMMA EffectOnQueue ==
  ASSUME IInv, NEW o \in Ops, \A p \in Ops : QueueSaves(p), OnlyOf(o), HistoryEffect(o)
  PROVE  \A p \in Ops : QueueSaves(p)'
<1>1. ASSUME NEW p \in Ops, p # o PROVE QueueSaves(p)'
  <2>1. op'[p] = op[p] /\ QueueSaves(p)
    BY <1>1 DEF OnlyOf
  <2>2. CASE op[p].pc \notin {"save", "saveInvalidated", "audit"}
    BY <2>1, <2>2 DEF QueueSaves
  <2>3. CASE op[p].pc \in {"save", "saveInvalidated", "audit"}
    <3>1. queue = p /\ p # Free
      BY <2>3, QueueIs, HistoryAssumption
    <3>2. versions' = versions
      BY <1>1, <3>1 DEF HistoryEffect, historyVars
    <3> QED
      BY <2>1, <3>2 DEF QueueSaves, Adds, Trims, Above
  <2> QED
    BY <2>2, <2>3
<1>2. QueueSaves(o)'
  <2>1. op'[o].pc = "save" => Adds(op[o].plan.versions, op[o].next.secret)'
    BY DEF HistoryEffect, Adds, Above
  <2>2. op'[o].pc = "saveInvalidated" => Trims(op[o].plan.versions)'
    BY DEF HistoryEffect, Trims, Above
  <2>3. ASSUME op'[o].pc = "audit"
        PROVE  \E n \in DOMAIN versions' : /\ versions'[n].secret = op'[o].next.secret
                                           /\ \A k \in DOMAIN versions' : k <= n
    <3>1. Recording(o)
      BY <2>3 DEF HistoryEffect, Trimming, ListingImported
    <3>2. Adds(versions', op'[o].next.secret)
      BY <3>1 DEF Recording, QueueSaves
    <3>3. PICK m \in DOMAIN versions' :
            /\ versions'[m].secret = op'[o].next.secret
            /\ \A k \in DOMAIN versions : k < m
            /\ DOMAIN versions' \subseteq DOMAIN versions \cup {m}
      BY <3>2 DEF Adds
    <3>4. DOMAIN versions' \subseteq Nat /\ DOMAIN versions \subseteq Nat
      BY <3>1, QueueIs DEF Recording, Fits, IsHistory, HistoryOK
    <3> QED
      BY <3>3, <3>4
  <2> QED
    BY <2>1, <2>2, <2>3 DEF QueueSaves
<1> QED
  BY <1>1, <1>2

\* Either the step has changed the Secret and is about to record it, or the
\* Secret is what it was.
LEMMA EffectOnSecret ==
  ASSUME IInv, IInv', TerminalKept, NEW o \in Ops, ReadOnce(o), StoreEffect(o), Active(cred')
  PROVE  \/ op'[o].pc = "record" /\ op'[o].next.secret = cred'.secret
         \/ op'[o].pc # "record" /\ Active(cred) /\ cred'.secret = cred.secret
<1>1. cred \in Credential \cup {None} /\ \A c \in Credential : c.state \in {"active", "revoked"}
  BY DEF IInv, TypeOK, Credential
<1>2. cred # None => Active(cred)
  BY <1>1 DEF TerminalKept, Active
<1>3. ASSUME cred # None, op[o].mine # None, op[o].mine.version = cred.version
      PROVE  op[o].mine = cred
  <2>1. cred.version \in Nat
    BY <1>1, <1>3 DEF Credential
  <2> QED
    BY <1>3, <2>1 DEF ReadOnce
<1> QED
  BY <1>2, <1>3 DEF StoreEffect, Active

LEMMA EffectIsListed ==
  ASSUME IInv, IInv', FewAtOnce, IsFiniteSet(Running), NEW o \in Ops, QueueSaves(o),
         OnlyOf(o), HistoryEffect(o), op'[o].pc # "record", cred'.secret = cred.secret,
         cred'.secret \in Secrets,
         (\E p \in Ops : Listing(p)) \/ (\E n \in DOMAIN versions : ListedAs(n))
  PROVE  (\E p \in Ops : Listing(p)') \/ (\E n \in DOMAIN versions' : ListedAs(n)')
<1>1. ASSUME NEW p \in Ops, p # o
      PROVE  /\ Listing(p) => Listing(p)'
             /\ p \in Unrecorded' <=> p \in Unrecorded
  BY <1>1 DEF OnlyOf, Listing, Unrecorded
<1>2. Cardinality(Unrecorded) \in Nat /\ DOMAIN versions' \subseteq Nat
  BY UnrecordedIs DEF IInv, TypeOK, IsHistory
<1>3. CASE Trimming(o)
  <2>1. Unrecorded' = Unrecorded
    BY <1>1, <1>3 DEF Trimming, Unrecorded
  <2>2. Listing(o) => Listing(o)'
    BY <1>3 DEF Trimming, Listing
  <2>3. \A n \in DOMAIN versions : ListedAs(n) => ListedAs(n)'
    BY <1>2, <1>3, <2>1, ListedStays DEF Trimming
  <2> QED
    BY <1>1, <2>2, <2>3 DEF ListedAs
<1>4. CASE Recording(o)
  <2>1. o \in Unrecorded /\ Unrecorded' = Unrecorded \ {o}
    BY <1>1, <1>4 DEF Recording, Unrecorded
  <2>2. Cardinality(Unrecorded') \in Nat /\ Cardinality(Unrecorded') < MaxRetained
    BY <2>1, UnrecordedIs
  <2>3. Adds(versions', op[o].next.secret) /\ issued \subseteq issued'
    BY <1>4 DEF Recording, QueueSaves, Leave
  <2>4. \A n \in DOMAIN versions : ListedAs(n) => ListedAs(n)'
    BY <2>1, <2>3, ListedStaysBelow
  <2>5. ASSUME Listing(o), op'[o].pc = "ok" PROVE \E n \in DOMAIN versions' : ListedAs(n)'
    <3>1. PICK m \in DOMAIN versions' :
            /\ versions'[m].secret = op[o].next.secret
            /\ \A k \in DOMAIN versions : k < m
            /\ DOMAIN versions' \subseteq DOMAIN versions \cup {m}
      BY <2>3 DEF Adds
    <3>2. DOMAIN versions \subseteq Nat
      BY DEF IInv, TypeOK, IsHistory
    <3>3. \A k \in DOMAIN versions' : k <= m
      BY <1>2, <3>1, <3>2
    <3>4. Leave(op[o].plan.versions) /\ op[o].plan.versions = versions'
      BY <1>4, <2>5 DEF Recording
    <3>5. versions'[m].secret = cred'.secret
      BY <2>5, <3>1 DEF Listing
    <3>6. ListedAs(m)'
      BY <1>2, <2>2, <3>3, <3>4, <3>5, NewestIsListed
    <3> QED
      BY <3>6
  <2>6. Listing(o) /\ op'[o].pc = "audit" => Listing(o)'
    BY <1>4 DEF Recording, Listing
  <2> QED
    BY <1>1, <1>4, <2>4, <2>5, <2>6 DEF ListedAs, Recording
<1>5. CASE ListingImported(o)
  <2>1. Unrecorded' = Unrecorded
    BY <1>1, <1>5 DEF ListingImported, Unrecorded
  <2>2. o \in Running \ Unrecorded
    BY <1>5 DEF ListingImported, Running, Unrecorded, Ended
  <2>3. Cardinality(Unrecorded') \in Nat /\ Cardinality(Unrecorded') < MaxRetained
    BY <1>2, <2>1, <2>2, UnrecordedIs
  <2>4. \A n \in DOMAIN versions : ListedAs(n) => ListedAs(n)'
    <3>1. Trims(versions') /\ issued \subseteq issued'
      BY <1>5 DEF ListingImported, Trims, Leave
    <3> QED
      BY <1>2, <2>1, <3>1, ListedStays
  <2>5. ASSUME Listing(o) PROVE \E n \in DOMAIN versions' : ListedAs(n)'
    <3>1. PICK n \in DOMAIN versions : /\ versions[n].secret = op[o].next.secret
                                       /\ \A k \in DOMAIN versions : k <= n
      BY <1>5 DEF ListingImported, QueueSaves
    <3>2. versions' = versions /\ Leave(versions) /\ versions'[n].secret = cred'.secret
      BY <1>5, <2>5, <3>1 DEF ListingImported, Listing
    <3>3. ListedAs(n)'
      BY <1>2, <2>3, <3>1, <3>2, NewestIsListed
    <3> QED
      BY <3>2, <3>3
  <2> QED
    BY <1>1, <2>4, <2>5 DEF ListedAs
<1> QED
  BY <1>3, <1>4, <1>5 DEF HistoryEffect

LEMMA EffectKeeps ==
  ASSUME IInv, IInv', TerminalKept, UNCHANGED scenario, Faults = {}, RecordingInv, FewAtOnce,
         NEW o \in Ops, Effect(o)
  PROVE  RecordingInv'
<1>1. /\ OnlyOf(o) /\ StoreEffect(o) /\ HistoryEffect(o)
      /\ IsFiniteSet(Running) /\ \A p \in Ops : Undisturbed(p)
  BY DEF Effect, RecordingInv
<1>2. IsFiniteSet(Running')
  <2>1. Running' \subseteq Running \cup {o}
    BY <1>1 DEF OnlyOf, Running
  <2> QED
    BY <1>1, <2>1, FS_AddElement, FS_Subset
<1>3. \A p \in Ops : Undisturbed(p)'
  <2>1. \A p \in Ops : ReadOnce(p)' /\ QueueSaves(p)'
    BY <1>1, EffectOnReadings, EffectOnQueue DEF Undisturbed
  <2>2. \A p \in Ops : op'[p].pc \notin {"undo", "restore"}
    BY <1>1 DEF Undisturbed, HistoryEffect, OnlyOf
  <2> QED
    BY <2>1, <2>2 DEF Undisturbed
<1>4. ASSUME Active(cred')
      PROVE  (\E p \in Ops : Listing(p)') \/ (\E n \in DOMAIN versions' : ListedAs(n)')
  <2>1. CASE op'[o].pc = "record" /\ op'[o].next.secret = cred'.secret
    BY <2>1 DEF Listing
  <2>2. CASE op'[o].pc # "record" /\ Active(cred) /\ cred'.secret = cred.secret
    <3>1. (\E p \in Ops : Listing(p)) \/ (\E n \in DOMAIN versions : ListedAs(n))
      BY <2>2 DEF RecordingInv
    <3>2. cred'.secret \in Secrets
      BY <1>4 DEF IInv, TypeOK, Active, Credential
    <3> QED
      BY <1>1, <2>2, <3>1, <3>2, EffectIsListed DEF Undisturbed
  <2> QED
    BY <1>1, <1>4, <2>1, <2>2, EffectOnSecret DEF Undisturbed
<1> QED
  BY <1>2, <1>3, <1>4 DEF RecordingInv, Undisturbed, Active

-----------------------------------------------------------------------------
(* Every step that meets no fault has such effects.                         *)

LEMMA HistoryUntouched ==
  ASSUME NEW o \in Ops, op[o].pc \notin {"record", "save", "audit"}, UNCHANGED historyVars,
         op'[o].pc \notin {"save", "audit", "saveInvalidated", "undo", "restore"}
  PROVE  HistoryEffect(o)
BY DEF HistoryEffect, Trimming, Trims, historyVars

\* The next version of a Credential, with its Secret.
Marks(c, new) == new \in Credential /\ new.version = c.version + 1 /\ new.secret = c.secret

LEMMA BumpsRaise ==
  ASSUME NEW c \in Credential
  PROVE  /\ c.version \in Nat /\ c # None
         /\ Marks(c, Bump(c)) /\ Marks(c, Contained(c))
         /\ Marks(c, [Bump(c) EXCEPT !.provider = "complete"])
         /\ Marks(c, [Bump(c) EXCEPT !.provider = "failed"])
         /\ Marks(c, [Bump(c) EXCEPT !.history = "complete"])
         /\ Marks(c, [Bump(c) EXCEPT !.history = "failed"])
<1>1. c.version \in Nat /\ c.secret \in Secrets /\ c # None
  BY LifecycleAssumption DEF Credential
<1>2. Marks(c, Bump(c))
  BY DEF Marks, Credential, Bump
<1>3. Bump(c) \in Credential
  BY <1>2 DEF Marks
<1>4. Marks(c, Contained(c))
  BY <1>2 DEF Marks, Contained, Credential, Steps
<1>5. ASSUME NEW s \in {"complete", "failed"}
      PROVE  Marks(c, [Bump(c) EXCEPT !.provider = s]) /\ Marks(c, [Bump(c) EXCEPT !.history = s])
  BY <1>2, <1>5 DEF Marks, Credential, Steps
<1> QED
  BY <1>1, <1>2, <1>4, <1>5

LEMMA SecretsReplaced ==
  ASSUME NEW c \in Credential, NEW s \in Secrets
  PROVE  /\ [Bump(c) EXCEPT !.secret = s] \in Credential
         /\ [Bump(c) EXCEPT !.secret = s].version = c.version + 1
         /\ [Bump(c) EXCEPT !.secret = s].secret = s
         /\ [Bump(c) EXCEPT !.secret = s, !.state = "active"] \in Credential
         /\ [Bump(c) EXCEPT !.secret = s, !.state = "active"].version = c.version + 1
<1>1. Bump(c) \in Credential /\ Bump(c).version = c.version + 1
  BY DEF Credential, Bump
<1> QED
  BY <1>1 DEF Credential

\* Without a fault a conditional save takes place or is refused.
LEMMA CommitWithoutFault ==
  ASSUME Faults = {}, NEW o \in Ops, NEW old, NEW new, NEW changes, NEW lostPc,
         CommitOr(o, old, new, changes, lostPc)
  PROVE  \/ /\ Move(o, changes) /\ cred # None /\ cred.version = old.version
            /\ cred' = new /\ gone' = gone
         \/ Goto(o, lostPc) /\ UNCHANGED <<cred, gone>>
BY DEF CommitOr, WriteOr, Lost, Replaceable

MarkStages == {"provider", "failed", "invalidate", "grants", "eraseProvider", "kept"}
LEMMA MarkEffect ==
  ASSUME IInv, Faults = {}, NEW o \in Ops, op[o].mine \in Credential,
         op[o].pc \notin {"record", "save", "audit"},
         NEW new, Marks(op[o].mine, new),
         NEW pc \in MarkStages, NEW lostPc \in MarkStages, MarkOr(o, new, pc, lostPc)
  PROVE  Effect(o)
<1>1. UNCHANGED historyVars /\ CommitOr(o, op[o].mine, new, [mine |-> new, pc |-> pc], lostPc)
  BY DEF MarkOr
<1>2. op[o].mine # None
  BY BumpsRaise
<1>3. CASE /\ Move(o, [mine |-> new, pc |-> pc]) /\ cred # None /\ cred.version = op[o].mine.version
           /\ cred' = new /\ gone' = gone
  <2>1. OnlyOf(o) /\ op'[o].pc = pc /\ op'[o].mine = new
    BY <1>3, MoveIs
  <2>2. StoreEffect(o)
    BY <1>2, <1>3, <2>1 DEF StoreEffect, MarkStages, Marks
  <2> QED
    BY <1>1, <2>1, <2>2, HistoryUntouched DEF Effect, MarkStages
<1>4. CASE Goto(o, lostPc) /\ UNCHANGED <<cred, gone>>
  <2>1. OnlyOf(o) /\ op'[o].pc = lostPc /\ op'[o].mine = op[o].mine
    BY <1>4, GotoIs
  <2>2. StoreEffect(o)
    BY <1>4, <2>1 DEF StoreEffect, MarkStages
  <2> QED
    BY <1>1, <2>1, <2>2, HistoryUntouched DEF Effect, MarkStages
<1> QED
  BY <1>1, <1>3, <1>4, CommitWithoutFault

LEMMA ContainmentEffect ==
  ASSUME IInv, Faults = {}, NEW o \in Ops,
         \/ Contain(o) \/ RevokeAtProvider(o)
         \/ EraseContain(o) \/ EraseAtProvider(o) \/ CleanGrants(o)
  PROVE  Effect(o)
<1> DEFINE c == op[o].mine
           marks == {Bump(c), Contained(c), [Bump(c) EXCEPT !.provider = "complete"],
                     [Bump(c) EXCEPT !.provider = "failed"]}
<1>1. /\ op[o].kind \in {"revoke", "retry", "delete", "erase"}
      /\ op[o].pc \notin {"record", "save", "audit"}
  BY DEF Contain, RevokeAtProvider, EraseContain, EraseAtProvider, CleanGrants, At
<1>2. c \in Credential
  BY <1>1, MineIs DEF AllKinds, Startable
<1>3. \A new \in marks : Marks(c, new)
  BY <1>2, BumpsRaise
<1>4. \E new \in marks, pc \in MarkStages, lostPc \in MarkStages : MarkOr(o, new, pc, lostPc)
  <2>1. CASE Contain(o)
    BY <2>1 DEF Contain, MarkStages
  <2>2. CASE RevokeAtProvider(o)
    BY <2>2 DEF RevokeAtProvider, MarkStages
  <2>3. CASE EraseContain(o)
    BY <2>3 DEF EraseContain, MarkStages
  <2>4. CASE EraseAtProvider(o)
    BY <2>4 DEF EraseAtProvider, MarkStages
  <2>5. CASE CleanGrants(o)
    BY <2>5 DEF CleanGrants, MarkStages
  <2> QED
    BY <2>1, <2>2, <2>3, <2>4, <2>5
<1> HIDE DEF marks
<1> QED
  BY <1>1, <1>2, <1>3, <1>4, MarkEffect

LEMMA MarkHistoryEffect ==
  ASSUME IInv, Faults = {}, NEW o \in Ops, MarkHistory(o) \/ MarkHistoryFailed(o)
  PROVE  Effect(o)
<1> DEFINE c == op[o].mine
           marks == {[Bump(c) EXCEPT !.history = "complete"], [Bump(c) EXCEPT !.history = "failed"]}
<1>1. /\ op[o].pc \in {"markHistory", "historyFailed"} /\ UNCHANGED historyVars
      /\ op[o].kind \in {"revoke", "retry", "delete", "erase"}
  <2>1. OperationTyped(op[o])
    BY DEF IInv, TypeOK
  <2> QED
    BY <2>1 DEF MarkHistory, MarkHistoryFailed, OperationTyped, Invalidating
<1>2. c \in Credential /\ c # None
  <2>1. c \in Credential
    BY <1>1, MineIs DEF AllKinds, Startable
  <2> QED
    BY <2>1, BumpsRaise
<1>3. \A new \in marks : Marks(c, new)
  BY <1>2, BumpsRaise
<1>4. /\ gone' = gone
      /\ \/ \E new \in marks : /\ cred # None /\ cred.version = c.version
                               /\ cred' = new /\ Revoked(o, new)
         \/ UNCHANGED cred /\ (Revoked(o, c) \/ Goto(o, "historyFailed"))
  BY DEF MarkHistory, MarkHistoryFailed, Lost, Replaceable
<1>5. ASSUME NEW new, Revoked(o, new)
      PROVE  OnlyOf(o) /\ op'[o].mine = new /\ op'[o].pc \in {"eraseContain", "ok"}
  BY <1>5, MoveIs DEF Revoked
<1>6. Goto(o, "historyFailed") =>
        OnlyOf(o) /\ op'[o].mine = c /\ op'[o].pc = "historyFailed"
  BY GotoIs
<1> HIDE DEF marks
<1>7. OnlyOf(o) /\ op'[o].pc \in {"eraseContain", "ok", "historyFailed"}
  BY <1>4, <1>5, <1>6
<1>8. StoreEffect(o)
  <2>1. CASE \E new \in marks : cred # None /\ cred.version = c.version /\ cred' = new /\ Revoked(o, new)
    <3>1. PICK new \in marks : cred # None /\ cred.version = c.version /\ cred' = new /\ Revoked(o, new)
      BY <2>1
    <3>2. op'[o].mine = cred' /\ cred' \in Credential /\ cred'.version = cred.version + 1 /\ cred'.secret = c.secret
      BY <1>3, <1>5, <3>1 DEF Marks
    <3> QED
      BY <1>2, <1>4, <1>7, <3>1, <3>2 DEF StoreEffect
  <2>2. CASE UNCHANGED cred /\ (Revoked(o, c) \/ Goto(o, "historyFailed"))
    BY <1>4, <1>5, <1>6, <1>7, <2>2 DEF StoreEffect
  <2> QED
    BY <1>4, <2>1, <2>2
<1>9. HistoryEffect(o)
  BY <1>1, <1>7, HistoryUntouched
<1> QED
  BY <1>7, <1>8, <1>9 DEF Effect

LEMMA CreateEffect ==
  ASSUME IInv, Faults = {}, NEW o \in Ops, Create(o)
  PROVE  Effect(o)
<1>1. op[o].pc = "create" /\ UNCHANGED historyVars
  BY DEF Create, At
<1>2. Initially(o) \in Credential
  BY OpsAreSecrets DEF Initially, Credential, Steps
<1>3. \/ /\ Move(o, [next |-> Initially(o), pc |-> "record"])
         /\ cred = None /\ ~gone /\ cred' = Initially(o) /\ gone' = gone
      \/ Goto(o, "failed") /\ UNCHANGED <<cred, gone>>
  BY DEF Create, WriteOr, Lost
<1>4. CASE /\ Move(o, [next |-> Initially(o), pc |-> "record"])
           /\ cred = None /\ ~gone /\ cred' = Initially(o) /\ gone' = gone
  <2>1. OnlyOf(o) /\ op'[o].pc = "record" /\ op'[o].mine = op[o].mine /\ op'[o].next = cred'
    BY <1>4, MoveIs
  <2> QED
    BY <1>1, <1>2, <1>4, <2>1, HistoryUntouched DEF Effect, StoreEffect
<1>5. CASE Goto(o, "failed") /\ UNCHANGED <<cred, gone>>
  <2>1. OnlyOf(o) /\ op'[o].pc = "failed" /\ op'[o].mine = op[o].mine
    BY <1>5, GotoIs
  <2> QED
    BY <1>1, <1>5, <2>1, HistoryUntouched DEF Effect, StoreEffect
<1> QED
  BY <1>3, <1>4, <1>5

LEMMA CommitChangeEffect ==
  ASSUME IInv, Faults = {}, NEW o \in Ops, CommitChange(o)
  PROVE  Effect(o)
<1> DEFINE to == IF op[o].kind = "edit" THEN "ok" ELSE "record"
           new == Successor(o)
<1>1. /\ op[o].kind \in {"update", "edit", "refresh"} /\ op[o].pc = "commit"
      /\ UNCHANGED historyVars
  BY DEF CommitChange, At
<1>2. op[o].mine \in Credential /\ op[o].mine # None
  <2>1. op[o].mine \in Credential
    BY <1>1, MineIs DEF AllKinds, Startable
  <2> QED
    BY <2>1, BumpsRaise
<1>3. /\ new \in Credential /\ new.version = op[o].mine.version + 1
      /\ op[o].kind = "edit" => new.secret = op[o].mine.secret
  <2>1. CASE op[o].kind = "edit"
    BY <1>2, <2>1, BumpsRaise DEF Successor, Marks
  <2>2. /\ [Bump(op[o].mine) EXCEPT !.secret = o] \in Credential
        /\ [Bump(op[o].mine) EXCEPT !.secret = o].version = op[o].mine.version + 1
        /\ [Bump(op[o].mine) EXCEPT !.secret = o, !.state = "active"] \in Credential
        /\ [Bump(op[o].mine) EXCEPT !.secret = o, !.state = "active"].version = op[o].mine.version + 1
    <3>1. o \in Secrets
      BY OpsAreSecrets
    <3> QED
      BY <1>2, <3>1, SecretsReplaced, Zenon
  <2>3. CASE op[o].kind = "update"
    <3>1. new = [Bump(op[o].mine) EXCEPT !.secret = o]
      BY <2>3 DEF Successor
    <3> QED
      BY <2>2, <2>3, <3>1, Zenon
  <2>4. CASE op[o].kind = "refresh"
    <3>1. new = [Bump(op[o].mine) EXCEPT !.secret = o, !.state = "active"]
      BY <2>4 DEF Successor
    <3> QED
      BY <2>2, <2>4, <3>1, Zenon
  <2> QED
    BY <1>1, <2>1, <2>3, <2>4
<1>4. CommitOr(o, op[o].mine, new, [next |-> new, pc |-> to], "failed")
  BY DEF CommitChange
<1> HIDE DEF new
<1>5. CASE /\ Move(o, [next |-> new, pc |-> to]) /\ cred # None /\ cred.version = op[o].mine.version
           /\ cred' = new /\ gone' = gone
  <2>1. OnlyOf(o) /\ op'[o].pc = to /\ op'[o].mine = op[o].mine /\ op'[o].next = new
    BY <1>5, MoveIs
  <2>2. StoreEffect(o)
    BY <1>2, <1>3, <1>5, <2>1 DEF StoreEffect
  <2> QED
    BY <1>1, <2>1, <2>2, HistoryUntouched DEF Effect
<1>6. CASE Goto(o, "failed") /\ UNCHANGED <<cred, gone>>
  <2>1. OnlyOf(o) /\ op'[o].pc = "failed" /\ op'[o].mine = op[o].mine
    BY <1>6, GotoIs
  <2> QED
    BY <1>1, <1>6, <2>1, HistoryUntouched DEF Effect, StoreEffect
<1> QED
  BY <1>4, <1>5, <1>6, CommitWithoutFault

LEMMA EraseEffect ==
  ASSUME IInv, Faults = {}, NEW o \in Ops, Erase(o)
  PROVE  Effect(o)
<1>1. op[o].pc = "erase" /\ UNCHANGED historyVars
  BY DEF Erase, At
<1>2. \/ Move(o, [pc |-> "ok"]) /\ cred' = None /\ gone' = TRUE
      \/ Goto(o, "failed") /\ UNCHANGED <<cred, gone>>
  BY DEF Erase, WriteOr, Lost
<1>3. /\ OnlyOf(o) /\ op'[o].pc \in {"ok", "failed"} /\ op'[o].mine = op[o].mine
  <2>1. CASE Move(o, [pc |-> "ok"])
    BY <2>1, MoveIs
  <2>2. CASE Goto(o, "failed")
    BY <2>2, GotoIs
  <2> QED
    BY <1>2, <2>1, <2>2
<1> QED
  BY <1>1, <1>2, <1>3, HistoryUntouched DEF Effect, StoreEffect

LEMMA LoadHistoryEffect ==
  ASSUME IInv, Faults = {}, NEW o \in Ops, LoadHistory(o)
  PROVE  Effect(o)
<1>1. PICK plan : plan = WithVersion(op[o].next.secret)
  OBVIOUS
<1>2. /\ op[o].pc = "record" /\ Move(o, [plan |-> plan, pc |-> "save"])
      /\ UNCHANGED <<cred, gone, lock>>
  BY <1>1 DEF LoadHistory, At
<1>3. queue \in {Free, o} /\ UNCHANGED <<versions, watermark, issued>>
  <2>1. CASE At(o, {"rollback"}, "record")
    <3>1. queue = o
      BY <2>1 DEF At, IInv, QueueKnows
    <3> QED
      BY <2>1, <3>1, <1>2 DEF LoadHistory, Enter, MayEnter, historyVars, At
  <2>2. CASE ~At(o, {"rollback"}, "record")
    BY <2>2 DEF LoadHistory, Enter, MayEnter
  <2> QED
    BY <2>1, <2>2
<1>4. /\ OnlyOf(o) /\ op'[o].pc = "save" /\ op'[o].mine = op[o].mine
      /\ op'[o].next = op[o].next /\ op'[o].plan = plan
  BY <1>2, MoveIs
<1>5. Adds(plan.versions, op[o].next.secret)
  BY <1>1, RecordingAdds, QueueIs DEF HistoryOK
<1>6. Trimming(o)
  BY <1>2, <1>3, <1>4 DEF Trimming, Trims
<1> QED
  BY <1>2, <1>3, <1>4, <1>5, <1>6 DEF Effect, StoreEffect, HistoryEffect

LEMMA SaveVersionEffect ==
  ASSUME IInv, Faults = {}, NEW o \in Ops, SaveVersion(o)
  PROVE  Effect(o)
<1>1. /\ op[o].pc = "save" /\ UNCHANGED <<cred, gone, lock>>
      /\ SaveAndLeave(op[o].plan) /\ Goto(o, "ok")
  BY DEF SaveVersion
<1>2. /\ OnlyOf(o) /\ op'[o].pc = "ok" /\ op'[o].mine = op[o].mine
      /\ op'[o].next = op[o].next
  BY <1>1, GotoIs
<1>3. queue = o
  BY <1>1, QueueIs
<1>4. Recording(o)
  BY <1>1, <1>2 DEF Recording, SaveAndLeave
<1> QED
  BY <1>1, <1>2, <1>3, <1>4 DEF Effect, StoreEffect, HistoryEffect

LEMMA SaveImportedVersionEffect ==
  ASSUME IInv, Faults = {}, NEW o \in Ops, SaveImportedVersion(o)
  PROVE  Effect(o)
<1>1. PICK plan : plan = Reverted
  OBVIOUS
<1>2. /\ op[o].pc = "save" /\ UNCHANGED <<cred, gone, lock>>
      /\ SaveAndStay(op[o].plan) /\ Move(o, [plan |-> plan, pc |-> "audit"])
  BY <1>1 DEF SaveImportedVersion, At
<1>3. /\ OnlyOf(o) /\ op'[o].pc = "audit" /\ op'[o].mine = op[o].mine
      /\ op'[o].next = op[o].next
  BY <1>2, MoveIs
<1>4. queue = o
  BY <1>2, QueueIs
<1>5. Recording(o)
  BY <1>2, <1>3 DEF Recording, SaveAndStay
<1> QED
  BY <1>2, <1>3, <1>4, <1>5 DEF Effect, StoreEffect, HistoryEffect

LEMMA RecordImportEffect ==
  ASSUME IInv, Faults = {}, NEW o \in Ops, RecordImport(o)
  PROVE  Effect(o)
<1>1. /\ op[o].pc = "audit" /\ UNCHANGED <<cred, gone>>
      /\ LeaveUnsaved /\ Goto(o, "ok")
  BY DEF RecordImport, At
<1>2. OnlyOf(o) /\ op'[o].pc = "ok" /\ op'[o].mine = op[o].mine
  BY <1>1, GotoIs
<1>3. queue = o
  BY <1>1, QueueIs
<1>4. ListingImported(o)
  BY <1>1, <1>2 DEF ListingImported, LeaveUnsaved
<1> QED
  BY <1>1, <1>2, <1>3, <1>4 DEF Effect, StoreEffect, HistoryEffect

LEMMA InvalidationEffect ==
  ASSUME IInv, Faults = {}, NEW o \in Ops, Undisturbed(o), LoadForInvalidation(o) \/ SaveInvalidated(o)
  PROVE  Effect(o)
<1>1. CASE LoadForInvalidation(o)
  <2>1. PICK plan : plan = AllInvalidated
    OBVIOUS
  <2>2. /\ op[o].pc = "invalidate" /\ Move(o, [plan |-> plan, pc |-> "saveInvalidated"])
        /\ queue = Free /\ UNCHANGED <<versions, watermark, issued, cred, gone, lock>>
    BY <1>1, <2>1 DEF LoadForInvalidation, Enter, MayEnter
  <2>3. /\ OnlyOf(o) /\ op'[o].pc = "saveInvalidated" /\ op'[o].mine = op[o].mine
        /\ op'[o].plan = plan
    BY <2>2, MoveIs
  <2>4. Trims(plan.versions)
    BY <2>1, ReadingTrims, QueueIs DEF HistoryOK
  <2>5. Trimming(o)
    BY <2>2, <2>3 DEF Trimming, Trims
  <2> QED
    BY <2>2, <2>3, <2>4, <2>5 DEF Effect, StoreEffect, HistoryEffect
<1>2. CASE SaveInvalidated(o)
  <2>1. /\ op[o].pc = "saveInvalidated" /\ UNCHANGED <<cred, gone, lock>>
        /\ SaveAndLeave(op[o].plan) /\ Goto(o, AfterInvalidation(o))
    BY <1>2 DEF SaveInvalidated
  <2>2. op[o].kind \in {"revoke", "retry", "delete", "erase"}
    BY <2>1, QueueIs DEF OperationTyped, Invalidating
  <2>3. PICK pc : pc = AfterInvalidation(o)
    OBVIOUS
  <2>4. pc \in {"markHistory", "ok", "erase"}
    BY <2>2, <2>3 DEF AfterInvalidation
  <2>5. /\ OnlyOf(o) /\ op'[o].pc = pc /\ op'[o].mine = op[o].mine
    BY <2>1, <2>3, GotoIs
  <2>6. queue = o
    BY <2>1, QueueIs
  <2>7. Trims(versions') /\ issued \subseteq issued'
    BY <2>1 DEF Undisturbed, QueueSaves, SaveAndLeave, Leave
  <2>8. Trimming(o)
    BY <2>1, <2>4, <2>5, <2>7 DEF Trimming
  <2> QED
    BY <2>1, <2>4, <2>5, <2>6, <2>8 DEF Effect, StoreEffect, HistoryEffect
<1> QED
  BY <1>1, <1>2

LEMMA RollbackEffect ==
  ASSUME IInv, Faults = {}, NEW o \in Ops, ReadAgain(o) \/ CommitRollback(o)
  PROVE  Effect(o)
<1> DEFINE mine == op[o].mine
           new == [Bump(mine) EXCEPT !.secret = op[o].next.secret]
<1>1. /\ op[o].kind = "rollback" /\ op[o].pc \in {"read", "commit"} /\ queue = o
  BY Parts DEF ReadAgain, CommitRollback, At, QueueKnows
<1>2. mine \in Credential /\ op[o].next.secret \in Secrets
  BY <1>1, MineIs, QueueIs DEF AllKinds, Startable, OperationTyped
<1>3. mine # None /\ new \in Credential /\ new.version = mine.version + 1 /\ new.secret = op[o].next.secret
  <2>1. mine # None
    BY <1>2, BumpsRaise
  <2>2. new \in Credential /\ new.version = mine.version + 1 /\ new.secret = op[o].next.secret
    BY <1>2, SecretsReplaced, Zenon
  <2> QED
    BY <2>1, <2>2
<1> HIDE DEF new
<1>4. \/ /\ Goto(o, "record") /\ cred # None /\ cred.version = mine.version
         /\ cred' = new /\ UNCHANGED <<historyVars, gone>>
      \/ /\ Goto(o, "commit") \/ Goto(o, "failed")
         /\ UNCHANGED <<cred, gone>> /\ (UNCHANGED historyVars \/ LeaveUnsaved)
  BY DEF ReadAgain, CommitRollback, Lost, Replaceable, new
<1>5. CASE /\ Goto(o, "record") /\ cred # None /\ cred.version = mine.version
           /\ cred' = new /\ UNCHANGED <<historyVars, gone>>
  <2>1. /\ OnlyOf(o) /\ op'[o].pc = "record" /\ op'[o].mine = op[o].mine
        /\ op'[o].next = op[o].next
    BY <1>5, GotoIs
  <2>2. StoreEffect(o)
    BY <1>3, <1>5, <2>1 DEF StoreEffect
  <2> QED
    BY <1>1, <1>5, <2>1, <2>2, HistoryUntouched DEF Effect
<1>6. CASE /\ Goto(o, "commit") \/ Goto(o, "failed")
           /\ UNCHANGED <<cred, gone>> /\ (UNCHANGED historyVars \/ LeaveUnsaved)
  <2>1. /\ OnlyOf(o) /\ op'[o].pc \in {"commit", "failed"} /\ op'[o].mine = op[o].mine
    BY <1>6, GotoIs
  <2>2. versions' = versions /\ issued \subseteq issued'
    BY <1>6 DEF historyVars, LeaveUnsaved, Leave
  <2>3. Trimming(o)
    BY <1>1, <2>1, <2>2 DEF Trimming, Trims
  <2> QED
    BY <1>1, <1>6, <2>1, <2>3 DEF Effect, StoreEffect, HistoryEffect
<1> QED
  BY <1>4, <1>5, <1>6

LEMMA CommitImportEffect ==
  ASSUME IInv, Faults = {}, NEW o \in Ops, CommitImport(o)
  PROVE  Effect(o)
<1> DEFINE mine == op[o].mine
           new == [Bump(mine) EXCEPT !.secret = o]
<1>1. /\ op[o].kind = "import" /\ op[o].pc = "commit" /\ UNCHANGED historyVars /\ gone' = gone
  BY DEF CommitImport, At
<1>2. mine \in Credential /\ o \in Secrets
  BY <1>1, MineIs, OpsAreSecrets DEF AllKinds, Startable
<1>3. mine # None /\ new \in Credential /\ new.version = mine.version + 1
  <2>1. mine # None
    BY <1>2, BumpsRaise
  <2>2. new \in Credential /\ new.version = mine.version + 1
    BY <1>2, SecretsReplaced, Zenon
  <2> QED
    BY <2>1, <2>2
<1> HIDE DEF new
<1>4. \/ cred = mine /\ cred' = new /\ Move(o, [next |-> new, pc |-> "record"])
      \/ Goto(o, "failed") /\ cred' = cred
  BY DEF CommitImport, SameAsPreviewed, new
<1>5. CASE cred = mine /\ cred' = new /\ Move(o, [next |-> new, pc |-> "record"])
  <2>1. /\ OnlyOf(o) /\ op'[o].pc = "record" /\ op'[o].mine = op[o].mine /\ op'[o].next = new
    BY <1>5, MoveIs
  <2>2. StoreEffect(o)
    BY <1>1, <1>3, <1>5, <2>1 DEF StoreEffect
  <2> QED
    BY <1>1, <2>1, <2>2, HistoryUntouched DEF Effect
<1>6. CASE Goto(o, "failed") /\ cred' = cred
  <2>1. /\ OnlyOf(o) /\ op'[o].pc = "failed" /\ op'[o].mine = op[o].mine
    BY <1>6, GotoIs
  <2> QED
    BY <1>1, <1>6, <2>1, HistoryUntouched DEF Effect, StoreEffect
<1> QED
  BY <1>4, <1>5, <1>6

LEMMA StartEffect ==
  ASSUME IInv, NEW o \in Ops, NEW k \in Kinds \ {"rollback"}, Start(o, k)
  PROVE  Effect(o)
<1>1. /\ op[o].pc = "idle" /\ UNCHANGED <<historyVars, cred, gone, lock>>
      /\ op' = [op EXCEPT ![o].kind = KindNow(k), ![o].pc = FirstStep(KindNow(k)), ![o].mine = cred]
  BY DEF Start, MayStart
<1>2. k \in {"register", "update", "edit", "refresh", "import", "revoke", "delete"}
  BY LifecycleAssumption DEF IInv, TypeOK, Kinds, Startable
<1>3. KindNow(k) \in {"register", "update", "edit", "refresh", "import",
                      "revoke", "retry", "delete", "erase"}
  BY <1>2 DEF KindNow
<1>4. PICK kind : kind = KindNow(k)
  OBVIOUS
<1>5. PICK pc : pc = FirstStep(kind)
  OBVIOUS
<1>6. pc \in {"create", "contain", "invalidate", "provider", "eraseContain", "commit"}
  BY <1>3, <1>4, <1>5 DEF FirstStep
<1>7. /\ OnlyOf(o) /\ op'[o].pc = pc /\ op'[o].mine = cred
  <2>1. DOMAIN op = Ops /\ DOMAIN op[o] = Fields
    BY DEF IInv, TypeOK, OperationTyped
  <2> QED
    BY <1>1, <1>4, <1>5, <2>1 DEF OnlyOf, Fields
<1> QED
  BY <1>1, <1>6, <1>7, HistoryUntouched DEF Effect, StoreEffect

LEMMA TakeTargetEffect ==
  ASSUME IInv, NEW o \in Ops, TakeTarget(o)
  PROVE  Effect(o)
<1>1. /\ op[o].pc = "idle" /\ queue = Free /\ versions' = Retained(versions)
      /\ UNCHANGED <<issued, cred, gone>>
  BY DEF TakeTarget, MayStart, EnterPruning, MayEnter
<1>2. PICK n : Move(o, [kind |-> "rollback", pc |-> "read", mine |-> cred,
                        next |-> [secret |-> versions[n].secret, number |-> n]])
  BY DEF TakeTarget
<1>3. OnlyOf(o) /\ op'[o].pc = "read" /\ op'[o].mine = cred
  BY <1>2, MoveIs
<1>4. Trims(versions')
  BY <1>1, ReadingTrims, QueueIs DEF HistoryOK
<1> QED
  BY <1>1, <1>3, <1>4 DEF Effect, StoreEffect, HistoryEffect, Trimming

\* Neither an undoing nor a crash takes place.
LEMMA WorkEffect ==
  ASSUME IInv, Faults = {}, NEW o \in Ops, Undisturbed(o), Work(o)
  PROVE  Effect(o)
<1>1. op[o].pc \notin {"undo", "restore"}
  BY DEF Undisturbed
<1>2. ~UndoUpdate(o) /\ ~UndoRegistration(o) /\ ~RestoreCollection(o)
  BY <1>1 DEF UndoUpdate, UndoRegistration, RestoreCollection, At
<1> QED
  BY <1>2, CreateEffect, CommitChangeEffect, LoadHistoryEffect, SaveVersionEffect, RollbackEffect,
     CommitImportEffect, SaveImportedVersionEffect, RecordImportEffect, ContainmentEffect,
     InvalidationEffect, MarkHistoryEffect, EraseEffect
     DEF Work

\* The clock, a reader or a pause.
LEMMA RecordingUndisturbed ==
  ASSUME IInv, Faults = {}, RecordingInv, UNCHANGED <<cred, gone, op, scenario>>,
         Trims(versions'), issued \subseteq issued',
         \A o \in Ops : op[o].pc \in {"save", "saveInvalidated", "audit"} =>
           /\ DOMAIN versions' = DOMAIN versions
           /\ \A n \in DOMAIN versions : versions'[n].secret = versions[n].secret
  PROVE  RecordingInv'
<1>1. IsFiniteSet(Running) /\ \A o \in Ops : Undisturbed(o)
  BY DEF RecordingInv
<1>2. Running' = Running /\ Unrecorded' = Unrecorded
  BY DEF Running, Unrecorded
<1>3. \A o \in Ops : ReadOnce(o)' /\ op'[o].pc \notin {"undo", "restore"}
  BY <1>1 DEF Undisturbed, ReadOnce
<1>4. \A o \in Ops : QueueSaves(o)'
  BY <1>1 DEF Undisturbed, QueueSaves, Adds, Trims, Above
<1>5. \A o \in Ops : Listing(o) => Listing(o)'
  BY DEF Listing
<1>6. Cardinality(Unrecorded) \in Nat
  <2>1. Unrecorded \subseteq Running
    BY DEF Unrecorded, Running, Ended
  <2> QED
    BY <1>1, <2>1, FS_Subset, FS_CardinalityType
<1>7. \A n \in DOMAIN versions : ListedAs(n) => n \in DOMAIN versions' /\ ListedAs(n)'
  <2>1. \A n \in DOMAIN versions : ListedAs(n) => ListedAs(n)'
    BY <1>2, <1>6, ListedStays
  <2> QED
    BY <2>1 DEF ListedAs
<1> QED
  BY <1>1, <1>2, <1>3, <1>4, <1>5, <1>7 DEF RecordingInv, Undisturbed, Active

LEMMA RecordingGoesOn ==
  ASSUME IInv, RecordingInv, FewAtOnce, [Next]_vars
  PROVE  RecordingInv'
<1>1. IInv' /\ TerminalKept /\ UNCHANGED scenario
  BY NextKeeps DEF Promised, Next, vars
<1> SUFFICES ASSUME Faults = {} PROVE RecordingInv'
  BY <1>1 DEF RecordingInv, Faults
<1>2. \A o \in Ops : Undisturbed(o)
  BY DEF RecordingInv
<1>3. ASSUME NEW o \in Ops, Effect(o) PROVE RecordingInv'
  BY <1>1, <1>3, EffectKeeps
<1>4. ASSUME NEW o \in Ops, NEW k \in Kinds \ {"rollback"}, Start(o, k) PROVE RecordingInv'
  BY <1>3, <1>4, StartEffect
<1>5. ASSUME NEW o \in Ops, TakeTarget(o) PROVE RecordingInv'
  BY <1>3, <1>5, TakeTargetEffect
<1>6. ASSUME NEW o \in Ops, Work(o) PROVE RecordingInv'
  BY <1>2, <1>3, <1>6, WorkEffect
<1>7. CASE Lapse /\ UNCHANGED <<cred, gone, lock, op>>
  <2>1. /\ DOMAIN versions' = DOMAIN versions /\ issued' = issued
        /\ versions' = [n \in DOMAIN versions |-> IF n \in Live(versions)
                          THEN [versions[n] EXCEPT !.status = "lapsed"] ELSE versions[n]]
    BY <1>7 DEF Lapse
  <2>2. \A n \in DOMAIN versions : versions'[n].secret = versions[n].secret
    <3>1. \A n \in DOMAIN versions : versions[n] \in VersionRecord
      BY DEF IInv, TypeOK, IsHistory
    <3> QED
      BY <2>1, <3>1 DEF VersionRecord, Invalidated
  <2>3. Trims(versions')
    BY <2>1 DEF Trims
  <2> QED
    BY <1>1, <1>7, <2>1, <2>2, <2>3, RecordingUndisturbed
<1>8. CASE Browse /\ UNCHANGED <<cred, gone, lock, op>>
  <2>1. queue = Free /\ versions' = Retained(versions) /\ issued \subseteq issued'
    BY <1>8 DEF Browse, SaveAndLeave, Reverted, Leave
  <2>2. Trims(versions')
    BY <2>1, ReadingTrims, Parts DEF HistoryOK
  <2>3. \A o \in Ops : op[o].pc \notin {"save", "saveInvalidated", "audit"}
    BY <2>1, NobodyQueues
  <2> QED
    BY <1>1, <1>8, <2>1, <2>2, <2>3, RecordingUndisturbed
<1>9. ~Crash
  BY DEF Crash
<1>10. CASE UNCHANGED <<historyVars, cred, gone, lock, op>>
  <2>1. versions' = versions /\ issued' = issued /\ UNCHANGED <<cred, gone, op>>
    BY <1>10 DEF historyVars
  <2>2. Trims(versions')
    BY <2>1 DEF Trims
  <2> QED
    BY <1>1, <2>1, <2>2, RecordingUndisturbed
<1>11. UNCHANGED vars => UNCHANGED <<historyVars, cred, gone, lock, op>>
  BY DEF vars
<1> QED
  BY <1>4, <1>5, <1>6, <1>7, <1>8, <1>9, <1>10, <1>11 DEF Next

LEMMA RecordingStarts == Init => RecordingInv
<1> SUFFICES ASSUME Init PROVE RecordingInv
  OBVIOUS
<1>1. /\ gone = FALSE /\ cred \in {None, Initially(InitialSecret)}
      /\ \A o \in Ops : op[o].pc = "idle" /\ op[o].mine = None
  BY DEF Init
<1>2. Running = {} /\ Unrecorded = {}
  BY <1>1 DEF Running, Unrecorded
<1>3. IsFiniteSet(Running) /\ Cardinality(Unrecorded) = 0
  BY <1>2, FS_EmptySet
<1>4. \A o \in Ops : Undisturbed(o)
  BY <1>1 DEF Undisturbed, QueueSaves, ReadOnce
<1>5. ASSUME Active(cred) PROVE \E n \in DOMAIN versions : ListedAs(n)
  <2>1. /\ cred # None /\ cred.secret = InitialSecret
        /\ versions = [n \in {1} |-> Record(InitialSecret)]
        /\ issued = {<<n, versions[n].secret>> : n \in DOMAIN versions}
    BY <1>1, <1>5 DEF Active, Init, HistoryInit, Initially
  <2>2. DOMAIN versions = {1} /\ versions[1].secret = InitialSecret
    BY <2>1 DEF Record
  <2>3. <<1, InitialSecret>> \in issued
    BY <2>1, <2>2
  <2>4. Above(versions, 1) = 0
    BY <2>2, NothingAbove
  <2> QED
    BY <1>3, <2>1, <2>2, <2>3, <2>4, HistoryAssumption DEF ListedAs
<1> QED
  BY <1>3, <1>4, <1>5 DEF RecordingInv

\* With no more operations at a time than versions are kept, and nothing failing,
\* the Secret of an active Credential is in the history once all have ended, in
\* whatever order they recorded theirs; and a number is one Secret's for good.
THEOREM CurrentSecretIsRecorded == Spec /\ []FewAtOnce => []CurrentSecretRecorded
<1>1. IInv /\ RecordingInv /\ FewAtOnce /\ [Next]_vars => RecordingInv'
  BY RecordingGoesOn
<1>2. IInv /\ RecordingInv => CurrentSecretRecorded
  <2> SUFFICES ASSUME IInv, RecordingInv, Faults = {}, Active(cred), AtRest
               PROVE  \E n \in DOMAIN versions : <<n, cred.secret>> \in issued
    BY DEF CurrentSecretRecorded, IInv
  <2>1. \A o \in Ops : ~Listing(o)
    BY DEF AtRest, Listing, Ended
  <2> QED
    BY <2>1 DEF RecordingInv, ListedAs
<1> QED
  BY Invariance, RecordingStarts, <1>1, <1>2, PTL DEF Spec
=============================================================================
