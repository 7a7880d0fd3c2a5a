---------------------------- MODULE SecretHistory ----------------------------
(***************************************************************************)
(* The Secret-Version history of one Credential:                           *)
(* CredentialSecretVersionService.                                         *)
(*                                                                         *)
(* The history file holds numbered records and the highest number ever     *)
(* used.  Every operation loads the file, computes the next state and      *)
(* saves it, and holds the service's mutation queue meanwhile.  A record   *)
(* is "live", or "lapsed" once its 24 hours are over, and "invalid" when   *)
(* its Secret has been removed.                                            *)
(***************************************************************************)
EXTENDS Naturals, FiniteSetsExt

CONSTANTS Ops,            \* operations of the composing module
          Secrets,
          MaxRetained,    \* MAX_VERSIONS_PER_CREDENTIAL
          Free            \* the queue is not held

NoSecret == "removed"   \* of a version whose Secret has been taken out

ASSUME HistoryAssumption == /\ MaxRetained \in Nat \ {0}
                            /\ Free \notin Ops
                            /\ NoSecret \notin Secrets

VARIABLES versions,       \* version number -> record
          watermark,      \* secretVersionHighWatermarks
          queue,          \* the operation that holds mutationQueue, or Free
          issued          \* history: the <<number, Secret>> pairs that were
                          \* stored when an operation released the queue

historyVars == <<versions, watermark, queue, issued>>

Record(s) == [secret |-> s, status |-> "live"]
Invalidated == [secret |-> NoSecret, status |-> "invalid"]

Live(h) == {n \in DOMAIN h : h[n].status = "live"}

\* #boundHistory: the newest records are kept.
BoundedToOldest(h) ==                                                \* mutant
  [n \in {k \in DOMAIN h : Cardinality({j \in DOMAIN h : j < k}) < MaxRetained}
     |-> h[n]]
Bounded(h) ==
  [n \in {k \in DOMAIN h : Cardinality({j \in DOMAIN h : j > k}) < MaxRetained}
     |-> h[n]]

\* #pruneVersions: what is not available loses its Secret, not its number.
Pruned(h) == [n \in DOMAIN h |-> IF n \in Live(h) THEN h[n] ELSE Invalidated]

Retained(h) == Bounded(Pruned(h))

NextNumber == Max({watermark} \cup DOMAIN versions) + 1

\* The state of the file after a version has been added, or after all of
\* them have been invalidated.
WithVersion(s) ==
  [versions |-> Bounded([n \in DOMAIN Retained(versions) \cup {NextNumber} |->
                           IF n = NextNumber THEN Record(s) ELSE Retained(versions)[n]]),
   watermark |-> NextNumber]
AllInvalidated ==
  [versions |-> Bounded([n \in DOMAIN versions |-> Invalidated]),
   watermark |-> watermark]
Reverted == [versions |-> Retained(versions), watermark |-> watermark]

QueueIgnored(o) == TRUE                                              \* mutant
MayEnter(o) == queue = Free

HistoryInit(initial) ==
  /\ versions = initial
  /\ watermark = Cardinality(DOMAIN initial)
  /\ queue = Free
  /\ issued = {<<n, initial[n].secret>> : n \in DOMAIN initial}

Enter(o) == /\ MayEnter(o)
            /\ queue' = o
            /\ UNCHANGED <<versions, watermark, issued>>

\* A rollback stays in the queue; reading the history saves what it pruned.
EnterPruning(o) == /\ MayEnter(o)
                   /\ queue' = o
                   /\ versions' = Retained(versions)
                   /\ UNCHANGED <<watermark, issued>>

\* What is stored when the queue is released can be listed and rolled back to.
Leave(stored) ==
  /\ queue' = Free
  /\ issued' = issued \cup {<<n, stored[n].secret>> :
                             n \in {k \in DOMAIN stored : stored[k].secret # NoSecret}}

\* #saveState as the last step inside the queue, or before more follows.
SaveAndLeave(plan) == /\ versions' = plan.versions
                      /\ watermark' = plan.watermark
                      /\ Leave(plan.versions)
SaveAndStay(plan) == /\ versions' = plan.versions
                     /\ watermark' = plan.watermark
                     /\ UNCHANGED <<queue, issued>>
LeaveUnsaved == /\ Leave(versions)
                /\ UNCHANGED <<versions, watermark>>

\* 24 hours pass for everything recorded so far (#isAvailable).
Lapse == /\ Live(versions) # {}
         /\ versions' = [n \in DOMAIN versions |->
                           IF n \in Live(versions)
                           THEN [versions[n] EXCEPT !.status = "lapsed"]
                           ELSE versions[n]]
         /\ UNCHANGED <<watermark, queue, issued>>

\* listCredentialVersions and getCredentialVersion: a reading saves what it
\* pruned.
Browse == /\ queue = Free
          /\ Retained(versions) # versions
          /\ SaveAndLeave(Reverted)

=============================================================================
