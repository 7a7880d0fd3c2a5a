---------------------------- MODULE BrowserProofs ----------------------------
(***************************************************************************)
(* What goes through the browser: the OAuth flows that send it to a        *)
(* provider and back (OAuthFlow), for any flows, callbacks, actors,        *)
(* profiles, accounts and bounds, and the pages it shows (MCWebPages), for *)
(* any Consumers, Credentials, secrets, requests and acts.                 *)
(*                                                                         *)
(* The configuration of a flow has one owner at a time: its context, then  *)
(* the one request that consumed or swept the context.  A flow that has    *)
(* been answered is started by nobody again, so that a callback which has  *)
(* consumed the context is the only one to remove the configuration.       *)
(*                                                                         *)
(* A page keeps what it shows and what it asks for together: whatever      *)
(* overtakes a request also takes away its right to be shown.              *)
(***************************************************************************)
EXTENDS OAuthFlow, MCWebPages, SequenceTheorems, TLAPS

StartStages == Resting \cup {"start", "prepare", "context", "ask", "remember",
                             "cancel", "withdraw", "drop"}
Consuming == {"load", "exchange", "authorize", "validate", "lock", "save", "drop"}
CallbackStages == Resting \cup Consuming \cup
                  {"intent", "cancel", "withdraw", "admit", "actor", "handle", "consume"}
Told == Accounts \cup {"code", "none", "mismatch", "capacity"}
Request == [at : StartStages \cup CallbackStages, flow : Flows \cup {None},
            doomed : SUBSET Flows, told : Told, profile : Profiles \cup {None}]
CredentialOf == [flow : Flows \cup {None}, state : {"none", "active", "revoked"}]

TypeOK ==
  /\ context \in [Flows -> Profiles \cup {None}]
  /\ config \in [Flows -> Profiles \cup {None}]
  /\ intent \subseteq Flows /\ lapsed \subseteq Kinds \X Flows
  /\ provider \in Profiles \cup {None}
  /\ principal \in [Actors -> {"authorized", "demoted", "gone"}]
  /\ cred \in [Accounts -> CredentialOf]
  /\ proc \in [Procs -> Request]
  /\ people \in Callbacks \cup {None} /\ binding \in Callbacks \cup {None}
  /\ changes \in Nat

\* A context is created once in the life of its flow.
Created(f) == proc[f].at \notin {"idle", "start", "prepare", "context"}

\* What a request knows at its stage.
Knows(p) ==
  LET q == proc[p] IN
  /\ q.at \in Resting => q.doomed = {}
  /\ p \in Flows => q.at \in StartStages /\ (q.at # "idle" => q.flow = p)
  /\ p \in Callbacks => q.at \in CallbackStages
  /\ p \in Callbacks /\ q.at # "idle" => q.flow \in Flows /\ proc[q.flow].at = "answered"
  /\ p \in Callbacks /\ q.at \in {"intent", "cancel", "withdraw"} => q.told \in {"code", "none"}
  /\ q.at \in {"authorize", "validate", "lock", "save"} => q.told \in Accounts
  /\ q.at \in {"validate", "lock", "save"} => people = p /\ Current(q.flow)
  /\ q.at \in {"lock", "save"} => config[q.flow] # None

\* Whoever consumed or swept a context is the only one who did.
OneOwner(p) ==
  /\ \A f \in proc[p].doomed : context[f] = None /\ Created(f)
  /\ HasConsumed(p) =>
       /\ context[F(p)] = None
       /\ \A q \in Procs : /\ F(p) \notin proc[q].doomed
                           /\ q # p /\ HasConsumed(q) => F(q) # F(p)

IInv == /\ TypeOK /\ ConfigurationKept
        /\ \A f \in Flows : context[f] # None => Created(f)
        /\ \A p \in Procs : Knows(p) /\ OneOwner(p)
-----------------------------------------------------------------------------
(* What one step of a request may do.                                       *)

\* Nobody else moves.
OnlyOf(p) == \A q \in Procs \ {p} : proc'[q] = proc[q]

\* p alone makes contexts of its own flow, sweeps what has expired, consumes what is
\* there and removes the configurations it owns.
Plays(p) ==
  /\ \A f \in Flows : context[f] = None /\ context'[f] # None =>
       f = p /\ ~Created(p) /\ Created(p)'
  /\ \A f \in proc'[p].doomed : f \in proc[p].doomed \/ (f \in Expired /\ context'[f] = None)
  /\ HasConsumed(p)' => \/ HasConsumed(p) /\ F(p)' = F(p)
                        \/ /\ context[F(p)'] # None /\ context'[F(p)'] = None
                           /\ proc'[p].doomed = {}
  /\ \A f \in Flows : config[f] # None /\ config'[f] = None =>
       f \in proc[p].doomed \/ (F(p) = f /\ proc[p].at = "drop")
  /\ proc[p].at = "answered" => proc'[p].at = "answered"
  /\ Created(p) => Created(p)'
  /\ people' = people \/ people \in {None, p}

\* What p has taken over from a context.
OwnedBy(p, f) == \/ f \in proc[p].doomed
                 \/ F(p) = f /\ (WillDiscard(p) \/ HasConsumed(p))

\* p lets go of nothing that is left behind.
HandsOver(p) ==
  \A f \in Flows :
    OwnedBy(p, f) \/ (context[f] # None /\ context'[f] = None) =>
      OwnedBy(p, f)' \/ config'[f] = None \/ f \in Referenced' \/ LetsGo

\* What the two action properties say of a step.
Imports == \A a \in Accounts :
             cred[a] = NoCredential /\ cred'[a] # NoCredential => Current(cred'[a].flow)
LeavesNone == \A f \in Flows : (Owned(f) /\ ~Owned(f)' /\ config'[f] # None) =>
                                 (f \in Referenced' \/ LetsGo)
Good == IInv' /\ Imports /\ LeavesNone

LEMMA FlowsAre ==
  /\ None \notin Flows /\ None \notin Procs
  /\ Flows \cap Callbacks = {} /\ Flows \subseteq Procs /\ Callbacks \subseteq Procs
BY FlowsAssumption DEF Procs

LEMMA ConsumedIs ==
  ASSUME IInv, NEW p \in Procs, HasConsumed(p)
  PROVE  /\ p \in Callbacks /\ F(p) \in Flows /\ proc[F(p)].at = "answered" /\ Created(F(p))
         /\ context[F(p)] = None
BY FlowsAre DEF IInv, Knows, OneOwner, HasConsumed, F, Created

LEMMA StepKeeps ==
  ASSUME IInv, NEW p \in Procs, OnlyOf(p), Plays(p), HandsOver(p), TypeOK', ConfigurationKept',
         Knows(p)', UNCHANGED principal
  PROVE  IInv' /\ LeavesNone
<1>1. \A f \in Flows : /\ proc[f].at = "answered" => proc'[f].at = "answered"
                       /\ Created(f) => Created(f)'
  BY FlowsAre DEF OnlyOf, Plays, Created
<1>2. \A f \in Flows : context'[f] # None => Created(f)'
  BY <1>1 DEF IInv, Plays
<1>3. ASSUME NEW q \in Procs, q # p PROVE Knows(q)'
  <2>1. Knows(q) /\ proc'[q] = proc[q]
    BY <1>3 DEF IInv, OnlyOf
  <2>2. /\ q \in Callbacks /\ proc[q].at # "idle" =>
             proc[q].flow \in Flows /\ proc'[proc[q].flow].at = "answered"
        /\ proc[q].at \in {"validate", "lock", "save"} => people' = q
    BY <1>1, <1>3, <2>1, FlowsAre DEF Knows, Plays
  <2>3. ASSUME proc[q].at \in {"lock", "save"} PROVE config'[proc[q].flow] # None
    <3>1. q \in Callbacks /\ HasConsumed(q)
      BY <2>1, <2>3 DEF Knows, HasConsumed, StartStages, Resting, Procs
    <3>2. /\ F(q) \in Flows /\ config[F(q)] # None /\ F(q) \notin proc[p].doomed
          /\ proc[F(q)].at = "answered"
          /\ HasConsumed(p) => F(p) # F(q)
      BY <1>3, <2>1, <2>3, <3>1, ConsumedIs DEF IInv, OneOwner, Knows, F
    <3>3. ~(F(p) = F(q) /\ proc[p].at = "drop")
      <4> SUFFICES ASSUME F(p) = F(q), proc[p].at = "drop" PROVE FALSE
        OBVIOUS
      <4>1. CASE p \in Callbacks
        BY <3>2, <4>1 DEF HasConsumed
      <4>2. CASE p \in Flows
        BY <3>2, <4>2 DEF IInv, Knows, F
      <4> QED
        BY <4>1, <4>2 DEF Procs
    <3> QED
      BY <3>2, <3>3 DEF Plays, F
  <2> QED
    BY <2>1, <2>2, <2>3 DEF Knows, Current
<1>4. \A q \in Procs, f \in Flows : f \in proc'[q].doomed =>
        context'[f] = None /\ Created(f)' /\ (f \in proc[q].doomed \/ context[f] # None)
  <2> SUFFICES ASSUME NEW q \in Procs, NEW f \in Flows, f \in proc'[q].doomed
               PROVE  context'[f] = None /\ Created(f)' /\ (f \in proc[q].doomed \/ context[f] # None)
    OBVIOUS
  <2>1. CASE f \in proc[q].doomed
    BY <1>1, <2>1 DEF IInv, OneOwner, Plays
  <2>2. CASE f \notin proc[q].doomed
    <3>1. q = p /\ f \in Expired /\ context'[f] = None
      BY <2>2 DEF OnlyOf, Plays
    <3> QED
      BY <1>1, <3>1 DEF IInv, Expired, Contexts
  <2> QED
    BY <2>1, <2>2
<1>5. ASSUME NEW q \in Procs, HasConsumed(q)'
      PROVE  /\ F(q)' \in Flows /\ context'[F(q)'] = None
             /\ \/ HasConsumed(q) /\ F(q)' = F(q) /\ context[F(q)] = None
                \/ q = p /\ context[F(q)'] # None /\ proc'[p].doomed = {}
  <2>1. Knows(q)'
    BY <1>3
  <2>2. F(q)' \in Flows
    BY <1>5, <2>1 DEF Knows, HasConsumed, F
  <2>3. CASE HasConsumed(q) /\ F(q)' = F(q)
    BY <2>2, <2>3, ConsumedIs DEF Plays
  <2>4. CASE ~(HasConsumed(q) /\ F(q)' = F(q))
    <3>1. q = p
      BY <1>5, <2>4 DEF OnlyOf, HasConsumed, F
    <3> QED
      BY <1>5, <2>2, <2>4, <3>1 DEF Plays
  <2> QED
    BY <2>3, <2>4
<1>6. ASSUME NEW q \in Procs PROVE OneOwner(q)'
  <2>1. \A f \in proc'[q].doomed : context'[f] = None /\ Created(f)'
    BY <1>4 DEF TypeOK, Request
  <2>2. ASSUME HasConsumed(q)', NEW r \in Procs
        PROVE  F(q)' \notin proc'[r].doomed
    <3>1. CASE context[F(q)'] = None
      BY <1>4, <1>5, <2>2, <3>1 DEF IInv, OneOwner
    <3>2. CASE context[F(q)'] # None
      BY <1>4, <1>5, <2>2, <3>2 DEF IInv, OneOwner, OnlyOf
    <3> QED
      BY <3>1, <3>2
  <2>3. ASSUME HasConsumed(q)', NEW r \in Procs, r # q, HasConsumed(r)'
        PROVE  F(r)' # F(q)'
    BY <1>5, <2>3 DEF IInv, OneOwner
  <2> QED
    BY <1>5, <2>1, <2>2, <2>3 DEF OneOwner
<1>7. LeavesNone
  <2> SUFFICES ASSUME NEW f \in Flows, Owned(f), ~Owned(f)', config'[f] # None
               PROVE  f \in Referenced' \/ LetsGo
    BY DEF LeavesNone
  <2>1. \A q \in Procs : ~OwnedBy(q, f)' /\ context'[f] = None
    BY DEF Owned, OwnedBy
  <2>2. \A q \in Procs \ {p} : OwnedBy(q, f)' = OwnedBy(q, f)
    BY DEF OnlyOf, OwnedBy, F, WillDiscard, HasConsumed
  <2>3. context[f] # None \/ OwnedBy(p, f)
    BY <2>1, <2>2 DEF Owned, OwnedBy
  <2> QED
    BY <2>1, <2>3 DEF HandsOver
<1> QED
  BY <1>2, <1>3, <1>6, <1>7 DEF IInv
-----------------------------------------------------------------------------
(* Steps that leave contexts and configurations alone.                      *)

Stages == StartStages \cup CallbackStages

LEMMA IdleIsRequest == Idle \in Request /\ Idle.at = "idle" /\ Idle.doomed = {} /\ Idle.flow = None
BY DEF Idle, Request, StartStages, Resting, Told

LEMMA GoIs ==
  ASSUME IInv, NEW p \in Procs, NEW stage \in Stages, Go(p, stage)
  PROVE  /\ OnlyOf(p) /\ proc' \in [Procs -> Request]
         /\ proc'[p].at = stage /\ proc'[p].flow = F(p)
         /\ proc'[p].doomed = IF stage \in Resting THEN {} ELSE proc[p].doomed
         /\ stage \notin Resting => /\ proc'[p].told = proc[p].told
                                    /\ proc'[p].profile = proc[p].profile
<1>1. proc \in [Procs -> Request] /\ proc[p] \in Request
  BY DEF IInv, TypeOK
<1>2. CASE stage \in Resting
  <2> DEFINE new == [Idle EXCEPT !.at = stage, !.flow = F(p)]
  <2>1. new \in Request /\ new.at = stage /\ new.flow = F(p) /\ new.doomed = {}
    BY <1>1 DEF Idle, Request, Stages, Told, F
  <2>2. proc' = [proc EXCEPT ![p] = new]
    BY <1>2 DEF Go
  <2> HIDE DEF new
  <2> QED
    BY <1>1, <1>2, <2>1, <2>2 DEF OnlyOf
<1>3. CASE stage \notin Resting
  <2> DEFINE new == [proc[p] EXCEPT !.at = stage]
  <2>1. /\ new \in Request /\ new.at = stage /\ new.flow = F(p)
        /\ new.doomed = proc[p].doomed /\ new.told = proc[p].told /\ new.profile = proc[p].profile
    BY <1>1 DEF Request, Stages, F
  <2>2. proc' = [proc EXCEPT ![p] = new]
    BY <1>3 DEF Go
  <2> HIDE DEF new
  <2> QED
    BY <1>1, <1>3, <2>1, <2>2 DEF OnlyOf
<1> QED
  BY <1>2, <1>3

\* The surroundings of a request; people and binding are left to the steps.
Quietly == /\ UNCHANGED <<context, config, provider, principal, cred, lapsed, changes>>
           /\ intent' \subseteq Flows
           /\ people' \in Callbacks \cup {None} /\ binding' \in Callbacks \cup {None}

LEMMA QuietKeeps ==
  ASSUME IInv, NEW p \in Procs, OnlyOf(p), proc' \in [Procs -> Request],
         proc[p].doomed = {}, proc'[p].doomed = {}, proc'[p].flow = F(p) \/ proc[p].at = "idle",
         Quietly, people' = people \/ people \in {None, p},
         Knows(p)', HasConsumed(p)' <=> HasConsumed(p), WillDiscard(p) => WillDiscard(p)',
         proc[p].at # "answered", Created(p) => Created(p)'
  PROVE  Good
<1>1. /\ TypeOK' /\ ConfigurationKept'
  BY DEF IInv, TypeOK, ConfigurationKept, Quietly
<1>2. Plays(p)
  BY DEF Plays, Quietly, F, HasConsumed
<1>3. HandsOver(p)
  BY DEF HandsOver, OwnedBy, Quietly, F, WillDiscard, HasConsumed
<1>4. Imports /\ UNCHANGED principal
  BY DEF Imports, Quietly
<1> QED
  BY <1>1, <1>2, <1>3, <1>4, StepKeeps DEF Good

\* A callback from one stage to another.
LEMMA CallbackGoes ==
  ASSUME IInv, NEW c \in Callbacks, NEW stage \in CallbackStages \ {"idle", "answered"}, Go(c, stage),
         proc[c].doomed = {}, proc[c].at \notin {"idle", "answered"},
         Quietly, people' = people \/ people \in {None, c},
         stage \in Consuming <=> proc[c].at \in Consuming,
         stage \in {"intent", "cancel", "withdraw"} => proc[c].told \in {"code", "none"},
         stage \in {"authorize", "validate", "lock", "save"} => proc[c].told \in Accounts,
         stage \in {"validate", "lock", "save"} => people' = c /\ Current(F(c)),
         stage \in {"lock", "save"} => config[F(c)] # None
  PROVE  Good
<1>1. /\ OnlyOf(c) /\ proc' \in [Procs -> Request] /\ proc'[c].at = stage
      /\ proc'[c].flow = F(c) /\ proc'[c].doomed = {}
      /\ stage \notin Resting => proc'[c].told = proc[c].told
  BY GoIs, FlowsAre DEF Stages
<1>2. Knows(c) /\ c \notin Flows /\ c \in Procs
  BY FlowsAre DEF IInv
<1>3. F(c) \in Flows /\ proc[F(c)].at = "answered" /\ F(c) # c
  BY <1>2 DEF Knows, F
<1>4. Knows(c)'
  <2>1. proc'[F(c)].at = "answered"
    BY <1>1, <1>3, FlowsAre DEF OnlyOf
  <2> QED
    BY <1>1, <1>2, <1>3, <2>1 DEF Knows, Quietly, Current, Resting, F
<1>5. HasConsumed(c)' <=> HasConsumed(c)
  BY <1>1 DEF HasConsumed, Consuming
<1>6. ~WillDiscard(c) /\ Created(c)'
  BY <1>1, <1>2 DEF WillDiscard, Created, CallbackStages, Consuming, Resting
<1> QED
  BY <1>1, <1>2, <1>4, <1>5, <1>6, QuietKeeps DEF F

\* A start of a flow from one stage to another.
LEMMA StartGoes ==
  ASSUME IInv, NEW f \in Flows, OnlyOf(f), proc' \in [Procs -> Request],
         proc[f].doomed = {}, proc'[f].doomed = {}, proc'[f].flow = f,
         Quietly, UNCHANGED people, proc'[f].at \in StartStages \ {"idle"},
         proc[f].at # "answered", WillDiscard(f) => WillDiscard(f)',
         Created(f) => Created(f)'
  PROVE  Good
<1>1. f \in Procs /\ f \notin Callbacks
  BY FlowsAre
<1>2. Knows(f) /\ Knows(f)'
  BY <1>1 DEF IInv, Knows, StartStages, Resting
<1>3. HasConsumed(f)' <=> HasConsumed(f)
  BY <1>1 DEF HasConsumed
<1>4. proc'[f].flow = F(f) \/ proc[f].at = "idle"
  BY <1>2 DEF Knows, F
<1> QED
  BY <1>1, <1>2, <1>3, <1>4, QuietKeeps
-----------------------------------------------------------------------------
(* The callback until it has its lock.                                      *)

LEMMA SameIsQuiet ==
  ASSUME IInv, Same, UNCHANGED <<context, config, lapsed>>, intent' \subseteq Flows
  PROVE  Quietly /\ UNCHANGED people
BY DEF IInv, TypeOK, Same, quiet, world, Quietly

LEMMA ConsumeIntentKeeps ==
  ASSUME IInv, NEW c \in Callbacks, ConsumeIntent(c)
  PROVE  Good
<1>1. proc[c].at = "intent" /\ proc[c].doomed = {} /\ proc[c].told \in {"code", "none"}
  BY FlowsAre DEF ConsumeIntent, At, IInv, Knows
<1>2. PICK stage \in {"admit", "cancel", "ended"} : Go(c, stage)
  BY DEF ConsumeIntent
<1>3. Quietly /\ UNCHANGED people
  BY SameIsQuiet DEF ConsumeIntent, IInv, TypeOK
<1> QED
  BY <1>1, <1>2, <1>3, CallbackGoes DEF CallbackStages, Consuming, Resting

LEMMA AdmitKeeps ==
  ASSUME IInv, NEW c \in Callbacks, Admit(c)
  PROVE  Good
<1>1. proc[c].at = "admit" /\ proc[c].doomed = {}
  BY DEF Admit, At
<1>2. PICK stage \in {"actor", "ended"} : Go(c, stage)
  BY DEF Admit
<1>3. Quietly /\ UNCHANGED people
  BY SameIsQuiet DEF Admit, IInv, TypeOK, transactions
<1> QED
  BY <1>1, <1>2, <1>3, CallbackGoes DEF CallbackStages, Consuming, Resting

LEMMA RevalidateActorKeeps ==
  ASSUME IInv, NEW c \in Callbacks, RevalidateActor(c)
  PROVE  Good
<1>1. proc[c].at = "actor" /\ proc[c].doomed = {}
  BY DEF RevalidateActor, At
<1>2. PICK stage \in {"handle", "ended"} : Go(c, stage)
  BY DEF RevalidateActor
<1>3. Quietly /\ UNCHANGED people
  BY SameIsQuiet DEF RevalidateActor, IInv, TypeOK, transactions
<1> QED
  BY <1>1, <1>2, <1>3, CallbackGoes DEF CallbackStages, Consuming, Resting

LEMMA LoadConfigurationKeeps ==
  ASSUME IInv, NEW c \in Callbacks, LoadConfiguration(c)
  PROVE  Good
<1>1. proc[c].at = "load" /\ proc[c].doomed = {}
  BY DEF LoadConfiguration, At
<1>2. PICK stage \in {"exchange", "drop"} : Go(c, stage)
  BY DEF LoadConfiguration
<1>3. Quietly /\ UNCHANGED people
  BY SameIsQuiet DEF LoadConfiguration, IInv, TypeOK, transactions
<1> QED
  BY <1>1, <1>2, <1>3, CallbackGoes DEF CallbackStages, Consuming, Resting

\* What a callback knows once it runs.
LEMMA CallbackIs ==
  ASSUME IInv, NEW c \in Callbacks, proc[c].at # "idle"
  PROVE  /\ c \in Procs /\ c \notin Flows /\ proc[c] \in Request /\ proc[c].at \in CallbackStages
         /\ F(c) \in Flows /\ F(c) # c /\ proc[F(c)].at = "answered" /\ Created(F(c)) /\ Created(c)
         /\ ~WillDiscard(c)
<1>1. c \in Procs /\ c \notin Flows /\ Knows(c) /\ proc[c] \in Request
  BY FlowsAre DEF IInv, TypeOK
<1> QED
  BY <1>1, FlowsAre DEF Knows, F, Created, CallbackStages, Consuming, Resting, WillDiscard

LEMMA ExchangeKeeps ==
  ASSUME IInv, NEW c \in Callbacks, Exchange(c)
  PROVE  Good
<1>1. proc[c].at = "exchange" /\ proc[c].doomed = {}
  BY DEF Exchange, At
<1>2. Quietly /\ UNCHANGED people
  BY SameIsQuiet DEF Exchange, IInv, TypeOK, transactions
<1>3. CASE Go(c, "drop")
  BY <1>1, <1>2, <1>3, CallbackGoes DEF CallbackStages, Consuming, Resting
<1>4. ASSUME NEW a \in Accounts, proc' = Attached(c, a) PROVE Good
  <2>1. /\ c \in Procs /\ proc[c] \in Request /\ proc \in [Procs -> Request] /\ ~WillDiscard(c)
        /\ F(c) \in Flows /\ F(c) # c /\ proc[F(c)].at = "answered" /\ Knows(c)
        /\ Flows \subseteq Procs /\ c \notin Flows
    BY <1>1, CallbackIs, FlowsAre DEF IInv, TypeOK
  <2> DEFINE new == [proc[c] EXCEPT !.at = "authorize", !.told = a]
  <2>2. /\ new \in Request /\ new.at = "authorize" /\ new.told = a /\ new.flow = F(c)
        /\ new.doomed = {}
    BY <1>1, <2>1 DEF Request, Told, CallbackStages, Consuming, F
  <2>3. proc' = [proc EXCEPT ![c] = new]
    BY <1>4 DEF Attached
  <2> HIDE DEF new
  <2>4. /\ OnlyOf(c) /\ proc' \in [Procs -> Request] /\ proc'[c] = new
        /\ proc'[F(c)].at = "answered"
    BY <2>1, <2>2, <2>3 DEF OnlyOf
  <2>5. Knows(c)'
    BY <2>1, <2>2, <2>4 DEF Knows, F, CallbackStages, Consuming, Resting
  <2>6. /\ HasConsumed(c)' <=> HasConsumed(c)
        /\ Created(c)'
    BY <1>1, <2>2, <2>4 DEF HasConsumed, Created
  <2> QED
    BY <1>1, <1>2, <2>1, <2>2, <2>4, <2>5, <2>6, QuietKeeps
<1> QED
  BY <1>3, <1>4 DEF Exchange

LEMMA AuthorizeKeeps ==
  ASSUME IInv, NEW c \in Callbacks, Authorize(c)
  PROVE  Good
<1>1. proc[c].at = "authorize" /\ proc[c].doomed = {} /\ people = None
  BY DEF Authorize, At
<1>2. proc[c].told \in Accounts
  BY <1>1, FlowsAre DEF IInv, Knows
<1>3. Quietly
  BY FlowsAre DEF Authorize, IInv, TypeOK, transactions, quiet, world, Quietly
<1>4. \/ Go(c, "validate") /\ people' = c /\ Current(F(c))
      \/ Go(c, "drop") /\ people' = people
  BY DEF Authorize, StillCurrent
<1>5. CASE Go(c, "validate") /\ people' = c /\ Current(F(c))
  BY <1>1, <1>2, <1>3, <1>5, CallbackGoes DEF CallbackStages, Consuming, Resting
<1>6. CASE Go(c, "drop") /\ people' = people
  BY <1>1, <1>3, <1>6, CallbackGoes DEF CallbackStages, Consuming, Resting
<1> QED
  BY <1>4, <1>5, <1>6

LEMMA ValidateKeeps ==
  ASSUME IInv, NEW c \in Callbacks, Validate(c)
  PROVE  Good
<1>1. proc[c].at = "validate" /\ proc[c].doomed = {}
  BY DEF Validate, At
<1>2. proc[c].told \in Accounts /\ people = c /\ Current(F(c))
  BY <1>1, FlowsAre DEF IInv, Knows, F
<1>3. Quietly
  BY FlowsAre DEF Validate, Leave, IInv, TypeOK, transactions, quiet, world, Quietly
<1>4. \/ Go(c, "lock") /\ people' = people /\ config[F(c)] # None
      \/ Go(c, "drop")
  BY DEF Validate, Loads, Leave
<1>5. CASE Go(c, "lock") /\ people' = people /\ config[F(c)] # None
  BY <1>1, <1>2, <1>3, <1>5, CallbackGoes DEF CallbackStages, Consuming, Resting
<1>6. CASE Go(c, "drop")
  BY <1>1, <1>2, <1>3, <1>6, CallbackGoes DEF CallbackStages, Consuming, Resting
<1> QED
  BY <1>4, <1>5, <1>6

LEMMA EnterLockKeeps ==
  ASSUME IInv, NEW c \in Callbacks, EnterLock(c)
  PROVE  Good
<1>1. proc[c].at = "lock" /\ proc[c].doomed = {}
  BY DEF EnterLock, At
<1>2. proc[c].told \in Accounts /\ people = c /\ Current(F(c)) /\ config[F(c)] # None
  BY <1>1, FlowsAre DEF IInv, Knows, F
<1>3. Quietly
  BY FlowsAre DEF EnterLock, Leave, IInv, TypeOK, transactions, quiet, world, Quietly
<1>4. \/ Go(c, "save") /\ people' = people
      \/ Go(c, "drop")
  BY DEF EnterLock, Leave
<1>5. CASE Go(c, "save") /\ people' = people
  BY <1>1, <1>2, <1>3, <1>5, CallbackGoes DEF CallbackStages, Consuming, Resting
<1>6. CASE Go(c, "drop")
  BY <1>1, <1>2, <1>3, <1>6, CallbackGoes DEF CallbackStages, Consuming, Resting
<1> QED
  BY <1>4, <1>5, <1>6
-----------------------------------------------------------------------------
(* The start of a flow.                                                     *)

\* What a start knows once it runs.
LEMMA StartIs ==
  ASSUME IInv, NEW f \in Flows, proc[f].at # "idle"
  PROVE  /\ f \in Procs /\ f \notin Callbacks /\ proc[f] \in Request /\ proc[f].at \in StartStages
         /\ F(f) = f /\ ~HasConsumed(f)
<1>1. f \in Procs /\ f \notin Callbacks /\ Knows(f) /\ proc[f] \in Request
  BY FlowsAre DEF IInv, TypeOK
<1> QED
  BY <1>1 DEF Knows, F, HasConsumed

LEMMA StartKeeps ==
  ASSUME IInv, NEW f \in Flows, Start(f)
  PROVE  Good
<1>1. f \in Procs /\ proc[f].at = "idle" /\ proc[f].doomed = {} /\ proc \in [Procs -> Request]
  BY FlowsAre DEF Start, IInv, TypeOK, Knows, Resting
<1> DEFINE new == [Idle EXCEPT !.at = "start", !.flow = f]
<1>2. new \in Request /\ new.at = "start" /\ new.flow = f /\ new.doomed = {}
  BY DEF Idle, Request, StartStages, Resting, Told
<1>3. proc' = [proc EXCEPT ![f] = new]
  BY DEF Start
<1> HIDE DEF new
<1>4. OnlyOf(f) /\ proc' \in [Procs -> Request] /\ proc'[f] = new
  BY <1>1, <1>2, <1>3 DEF OnlyOf
<1>5. Quietly /\ UNCHANGED people
  BY SameIsQuiet DEF Start, IInv, TypeOK, LiveIntents
<1>6. ~WillDiscard(f) /\ ~Created(f)
  BY <1>1 DEF WillDiscard, Created
<1> QED
  BY <1>1, <1>2, <1>4, <1>5, <1>6, StartGoes DEF StartStages, Resting

LEMMA RememberKeeps ==
  ASSUME IInv, NEW f \in Flows, Remember(f)
  PROVE  Good
<1>1. proc[f].at = "remember" /\ proc[f].doomed = {}
  BY DEF Remember, At
<1>2. /\ f \in Procs /\ proc \in [Procs -> Request] /\ proc[f] \in Request /\ F(f) = f
      /\ ~WillDiscard(f)
  BY <1>1, StartIs DEF IInv, TypeOK, WillDiscard
<1>3. Quietly /\ UNCHANGED people
  BY SameIsQuiet DEF Remember, IInv, TypeOK, LiveIntents
<1>4. CASE Go(f, "answered")
  <2>1. OnlyOf(f) /\ proc' \in [Procs -> Request]
        /\ proc'[f].at = "answered" /\ proc'[f].flow = f /\ proc'[f].doomed = {}
    BY <1>2, <1>4, GoIs DEF Stages, StartStages, Resting
  <2>2. Created(f)'
    BY <2>1 DEF Created
  <2> QED
    BY <1>1, <1>2, <1>3, <2>1, <2>2, StartGoes DEF StartStages, Resting
<1>5. ASSUME NEW told \in {"mismatch", "capacity"},
             proc' = [proc EXCEPT ![f].at = "cancel", ![f].told = told]
      PROVE  Good
  <2> DEFINE new == [proc[f] EXCEPT !.at = "cancel", !.told = told]
  <2>1. new \in Request /\ new.at = "cancel" /\ new.flow = f /\ new.doomed = {}
    BY <1>1, <1>2 DEF Request, Told, StartStages, F
  <2>2. proc' = [proc EXCEPT ![f] = new]
    BY <1>5
  <2> HIDE DEF new
  <2>3. OnlyOf(f) /\ proc' \in [Procs -> Request] /\ proc'[f] = new
    BY <1>2, <2>1, <2>2 DEF OnlyOf
  <2>4. Created(f)'
    BY <2>1, <2>3 DEF Created
  <2> QED
    BY <1>1, <1>2, <1>3, <2>1, <2>3, <2>4, StartGoes DEF StartStages, Resting
<1> QED
  BY <1>4, <1>5 DEF Remember

-----------------------------------------------------------------------------
(* Sweeps.                                                                  *)

LEMMA PurgedIs ==
  ASSUME IInv
  PROVE  /\ Purged \in [Flows -> Profiles \cup {None}] /\ Expired \subseteq Flows
         /\ \A f \in Flows : Purged[f] = IF f \in Expired THEN None ELSE context[f]
BY DEF IInv, TypeOK, Purged, Expired, Contexts

LEMMA SweepKeeps ==
  ASSUME IInv, NEW p \in Procs, OnlyOf(p), proc' \in [Procs -> Request],
         context' = Purged, proc'[p].doomed = Expired, UNCHANGED <<config, lapsed>>, Same,
         intent' \subseteq Flows, proc[p].doomed = {}, proc'[p].flow = F(p) \/ proc[p].at = "idle",
         Knows(p)', ~HasConsumed(p), ~HasConsumed(p)', WillDiscard(p) => WillDiscard(p)',
         proc[p].at # "answered", Created(p) => Created(p)'
  PROVE  Good
<1>1. /\ TypeOK' /\ ConfigurationKept'
  BY PurgedIs DEF IInv, TypeOK, ConfigurationKept, Same, quiet, world
<1>2. Plays(p)
  BY PurgedIs DEF Plays, Same
<1>3. HandsOver(p)
  BY PurgedIs DEF HandsOver, OwnedBy, F, WillDiscard, HasConsumed
<1>4. Imports /\ UNCHANGED principal
  BY DEF Imports, Same, quiet, world
<1> QED
  BY <1>1, <1>2, <1>3, <1>4, StepKeeps DEF Good

\* A request that sweeps keeps its flow.
LEMMA SweepAndGoIs ==
  ASSUME IInv, NEW p \in Procs, NEW stage \in Stages, SweepAndGo(p, stage)
  PROVE  /\ OnlyOf(p) /\ proc' \in [Procs -> Request] /\ context' = Purged
         /\ proc'[p].at = stage /\ proc'[p].flow = F(p) /\ proc'[p].doomed = Expired
         /\ proc'[p].told = proc[p].told
<1>1. proc \in [Procs -> Request] /\ proc[p] \in Request
  BY DEF IInv, TypeOK
<1> DEFINE new == [proc[p] EXCEPT !.at = stage, !.doomed = Expired]
<1>2. /\ new \in Request /\ new.at = stage /\ new.flow = F(p) /\ new.doomed = Expired
      /\ new.told = proc[p].told
  BY <1>1, PurgedIs DEF Request, Stages, F
<1>3. proc' = [proc EXCEPT ![p] = new]
  BY DEF SweepAndGo, ToRemove
<1> HIDE DEF new
<1> QED
  BY <1>1, <1>2, <1>3 DEF OnlyOf, SweepAndGo

LEMMA SweepAtStartKeeps ==
  ASSUME IInv, NEW f \in Flows, SweepAtStart(f)
  PROVE  Good
<1>1. proc[f].at = "start" /\ proc[f].doomed = {} /\ intent' \subseteq Flows
  BY DEF SweepAtStart, At, IInv, TypeOK
<1>2. f \in Procs /\ f \notin Callbacks /\ F(f) = f /\ ~HasConsumed(f)
  BY <1>1, StartIs
<1>3. /\ OnlyOf(f) /\ proc' \in [Procs -> Request] /\ context' = Purged
      /\ proc'[f].at = "prepare" /\ proc'[f].flow = f /\ proc'[f].doomed = Expired
  BY <1>2, SweepAndGoIs DEF SweepAtStart, Stages, StartStages
<1>4. Knows(f)' /\ ~HasConsumed(f)' /\ ~WillDiscard(f) /\ ~Created(f)
  BY <1>1, <1>2, <1>3 DEF Knows, StartStages, Resting, HasConsumed, WillDiscard, Created
<1> QED
  BY <1>1, <1>2, <1>3, <1>4, SweepKeeps DEF SweepAtStart

LEMMA CancelKeeps ==
  ASSUME IInv, NEW p \in Procs, Cancel(p)
  PROVE  Good
<1>1. proc[p].at = "cancel" /\ proc[p].doomed = {} /\ intent' \subseteq Flows
  BY DEF Cancel, At, IInv, TypeOK
<1>2. /\ OnlyOf(p) /\ proc' \in [Procs -> Request] /\ context' = Purged
      /\ proc'[p].at = "withdraw" /\ proc'[p].flow = F(p) /\ proc'[p].doomed = Expired
      /\ proc'[p].told = proc[p].told
  BY SweepAndGoIs DEF Cancel, Stages, StartStages
<1>3. ~HasConsumed(p) /\ ~HasConsumed(p)' /\ (WillDiscard(p) => WillDiscard(p)') /\ Created(p)'
  BY <1>1, <1>2 DEF HasConsumed, WillDiscard, Created
<1>4. CASE p \in Flows
  <2>1. p \notin Callbacks /\ F(p) = p
    BY <1>1, <1>4, StartIs
  <2>2. Knows(p)'
    BY <1>2, <1>4, <2>1 DEF Knows, StartStages, Resting
  <2> QED
    BY <1>1, <1>2, <1>3, <2>2, SweepKeeps DEF Cancel
<1>5. CASE p \in Callbacks
  <2>1. /\ p \notin Flows /\ F(p) \in Flows /\ F(p) # p /\ proc[F(p)].at = "answered"
        /\ F(p) \in Procs /\ proc[p].told \in {"code", "none"}
    BY <1>1, <1>5, CallbackIs, FlowsAre DEF IInv, Knows
  <2>2. proc'[F(p)].at = "answered"
    BY <1>2, <2>1 DEF OnlyOf
  <2>3. Knows(p)'
    BY <1>2, <1>5, <2>1, <2>2 DEF Knows, CallbackStages, Consuming, Resting
  <2> QED
    BY <1>1, <1>2, <1>3, <2>3, SweepKeeps DEF Cancel
<1> QED
  BY <1>4, <1>5 DEF Procs

LEMMA SweepAtCallbackKeeps ==
  ASSUME IInv, NEW c \in Callbacks, SweepAtCallback(c)
  PROVE  Good
<1>1. proc[c].at = "handle" /\ proc[c].doomed = {} /\ intent' \subseteq Flows
  BY DEF SweepAtCallback, At, IInv, TypeOK
<1>2. /\ c \in Procs /\ c \notin Flows /\ F(c) \in Flows /\ F(c) # c /\ proc[F(c)].at = "answered"
      /\ F(c) \in Procs /\ ~WillDiscard(c)
  BY <1>1, CallbackIs, FlowsAre
<1>3. /\ OnlyOf(c) /\ proc' \in [Procs -> Request] /\ context' = Purged
      /\ proc'[c].at = "consume" /\ proc'[c].flow = F(c) /\ proc'[c].doomed = Expired
  BY <1>2, SweepAndGoIs DEF SweepAtCallback, Stages, CallbackStages
<1>4. proc'[F(c)].at = "answered"
  BY <1>2, <1>3 DEF OnlyOf
<1>5. Knows(c)' /\ ~HasConsumed(c) /\ ~HasConsumed(c)' /\ Created(c)'
  BY <1>1, <1>2, <1>3, <1>4 DEF Knows, CallbackStages, Consuming, Resting, HasConsumed, Created
<1> QED
  BY <1>1, <1>2, <1>3, <1>5, SweepKeeps DEF SweepAtCallback

LEMMA ArriveKeeps ==
  ASSUME IInv, NEW c \in Callbacks, NEW f \in Flows, Arrive(c, f)
  PROVE  Good
<1>1. /\ c \in Procs /\ c \notin Flows /\ f \in Procs /\ f # c /\ proc[f].at = "answered"
      /\ proc[c].at = "idle" /\ proc[c].doomed = {} /\ proc \in [Procs -> Request]
      /\ intent' \subseteq Flows
  BY FlowsAre DEF Arrive, IInv, TypeOK, Knows, Resting, LiveIntents
<1>2. PICK told \in {"code", "none"} :
        proc' = [proc EXCEPT ![c] = [Idle EXCEPT !.at = "intent", !.flow = f, !.doomed = ToRemove,
                                                !.told = told]]
  BY DEF Arrive
<1>3. PICK swept : swept = Expired
  OBVIOUS
<1> DEFINE new == [Idle EXCEPT !.at = "intent", !.flow = f, !.doomed = swept, !.told = told]
<1>4. new \in Request /\ new.at = "intent" /\ new.flow = f /\ new.doomed = swept /\ new.told = told
  BY <1>3, PurgedIs DEF Idle, Request, CallbackStages, Told
<1>5. proc' = [proc EXCEPT ![c] = new]
  BY <1>2, <1>3 DEF ToRemove
<1> HIDE DEF new
<1>6. /\ OnlyOf(c) /\ proc' \in [Procs -> Request] /\ proc'[c] = new /\ proc'[f] = proc[f]
  BY <1>1, <1>4, <1>5 DEF OnlyOf
<1>7. Knows(c)' /\ ~HasConsumed(c) /\ ~HasConsumed(c)' /\ ~WillDiscard(c) /\ ~Created(c)
  BY <1>1, <1>4, <1>6 DEF Knows, CallbackStages, Consuming, Resting, HasConsumed, WillDiscard, Created
<1>8. context' = Purged /\ UNCHANGED <<config, lapsed>> /\ Same
  BY DEF Arrive
<1> QED
  BY <1>1, <1>3, <1>4, <1>6, <1>7, <1>8, SweepKeeps
-----------------------------------------------------------------------------
(* Contexts and configurations that are made, consumed and removed.         *)

\* A removal spares what a Credential refers to, and only touches one flow.
LEMMA RemovedIs ==
  ASSUME IInv, NEW f \in Flows, config' = Removed(f), UNCHANGED cred
  PROVE  /\ config' \in [Flows -> Profiles \cup {None}] /\ ConfigurationKept'
         /\ \A g \in Flows \ {f} : config'[g] = config[g]
         /\ config'[f] = None \/ f \in Referenced'
<1>1. config' = IF f \in Referenced THEN config ELSE [config EXCEPT ![f] = None]
  BY DEF Removed
<1>2. \A a \in Accounts : cred[a].flow # None => cred[a].flow \in Referenced
  BY DEF Referenced
<1> QED
  BY <1>1, <1>2, FlowsAre DEF IInv, TypeOK, ConfigurationKept, CredentialOf, Referenced

LEMMA RemoveDoomedKeeps ==
  ASSUME IInv, NEW p \in Procs, RemoveDoomed(p)
  PROVE  Good
<1>1. PICK f \in proc[p].doomed : /\ config' = Removed(f)
                                  /\ proc' = [proc EXCEPT ![p].doomed = @ \ {f}]
  BY DEF RemoveDoomed
<1>2. /\ proc \in [Procs -> Request] /\ proc[p] \in Request /\ f \in Flows /\ Knows(p) /\ OneOwner(p)
      /\ proc[p].doomed # {}
  BY <1>1 DEF IInv, TypeOK, Request
<1> DEFINE new == [proc[p] EXCEPT !.doomed = @ \ {f}]
<1>3. /\ new \in Request /\ new.at = proc[p].at /\ new.flow = proc[p].flow /\ new.told = proc[p].told
      /\ new.doomed = proc[p].doomed \ {f}
  BY <1>2 DEF Request
<1>4. proc' = [proc EXCEPT ![p] = new]
  BY <1>1
<1> HIDE DEF new
<1>5. OnlyOf(p) /\ proc' \in [Procs -> Request] /\ proc'[p] = new
  BY <1>2, <1>3, <1>4 DEF OnlyOf
<1>6. /\ UNCHANGED <<context, intent, lapsed, provider, principal, cred, changes, people, binding>>
  BY DEF RemoveDoomed, Same, quiet, world
<1>7. /\ config' \in [Flows -> Profiles \cup {None}] /\ ConfigurationKept'
      /\ \A g \in Flows \ {f} : config'[g] = config[g]
      /\ config'[f] = None \/ f \in Referenced'
  BY <1>1, <1>2, <1>6, RemovedIs
<1>8. Knows(p)'
  <2>1. p \in Callbacks /\ proc[p].at # "idle" =>
          proc[p].flow \in Flows /\ proc'[proc[p].flow].at = "answered"
    BY <1>2, <1>3, <1>5, FlowsAre DEF Knows, OnlyOf
  <2>2. ASSUME proc[p].at \in {"lock", "save"} PROVE config'[proc[p].flow] # None
    <3>1. HasConsumed(p) /\ F(p) \notin proc[p].doomed /\ F(p) \in Flows /\ config[F(p)] # None
      BY <1>2, <2>2, FlowsAre DEF Knows, OneOwner, HasConsumed, StartStages, Resting, Procs, F
    <3> QED
      BY <1>2, <1>7, <3>1 DEF F
  <2> QED
    BY <1>2, <1>3, <1>5, <1>6, <2>1, <2>2 DEF Knows, Current
<1>9. Plays(p)
  BY <1>2, <1>3, <1>5, <1>6, <1>7 DEF Plays, HasConsumed, F, Created, Knows
<1>10. HandsOver(p)
  BY <1>2, <1>3, <1>5, <1>6, <1>7 DEF HandsOver, OwnedBy, HasConsumed, WillDiscard, F
<1>11. TypeOK' /\ Imports
  BY <1>5, <1>6, <1>7 DEF IInv, TypeOK, Imports
<1> QED
  BY <1>5, <1>6, <1>7, <1>8, <1>9, <1>10, <1>11, StepKeeps DEF Good

\* What a request that goes on keeps: for one that came back, its flow answered.
LEMMA GoneKnows ==
  ASSUME IInv, NEW p \in Procs, proc[p].at # "idle", OnlyOf(p), proc'[p].flow = F(p),
         proc'[p].at \in {"ended", "drop"},
         proc'[p].at = "ended" => proc'[p].doomed = {}
  PROVE  Knows(p)'
<1>1. Knows(p)
  BY DEF IInv
<1>2. p \in Callbacks => /\ F(p) \in Flows /\ F(p) # p /\ F(p) \in Procs /\ proc[F(p)].at = "answered"
  BY CallbackIs, FlowsAre
<1> QED
  BY <1>1, <1>2 DEF Knows, OnlyOf, F, StartStages, CallbackStages, Consuming, Resting

LEMMA DropKeeps ==
  ASSUME IInv, NEW p \in Procs, Drop(p)
  PROVE  Good
<1>1. proc[p].at = "drop" /\ proc[p].doomed = {} /\ config' = Removed(F(p))
  BY DEF Drop, At
<1>2. F(p) \in Flows
  BY <1>1, CallbackIs, StartIs DEF Procs
<1>3. /\ OnlyOf(p) /\ proc' \in [Procs -> Request]
      /\ proc'[p].at = "ended" /\ proc'[p].flow = F(p) /\ proc'[p].doomed = {}
  BY GoIs DEF Drop, Stages, StartStages, Resting
<1>4. UNCHANGED <<context, intent, lapsed, provider, principal, cred, changes, people, binding>>
  BY DEF Drop, Same, quiet, world
<1>5. /\ config' \in [Flows -> Profiles \cup {None}] /\ ConfigurationKept'
      /\ \A g \in Flows \ {F(p)} : config'[g] = config[g]
      /\ config'[F(p)] = None \/ F(p) \in Referenced'
  BY <1>1, <1>2, <1>4, RemovedIs
<1>6. Knows(p)'
  BY <1>1, <1>3, GoneKnows
<1>7. Plays(p)
  BY <1>1, <1>3, <1>4, <1>5 DEF Plays, HasConsumed, Created
<1>8. HandsOver(p)
  BY <1>1, <1>4, <1>5 DEF HandsOver, OwnedBy
<1>9. TypeOK' /\ Imports
  BY <1>3, <1>4, <1>5 DEF IInv, TypeOK, Imports
<1> QED
  BY <1>3, <1>4, <1>5, <1>6, <1>7, <1>8, <1>9, StepKeeps DEF Good

LEMMA PrepareKeeps ==
  ASSUME IInv, NEW f \in Flows, Prepare(f)
  PROVE  Good
<1>1. proc[f].at = "prepare" /\ proc[f].doomed = {}
  BY DEF Prepare, At
<1>2. /\ f \in Procs /\ f \notin Callbacks /\ proc \in [Procs -> Request] /\ proc[f] \in Request
      /\ F(f) = f /\ ~HasConsumed(f) /\ ~WillDiscard(f) /\ ~Created(f)
  BY <1>1, StartIs DEF IInv, TypeOK, WillDiscard, Created
<1>3. UNCHANGED <<context, intent, lapsed, provider, principal, cred, changes, people, binding>>
  BY DEF Prepare, Same, quiet, world
<1>4. CASE config' = config /\ Go(f, "ended")
  <2>1. /\ OnlyOf(f) /\ proc' \in [Procs -> Request]
        /\ proc'[f].at = "ended" /\ proc'[f].flow = f /\ proc'[f].doomed = {}
    BY <1>2, <1>4, GoIs DEF Stages, StartStages, Resting
  <2>2. Quietly /\ UNCHANGED people
    BY <1>3, <1>4 DEF Quietly, IInv, TypeOK
  <2> QED
    BY <1>1, <1>2, <2>1, <2>2, StartGoes DEF StartStages, Resting
<1>5. CASE /\ provider # None /\ config' = Prepared(f)
           /\ proc' = [proc EXCEPT ![f].at = "context", ![f].profile = provider]
  <2> DEFINE new == [proc[f] EXCEPT !.at = "context", !.profile = provider]
  <2>1. new \in Request /\ new.at = "context" /\ new.flow = f /\ new.doomed = {}
    BY <1>1, <1>2 DEF Request, StartStages, F, IInv, TypeOK
  <2>2. proc' = [proc EXCEPT ![f] = new]
    BY <1>5
  <2> HIDE DEF new
  <2>3. OnlyOf(f) /\ proc' \in [Procs -> Request] /\ proc'[f] = new
    BY <1>2, <2>1, <2>2 DEF OnlyOf
  <2>4. /\ config' \in [Flows -> Profiles \cup {None}]
        /\ \A g \in Flows : config[g] # None => config'[g] # None
    BY <1>5 DEF Prepared, IInv, TypeOK
  <2>5. TypeOK' /\ ConfigurationKept' /\ Imports
    BY <1>3, <2>3, <2>4 DEF IInv, TypeOK, ConfigurationKept, CredentialOf, Imports
  <2>6. Knows(f)' /\ ~HasConsumed(f)'
    BY <1>2, <2>1, <2>3 DEF Knows, StartStages, Resting, HasConsumed
  <2>7. Plays(f) /\ HandsOver(f)
    BY <1>1, <1>2, <1>3, <2>1, <2>3, <2>4, <2>6 DEF Plays, HandsOver, OwnedBy
  <2> QED
    BY <1>2, <1>3, <2>3, <2>5, <2>6, <2>7, StepKeeps DEF Good
<1> QED
  BY <1>4, <1>5 DEF Prepare

\* A start that makes or discards its context.
LEMMA ContextGoes ==
  ASSUME IInv, NEW f \in Flows, NEW stage \in {"ask", "remember", "drop"}, Go(f, stage),
         proc[f].at \in {"context", "ask"}, proc[f].doomed = {},
         context' \in [Flows -> Profiles \cup {None}],
         \A g \in Flows \ {f} : context[g] = None => context'[g] = None,
         proc[f].at = "ask" /\ context[f] = None => context'[f] = None,
         UNCHANGED <<intent, config, lapsed>>, Same, HandsOver(f)
  PROVE  Good
<1>1. /\ f \in Procs /\ f \notin Callbacks /\ F(f) = f /\ ~HasConsumed(f)
      /\ proc[f].at = "context" => ~Created(f)
  BY StartIs DEF Created
<1>2. /\ OnlyOf(f) /\ proc' \in [Procs -> Request]
      /\ proc'[f].at = stage /\ proc'[f].flow = f /\ proc'[f].doomed = {}
  BY <1>1, GoIs DEF Stages, StartStages, Resting
<1>3. TypeOK' /\ ConfigurationKept' /\ Imports /\ UNCHANGED <<people, principal>>
  BY <1>2 DEF IInv, TypeOK, ConfigurationKept, Imports, Same, quiet, world
<1>4. Knows(f)' /\ ~HasConsumed(f)' /\ Created(f)'
  BY <1>1, <1>2 DEF Knows, StartStages, Resting, HasConsumed, Created
<1>5. Plays(f)
  BY <1>1, <1>2, <1>3, <1>4 DEF Plays
<1> QED
  BY <1>1, <1>2, <1>3, <1>4, <1>5, StepKeeps DEF Good

LEMMA CreateContextKeeps ==
  ASSUME IInv, NEW f \in Flows, CreateContext(f)
  PROVE  Good
<1>1. proc[f].at = "context" /\ proc[f].doomed = {} /\ UNCHANGED <<intent, config, lapsed>> /\ Same
  BY DEF CreateContext, At
<1>2. HandsOver(f)
  BY DEF HandsOver, LetsGo
<1>3. proc[f].profile \in Profiles \cup {None}
  BY <1>1, StartIs DEF Request
<1>4. CASE context' = [Purged EXCEPT ![f] = proc[f].profile] /\ Go(f, "ask")
  <2>1. /\ context' \in [Flows -> Profiles \cup {None}]
        /\ \A g \in Flows \ {f} : context[g] = None => context'[g] = None
    BY <1>3, <1>4, PurgedIs
  <2> QED
    BY <1>1, <1>2, <1>4, <2>1, ContextGoes
<1>5. CASE context' = Purged /\ Go(f, "drop")
  <2>1. /\ context' \in [Flows -> Profiles \cup {None}]
        /\ \A g \in Flows \ {f} : context[g] = None => context'[g] = None
    BY <1>5, PurgedIs
  <2> QED
    BY <1>1, <1>2, <1>5, <2>1, ContextGoes
<1> QED
  BY <1>4, <1>5 DEF CreateContext

LEMMA AskKeeps ==
  ASSUME IInv, NEW f \in Flows, Ask(f)
  PROVE  Good
<1>1. proc[f].at = "ask" /\ proc[f].doomed = {} /\ UNCHANGED <<intent, config, lapsed>> /\ Same
  BY DEF Ask, At
<1>2. f \in Procs /\ F(f) = f /\ ~HasConsumed(f) /\ ~WillDiscard(f)
  BY <1>1, StartIs DEF WillDiscard
<1>3. context \in [Flows -> Profiles \cup {None}]
  BY DEF IInv, TypeOK
<1>4. CASE context' = context /\ Go(f, "remember")
  <2>1. HandsOver(f)
    BY <1>1, <1>2, <1>4 DEF HandsOver, OwnedBy
  <2> QED
    BY <1>1, <1>3, <1>4, <2>1, ContextGoes
<1>5. CASE context' = [context EXCEPT ![f] = None] /\ Go(f, "drop")
  <2>1. proc'[f].at = "drop" /\ proc'[f].flow = f
    BY <1>2, <1>5, GoIs DEF Stages, StartStages
  <2>2. HandsOver(f)
    BY <1>1, <1>2, <1>3, <1>5, <2>1 DEF HandsOver, OwnedBy, WillDiscard, F
  <2> QED
    BY <1>1, <1>3, <1>5, <2>2, ContextGoes
<1> QED
  BY <1>4, <1>5 DEF Ask

LEMMA ConsumedContext ==
  ASSUME IInv, NEW f \in Flows
  PROVE  /\ Consumed(f) \in [Flows -> Profiles \cup {None}]
         /\ \A g \in Flows \ {f} : Consumed(f)[g] = context[g]
         /\ Consumed(f)[f] = IF Matches(f) THEN None ELSE context[f]
BY DEF IInv, TypeOK, Consumed, Matches

\* Both that consume a context: the one that does not own it afterwards found it
\* expired or not there.
LEMMA ConsumesKeeps ==
  ASSUME IInv, NEW p \in Procs, NEW f \in Flows, F(p) = f, proc[p].doomed = {},
         OnlyOf(p), proc' \in [Procs -> Request], proc'[p].flow = f, proc'[p].doomed = {},
         UNCHANGED <<intent, config, lapsed>>, Same,
         context' = context \/ context' = Consumed(f),
         ~HasConsumed(p), Knows(p)', Created(p), Created(p)', proc[p].at # "answered",
         HasConsumed(p)' => Consumable(f) /\ context' = Consumed(f),
         context' # context => OwnedBy(p, f)' \/ ~Consumable(f),
         Matches(f) /\ f \in Lapsed("context") /\ context' = Consumed(f) => LetsGo,
         WillDiscard(p) => OwnedBy(p, f)'
  PROVE  Good
<1>1. /\ context' \in [Flows -> Profiles \cup {None}]
      /\ \A g \in Flows \ {f} : context'[g] = context[g]
      /\ context[f] = None => context'[f] = None
  BY ConsumedContext DEF IInv, TypeOK
<1>2. TypeOK' /\ ConfigurationKept' /\ Imports /\ UNCHANGED <<people, principal>>
  BY <1>1 DEF IInv, TypeOK, ConfigurationKept, Imports, Same, quiet, world
<1>3. Consumable(f) /\ context' = Consumed(f) => context[f] # None /\ context'[f] = None
  BY ConsumedContext DEF Consumable, Matches
<1>4. Plays(p)
  BY <1>1, <1>2, <1>3 DEF Plays, F
<1>5. HandsOver(p)
  <2> SUFFICES ASSUME NEW g \in Flows,
                      OwnedBy(p, g) \/ (context[g] # None /\ context'[g] = None)
               PROVE  OwnedBy(p, g)' \/ LetsGo
    BY DEF HandsOver
  <2>1. g = f
    BY <1>1 DEF OwnedBy
  <2>2. CASE OwnedBy(p, g)
    BY <2>1, <2>2 DEF OwnedBy
  <2>3. CASE context[g] # None /\ context'[g] = None
    <3>1. context' = Consumed(f) /\ context' # context /\ Matches(f)
      BY <2>1, <2>3, ConsumedContext
    <3> QED
      BY <2>1, <3>1 DEF Consumable
  <2> QED
    BY <2>2, <2>3
<1> QED
  BY <1>2, <1>4, <1>5, StepKeeps DEF Good

LEMMA WithdrawKeeps ==
  ASSUME IInv, NEW p \in Procs, Withdraw(p)
  PROVE  Good
<1>0. PICK f : f = F(p)
  OBVIOUS
<1>1. proc[p].at = "withdraw" /\ proc[p].doomed = {} /\ UNCHANGED <<intent, config, lapsed>> /\ Same
  BY DEF Withdraw, At
<1>2. /\ f \in Flows /\ Created(p) /\ ~HasConsumed(p) /\ Knows(p)
      /\ p \in Callbacks => p \notin Flows
  BY <1>0, <1>1, CallbackIs, StartIs, FlowsAre DEF Procs, Created, HasConsumed, IInv
<1>3. PICK stage \in {"drop", "ended"} :
        /\ Go(p, stage)
        /\ stage = "drop" <=> (provider # None /\ Consumable(f)) \/ proc[p].told = "mismatch"
        /\ context' = IF provider # None THEN Consumed(f) ELSE context
  BY <1>0 DEF Withdraw
<1>4. /\ OnlyOf(p) /\ proc' \in [Procs -> Request]
      /\ proc'[p].at = stage /\ proc'[p].flow = f /\ proc'[p].doomed = {}
  BY <1>0, <1>1, <1>3, GoIs DEF Stages, StartStages, Resting
<1>5. Knows(p)' /\ Created(p)'
  BY <1>0, <1>1, <1>4, GoneKnows DEF Created
<1>6. stage = "drop" => OwnedBy(p, f)'
  BY <1>2, <1>4, FlowsAre DEF OwnedBy, WillDiscard, HasConsumed, F, Procs
<1>7. WillDiscard(p) => stage = "drop"
  BY <1>1, <1>3 DEF WillDiscard
<1>8. HasConsumed(p)' => Consumable(f) /\ context' = Consumed(f)
  <2> SUFFICES ASSUME HasConsumed(p)' PROVE Consumable(f) /\ context' = Consumed(f)
    OBVIOUS
  <2>1. p \in Callbacks /\ stage = "drop"
    BY <1>4 DEF HasConsumed
  <2>2. proc[p].told # "mismatch"
    BY <1>1, <1>2, <2>1 DEF Knows
  <2> QED
    BY <1>3, <2>1, <2>2
<1>9. f \in Lapsed("context") => LetsGo
  BY <1>0 DEF LetsGo
<1>10. context' # context => OwnedBy(p, f)' \/ ~Consumable(f)
  BY <1>3, <1>6
<1>11. context' = context \/ context' = Consumed(f)
  BY <1>3
<1> QED
  BY <1>0, <1>1, <1>2, <1>4, <1>5, <1>6, <1>7, <1>8, <1>9, <1>10, <1>11, ConsumesKeeps

LEMMA ConsumeContextKeeps ==
  ASSUME IInv, NEW c \in Callbacks, ConsumeContext(c)
  PROVE  Good
<1>0. PICK f : f = F(c)
  OBVIOUS
<1>1. proc[c].at = "consume" /\ proc[c].doomed = {} /\ UNCHANGED <<intent, config, lapsed>> /\ Same
  BY DEF ConsumeContext, At
<1>2. /\ c \in Procs /\ c \notin Flows /\ f \in Flows /\ f # c /\ proc[f].at = "answered"
      /\ f \in Procs /\ Created(c) /\ ~HasConsumed(c) /\ ~WillDiscard(c)
      /\ proc \in [Procs -> Request] /\ proc[c] \in Request
  BY <1>0, <1>1, CallbackIs, FlowsAre DEF HasConsumed, IInv, TypeOK
<1>3. context' = context \/ context' = Consumed(f)
  BY <1>0 DEF ConsumeContext
<1>4. f \in Lapsed("context") => LetsGo
  BY <1>0, <1>2 DEF LetsGo
<1>5. CASE /\ provider # None /\ Consumable(f) /\ context' = Consumed(f)
           /\ proc' = [proc EXCEPT ![c].at = "load", ![c].profile = provider]
  <2> DEFINE new == [proc[c] EXCEPT !.at = "load", !.profile = provider]
  <2>1. new \in Request /\ new.at = "load" /\ new.flow = f /\ new.doomed = {}
    BY <1>0, <1>1, <1>2 DEF Request, CallbackStages, Consuming, F, IInv, TypeOK
  <2>2. proc' = [proc EXCEPT ![c] = new]
    BY <1>5
  <2> HIDE DEF new
  <2>3. OnlyOf(c) /\ proc' \in [Procs -> Request] /\ proc'[c] = new /\ proc'[f].at = "answered"
    BY <1>0, <1>2, <2>1, <2>2 DEF OnlyOf
  <2>4. Knows(c)' /\ Created(c)' /\ OwnedBy(c, f)'
    BY <1>0, <1>2, <2>1, <2>3 DEF Knows, Created, CallbackStages, Consuming, Resting, OwnedBy, HasConsumed, F
  <2> QED
    BY <1>0, <1>1, <1>2, <1>4, <1>5, <2>1, <2>3, <2>4, ConsumesKeeps
<1>6. CASE ~(provider # None /\ Consumable(f)) /\ Go(c, "ended")
  <2>1. /\ OnlyOf(c) /\ proc' \in [Procs -> Request]
        /\ proc'[c].at = "ended" /\ proc'[c].flow = f /\ proc'[c].doomed = {}
    BY <1>0, <1>2, <1>6, GoIs DEF Stages, StartStages, Resting
  <2>2. Knows(c)' /\ Created(c)' /\ ~HasConsumed(c)'
    BY <1>0, <1>1, <1>2, <2>1, GoneKnows DEF Created, HasConsumed
  <2>3. context' # context => ~Consumable(f)
    BY <1>0, <1>6 DEF ConsumeContext
  <2> QED
    BY <1>0, <1>1, <1>2, <1>3, <1>4, <2>1, <2>2, <2>3, ConsumesKeeps
<1> QED
  BY <1>0, <1>5, <1>6 DEF ConsumeContext

LEMMA SaveKeeps ==
  ASSUME IInv, NEW c \in Callbacks, Save(c)
  PROVE  Good
<1> DEFINE saved == [cred EXCEPT ![proc[c].told] = Imported(c)]
<1>1. proc[c].at = "save" /\ proc[c].doomed = {}
  BY DEF Save, At
<1>2. /\ c \in Procs /\ c \notin Flows /\ F(c) \in Flows /\ ~WillDiscard(c) /\ Knows(c)
      /\ Created(c) /\ HasConsumed(c) /\ F(c) # None
  BY <1>1, CallbackIs, FlowsAre DEF IInv, HasConsumed
<1>3. /\ proc[c].told \in Accounts /\ people = c /\ Current(F(c)) /\ config[F(c)] # None
  BY <1>1, <1>2 DEF Knows, F
<1>4. UNCHANGED <<context, intent, config, lapsed, provider, principal, changes>>
  BY DEF Save, transactions, world
<1>5. PICK stage \in {"ended", "drop"} :
        /\ Go(c, stage) /\ Leave(c, stage) /\ cred' \in {cred, saved}
        /\ stage = "ended" => cred' = saved
  BY DEF Save, Leave
<1>6. /\ saved \in [Accounts -> CredentialOf]
      /\ \A a \in Accounts : saved[a] = cred[a] \/ saved[a].flow = F(c)
      /\ saved[proc[c].told].flow = F(c)
  BY <1>2, <1>3 DEF IInv, TypeOK, CredentialOf, Imported
<1> HIDE DEF saved
<1>7. /\ OnlyOf(c) /\ proc' \in [Procs -> Request]
      /\ proc'[c].at = stage /\ proc'[c].flow = F(c) /\ proc'[c].doomed = {}
  BY <1>1, <1>2, <1>5, GoIs DEF Stages, StartStages, Resting
<1>8. people' = None /\ binding' \in {None, binding}
  BY <1>5 DEF Leave
<1>9. TypeOK' /\ ConfigurationKept'
  BY <1>3, <1>4, <1>5, <1>6, <1>7, <1>8 DEF IInv, TypeOK, ConfigurationKept
<1>10. Imports
  BY <1>3, <1>4, <1>5, <1>6 DEF Imports, Current
<1>11. Knows(c)' /\ Created(c)'
  BY <1>1, <1>2, <1>7, GoneKnows DEF Created
<1>12. stage = "drop" => \A f \in Flows : f = F(c) => OwnedBy(c, f)'
  BY <1>2, <1>7 DEF OwnedBy, HasConsumed, F
<1>13. stage = "ended" => F(c) \in Referenced'
  BY <1>2, <1>3, <1>5, <1>6 DEF Referenced
<1>14. Plays(c)
  BY <1>1, <1>2, <1>3, <1>4, <1>7, <1>8, <1>11 DEF Plays, F
<1>15. HandsOver(c)
  BY <1>1, <1>2, <1>4, <1>12, <1>13 DEF HandsOver, OwnedBy
<1> QED
  BY <1>2, <1>4, <1>7, <1>9, <1>10, <1>11, <1>14, <1>15, StepKeeps DEF Good
-----------------------------------------------------------------------------
(* What happens around the requests.                                        *)

LEMMA InitHolds == Init => IInv
<1> SUFFICES ASSUME Init PROVE IInv
  OBVIOUS
<1>1. TypeOK /\ ConfigurationKept
  BY IdleIsRequest DEF Init, TransactionsInit, TypeOK, ConfigurationKept, CredentialOf, NoCredential
<1>2. \A f \in Flows : context[f] = None
  BY DEF Init, TransactionsInit
<1>3. \A p \in Procs : proc[p] = Idle
  BY DEF Init
<1>4. ASSUME NEW p \in Procs PROVE Knows(p) /\ OneOwner(p)
  BY <1>3, <1>4, IdleIsRequest
     DEF Knows, OneOwner, HasConsumed, StartStages, CallbackStages, Resting
<1> QED
  BY <1>1, <1>2, <1>4 DEF IInv

\* Requests that stand still keep what they own.
LEMMA OwnersStay ==
  ASSUME UNCHANGED <<context, proc>>
  PROVE  LeavesNone
<1>1. \A f : Owned(f)' <=> Owned(f)
  BY DEF Owned, F, WillDiscard, HasConsumed
<1> QED
  BY <1>1 DEF LeavesNone

LEMMA ChangeKeeps == ASSUME IInv, Change PROVE Good
<1>1. UNCHANGED <<context, intent, config, lapsed, proc, people, binding>> /\ changes' \in Nat
  BY DEF Change, ChangeProvider, ChangePrincipal, EndCredential, transactions, world, IInv, TypeOK
<1>2. /\ principal' = principal \/ (people = None /\ UNCHANGED <<provider, cred>>)
      /\ principal' \in [Actors -> {"authorized", "demoted", "gone"}]
  BY DEF Change, ChangeProvider, ChangePrincipal, EndCredential, world, IInv, TypeOK
<1>3. provider' \in Profiles \cup {None}
  BY DEF Change, ChangeProvider, ChangePrincipal, EndCredential, world, IInv, TypeOK
<1>4. /\ cred' \in [Accounts -> CredentialOf]
      /\ \A a \in Accounts : cred'[a].flow \in {None, cred[a].flow}
      /\ \A a \in Accounts : cred[a] = NoCredential => cred'[a] = NoCredential
  <2>1. CASE cred' = cred
    BY <2>1 DEF IInv, TypeOK
  <2>2. ASSUME NEW a \in Accounts, EndCredential(a)
        PROVE  /\ cred' \in [Accounts -> CredentialOf]
               /\ \A b \in Accounts : cred'[b].flow \in {None, cred[b].flow}
               /\ \A b \in Accounts : cred[b] = NoCredential => cred'[b] = NoCredential
    <3>1. cred \in [Accounts -> CredentialOf] /\ cred[a].state # "none" /\ NoCredential \in CredentialOf
      BY <2>2 DEF EndCredential, IInv, TypeOK, NoCredential, CredentialOf
    <3> DEFINE revoked == [cred[a] EXCEPT !.state = "revoked"]
    <3>2. revoked \in CredentialOf /\ revoked.flow = cred[a].flow
      BY <3>1 DEF CredentialOf
    <3>3. cred' = [cred EXCEPT ![a] = revoked] \/ cred' = [cred EXCEPT ![a] = NoCredential]
      BY <2>2 DEF EndCredential
    <3> HIDE DEF revoked
    <3>4. cred[a] # NoCredential /\ NoCredential.flow = None
      BY <3>1 DEF NoCredential
    <3> QED
      BY <3>1, <3>2, <3>3, <3>4
  <2> QED
    BY <2>1, <2>2 DEF Change, ChangeProvider, ChangePrincipal
<1>5. TypeOK' /\ ConfigurationKept' /\ Imports
  BY <1>1, <1>2, <1>3, <1>4 DEF IInv, TypeOK, ConfigurationKept, Imports
<1>6. ASSUME NEW p \in Procs PROVE Knows(p)' /\ OneOwner(p)'
  <2>1. Knows(p) /\ OneOwner(p) /\ p # None
    BY FlowsAre DEF IInv
  <2>2. Knows(p)'
    BY <1>1, <1>2, <2>1 DEF Knows, Current
  <2>3. OneOwner(p)'
    BY <1>1, <2>1 DEF OneOwner, Created, HasConsumed, F
  <2> QED
    BY <2>2, <2>3
<1>7. \A f \in Flows : context'[f] # None => Created(f)'
  BY <1>1 DEF IInv, Created
<1>8. LeavesNone
  BY <1>1, OwnersStay
<1> QED
  BY <1>5, <1>6, <1>7, <1>8 DEF Good, IInv

LEMMA CrashKeeps == ASSUME IInv, Crash PROVE Good
<1>1. /\ \A f \in Flows : context'[f] = None
      /\ context' \in [Flows -> Profiles \cup {None}]
      /\ intent' = {} /\ lapsed' \subseteq lapsed /\ provider' \in Profiles
      /\ UNCHANGED <<principal, cred>> /\ people' = None /\ binding' = None /\ changes' \in Nat
  <2>1. context' = [f \in Flows |-> None] /\ lapsed' \subseteq lapsed
    BY DEF Crash, Restart
  <2>2. changes' \in Nat
    <3>1. changes \in Nat
      BY DEF IInv, TypeOK
    <3>2. changes' = changes + 1
      BY DEF Crash
    <3> QED
      BY <3>1, <3>2
  <2> QED
    BY <2>1, <2>2 DEF Crash, Restart
<1>2. /\ config' \in [Flows -> Profiles \cup {None}]
      /\ \A f \in Referenced : f \in Flows => config'[f] = config[f]
  BY DEF Crash, Restart, UnreferencedAtStart, IInv, TypeOK
<1>3. ASSUME NEW p \in Procs
      PROVE  /\ proc'[p] \in Request /\ proc'[p].doomed = {} /\ proc'[p].at \in Resting
             /\ proc[p].at \in Resting => proc'[p] = proc[p]
             /\ proc[p].at \notin Resting => proc'[p].at = "ended" /\ proc'[p].flow = F(p)
  <2>1. proc[p] \in Request /\ Knows(p)
    BY DEF IInv, TypeOK
  <2> DEFINE new == [Idle EXCEPT !.at = "ended", !.flow = F(p)]
  <2>2. new \in Request /\ new.at = "ended" /\ new.flow = F(p) /\ new.doomed = {}
    BY <2>1 DEF Idle, Request, StartStages, Resting, Told, F
  <2>3. proc'[p] = IF proc[p].at \in Resting THEN proc[p] ELSE new
    BY DEF Crash
  <2> HIDE DEF new
  <2> QED
    BY <2>1, <2>2, <2>3 DEF Knows, Resting
<1>4. proc' \in [Procs -> Request]
  <2>1. proc' = [p \in Procs |-> proc'[p]]
    BY DEF Crash
  <2> QED
    BY <1>3, <2>1
<1>5. TypeOK' /\ ConfigurationKept' /\ Imports
  <2>1. ConfigurationKept'
    BY <1>1, <1>2 DEF IInv, TypeOK, CredentialOf, ConfigurationKept, Referenced
  <2> QED
    BY <1>1, <1>2, <1>4, <2>1 DEF IInv, TypeOK, Imports
<1>6. ASSUME NEW p \in Procs PROVE Knows(p)' /\ OneOwner(p)'
  <2>1. Knows(p)
    BY DEF IInv
  <2>2. proc'[p].doomed = {} /\ proc'[p].at \in Resting
    BY <1>3
  <2>3. p \in Flows /\ proc'[p].at # "idle" => proc'[p].flow = p
    BY <1>3, <2>1 DEF Knows, Resting, F
  <2>4. ASSUME p \in Callbacks, proc'[p].at # "idle"
        PROVE  proc'[p].flow \in Flows /\ proc'[proc'[p].flow].at = "answered"
    <3>1. proc[p].at # "idle" /\ proc'[p].flow = F(p)
      BY <1>3, <2>4 DEF Resting, F
    <3>2. F(p) \in Flows /\ F(p) \in Procs /\ proc[F(p)].at = "answered"
      BY <2>4, <3>1, CallbackIs, FlowsAre
    <3> QED
      BY <1>3, <3>1, <3>2 DEF Resting
  <2>5. ~HasConsumed(p)'
    BY <2>2 DEF HasConsumed, Resting
  <2> QED
    BY <2>2, <2>3, <2>4, <2>5 DEF Knows, OneOwner, Resting, StartStages, CallbackStages
<1>7. LeavesNone
  BY DEF LeavesNone, LetsGo
<1> QED
  BY <1>1, <1>5, <1>6, <1>7 DEF Good, IInv

LEMMA TimeKeeps == ASSUME IInv, Time PROVE Good
<1>1. UNCHANGED <<intent, config, provider, principal, cred, proc, people, binding, changes>>
  BY DEF Time, Lapse, PurgeByTimer, world
<1>2. /\ context' \in [Flows -> Profiles \cup {None}] /\ lapsed' \subseteq Kinds \X Flows
      /\ \A f \in Flows : context[f] = None => context'[f] = None
  <2>1. CASE PurgeByTimer
    BY <2>1, PurgedIs DEF PurgeByTimer, IInv, TypeOK
  <2>2. CASE \E f \in Flows, kind \in Kinds : Lapse(kind, f)
    BY <2>2 DEF Lapse, IInv, TypeOK
  <2> QED
    BY <2>1, <2>2 DEF Time
<1>3. TypeOK' /\ ConfigurationKept' /\ Imports
  BY <1>1, <1>2 DEF IInv, TypeOK, ConfigurationKept, Imports
<1>4. ASSUME NEW p \in Procs PROVE Knows(p)' /\ OneOwner(p)'
  <2>1. Knows(p) /\ OneOwner(p) /\ proc[p] \in Request
    BY DEF IInv, TypeOK
  <2>2. Knows(p)'
    BY <1>1, <2>1 DEF Knows, Current
  <2>3. HasConsumed(p) => F(p) \in Flows
    BY ConsumedIs
  <2>4. OneOwner(p)'
    BY <1>1, <1>2, <2>1, <2>3 DEF OneOwner, Created, HasConsumed, F, Request
  <2> QED
    BY <2>2, <2>4
<1>5. \A f \in Flows : context'[f] # None => Created(f)'
  BY <1>1, <1>2 DEF IInv, Created
<1>6. LeavesNone
  <2>1. CASE PurgeByTimer
    BY <2>1 DEF LeavesNone, LetsGo
  <2>2. CASE UNCHANGED context
    BY <1>1, <2>2, OwnersStay
  <2> QED
    BY <2>1, <2>2 DEF Time, Lapse
<1> QED
  BY <1>3, <1>4, <1>5, <1>6 DEF Good, IInv

LEMMA StutterKeeps == ASSUME IInv, UNCHANGED vars PROVE Good
<1>1. UNCHANGED <<context, intent, config, lapsed, provider, principal, cred, proc, people, binding, changes>>
  BY DEF vars, transactions, world
<1>2. IInv'
  <2>1. ASSUME NEW p \in Procs PROVE Knows(p)' /\ OneOwner(p)'
    BY <1>1 DEF IInv, Knows, OneOwner, Current, Created, HasConsumed, F
  <2> QED
    BY <1>1, <2>1 DEF IInv, TypeOK, ConfigurationKept, Created
<1> QED
  BY <1>1, <1>2, OwnersStay DEF Good, Imports
-----------------------------------------------------------------------------
LEMMA NextKeeps == IInv /\ [Next]_vars => Good
<1> SUFFICES ASSUME IInv, [Next]_vars PROVE Good
  OBVIOUS
<1>1. ASSUME NEW f \in Flows, StartStep(f) PROVE Good
  BY <1>1, StartKeeps, SweepAtStartKeeps, PrepareKeeps, CreateContextKeeps, AskKeeps, RememberKeeps
     DEF StartStep
<1>2. ASSUME NEW c \in Callbacks, NEW f \in Flows, Arrive(c, f) PROVE Good
  BY <1>2, ArriveKeeps
<1>3. ASSUME NEW c \in Callbacks, CallbackStep(c) PROVE Good
  BY <1>3, ConsumeIntentKeeps, AdmitKeeps, RevalidateActorKeeps, SweepAtCallbackKeeps,
     ConsumeContextKeeps, LoadConfigurationKeeps, ExchangeKeeps, AuthorizeKeeps, ValidateKeeps,
     EnterLockKeeps, SaveKeeps
     DEF CallbackStep
<1>4. ASSUME NEW p \in Procs, SharedStep(p) PROVE Good
  BY <1>4, RemoveDoomedKeeps, DropKeeps, CancelKeeps, WithdrawKeeps DEF SharedStep
<1> QED
  BY <1>1, <1>2, <1>3, <1>4, ChangeKeeps, CrashKeeps, TimeKeeps, StutterKeeps DEF Next

\* The inductive invariant holds in every state.
THEOREM Invariance == Spec => []IInv
<1>1. Init => IInv
  BY InitHolds
<1>2. IInv /\ [Next]_vars => IInv'
  BY NextKeeps DEF Good
<1> QED
  BY <1>1, <1>2, PTL DEF Spec

\* Every variable of the flows keeps its type.
THEOREM TypeCorrect == Spec => []TypeOK
<1>1. IInv => TypeOK
  BY DEF IInv
<1> QED
  BY <1>1, Invariance, PTL

\* A Credential that came out of a flow has the configuration it is refreshed
\* with (cleanupExpiredOAuthContexts, the failures of importOAuthCredential and
\* the removal at startup spare what is referred to).
THEOREM ConfigurationIsKept == Spec => []ConfigurationKept
<1>1. IInv => ConfigurationKept
  BY DEF IInv
<1> QED
  BY <1>1, Invariance, PTL

\* A Credential is imported only while the one who started the flow is the
\* same principal and still authorized (withAuthorizedCurrentPrincipal holds
\* the queue from its check until the record is saved).
THEOREM ImportsAreCurrent == Spec => ImportedForStarter
<1>1. IInv /\ [Next]_vars => Imports
  BY NextKeeps DEF Good
<1>2. IInv /\ [Next]_vars =>
        [\A a \in Accounts : cred[a] = NoCredential /\ cred'[a] # NoCredential
                               => Current(cred'[a].flow)]_vars
  BY <1>1 DEF Imports
<1> QED
  BY <1>2, Invariance, PTL DEF Spec, ImportedForStarter

\* No request lets go of the configuration of a flow without removing it,
\* unless a Credential refers to it or one of the named exceptions applies.
THEOREM NothingIsLeft == Spec => NoneLeftBehind
<1>1. IInv /\ [Next]_vars => LeavesNone
  BY NextKeeps DEF Good
<1>2. IInv /\ [Next]_vars =>
        [\A f \in Flows : (Owned(f) /\ ~Owned(f)' /\ config'[f] # None)
                            => (f \in Referenced' \/ LetsGo)]_vars
  BY <1>1 DEF LeavesNone
<1> QED
  BY <1>2, Invariance, PTL DEF Spec, NoneLeftBehind

-----------------------------------------------------------------------------
(* The page of Credentials.                                                 *)

RegistryInv ==
  /\ {"rows", "edit", "detail", "delete", "revoke"} \subseteq DOMAIN page
  /\ {"shown", "form", "item", "values", "saving"} \subseteq DOMAIN page.edit
  /\ page.edit.item # Nil => page.edit.values \in {page.edit.item, Nil}
  /\ Registry!ActsOnWhatIsShown

LEMMA RegistryStarts == Registry!Init => RegistryInv
BY DEF Registry!Init, RegistryInv, Registry!ActsOnWhatIsShown

LEMMA RegistryGoesOn == RegistryInv /\ Registry!Next => RegistryInv'
<1> SUFFICES ASSUME RegistryInv, Registry!Next PROVE RegistryInv'
  OBVIOUS
<1> USE DEF RegistryInv, Registry!ActsOnWhatIsShown, Registry!Ask, Registry!Send, Registry!AndReload
<1>1. CASE Registry!LoadCredentials
  BY <1>1 DEF Registry!LoadCredentials
<1>2. CASE Registry!CloseDetail
  BY <1>2 DEF Registry!CloseDetail
<1>3. CASE Registry!SubmitEdit
  BY <1>3 DEF Registry!SubmitEdit
<1>4. CASE Registry!CloseEdit
  BY <1>4 DEF Registry!CloseEdit
<1>5. ASSUME NEW id, Registry!ValidateCredential(id) PROVE RegistryInv'
  BY <1>5 DEF Registry!ValidateCredential
<1>6. ASSUME NEW id, Registry!OpenDetail(id) PROVE RegistryInv'
  BY <1>6 DEF Registry!OpenDetail
<1>7. ASSUME NEW id, Registry!OpenEdit(id) PROVE RegistryInv'
  <2>1. page' = [page EXCEPT !.edit = [@ EXCEPT !.shown = TRUE, !.values = Nil]]
    BY <1>7 DEF Registry!OpenEdit
  <2>2. /\ DOMAIN page' = DOMAIN page /\ DOMAIN page'.edit = DOMAIN page.edit
        /\ page'.edit.item = page.edit.item /\ page'.edit.values = Nil
    BY <2>1
  <2>3. \A d \in calls' : d.kind = "update" => d \in calls
    BY <1>7 DEF Registry!OpenEdit
  <2> QED
    BY <2>2, <2>3
<1>8. ASSUME NEW action \in Registry!Confirmed, NEW id, Registry!OpenConfirmation(action, id) PROVE RegistryInv'
  BY <1>8 DEF Registry!OpenConfirmation, Registry!Confirmed
<1>9. ASSUME NEW action \in Registry!Confirmed, Registry!CloseConfirmation(action) PROVE RegistryInv'
  BY <1>9 DEF Registry!CloseConfirmation, Registry!Confirmed
<1>10. ASSUME NEW action \in Registry!Confirmed, Registry!Confirm(action) PROVE RegistryInv'
  BY <1>10 DEF Registry!Confirm, Registry!Confirmed
<1>11. ASSUME NEW c \in calls, NEW ok \in BOOLEAN, NEW rows, Registry!Listed(c, ok, rows) PROVE RegistryInv'
  BY <1>11 DEF Registry!Listed
<1>12. ASSUME NEW c \in calls, NEW ok \in BOOLEAN, Registry!Validated(c, ok) PROVE RegistryInv'
  BY <1>12 DEF Registry!Validated
<1>13. ASSUME NEW c \in calls, NEW ok \in BOOLEAN, Registry!DetailLoaded(c, ok) PROVE RegistryInv'
  <2>1. DOMAIN page' = DOMAIN page /\ page'.edit = page.edit
    BY <1>13 DEF Registry!DetailLoaded
  <2>2. \A d \in calls' : d.kind = "update" => d \in calls
    BY <1>13 DEF Registry!DetailLoaded
  <2> QED
    BY <2>1, <2>2
<1>14. ASSUME NEW c \in calls, Registry!ScopeLoaded(c) PROVE RegistryInv'
  BY <1>14 DEF Registry!ScopeLoaded
<1>15. ASSUME NEW c \in calls, NEW ok \in BOOLEAN, Registry!EditLoaded(c, ok) PROVE RegistryInv'
  BY <1>15 DEF Registry!EditLoaded
<1>16. ASSUME NEW c \in calls, NEW ok \in BOOLEAN, Registry!Updated(c, ok) PROVE RegistryInv'
  BY <1>16 DEF Registry!Updated
<1>17. ASSUME NEW c \in calls, NEW ok \in BOOLEAN, Registry!Done(c, ok) PROVE RegistryInv'
  BY <1>17 DEF Registry!Done, Registry!Confirmed
<1> QED
  BY <1>1, <1>2, <1>3, <1>4, <1>5, <1>6, <1>7, <1>8, <1>9, <1>10, <1>11, <1>12, <1>13, <1>14, <1>15, <1>16, <1>17
  DEF Registry!Next

-----------------------------------------------------------------------------
(* The page of grants: the boxes of a form are those of its Credential.     *)

GrantsInv ==
  /\ {"loading", "rows", "consumers", "credentials", "usable", "create", "edit"} \subseteq DOMAIN page
  /\ {"shown", "consumer", "credential", "drawn", "names", "sending"} \subseteq DOMAIN page.create
  /\ page.create.names \subseteq page.create.drawn
  /\ page.create.drawn = IF page.create.credential = Nil THEN {} ELSE Secrets[page.create.credential]
  /\ Grants!ActsOnWhatIsShown

LEMMA GrantsStart == Grants!Init => GrantsInv
BY DEF Grants!Init, Grants!NewGrant, GrantsInv, Grants!ActsOnWhatIsShown

\* What a step does to the form, and to what is asked for.
FormOK(form) ==
  /\ {"shown", "consumer", "credential", "drawn", "names", "sending"} \subseteq DOMAIN form
  /\ form.names \subseteq form.drawn
  /\ form.drawn = IF form.credential = Nil THEN {} ELSE Secrets[form.credential]

LEMMA FormsDrawn ==
  ASSUME NEW form, FormOK(form), NEW k, NEW names, names \subseteq (IF k = Nil THEN {} ELSE Secrets[k])
  PROVE  FormOK(Grants!SecretsDrawn(form, k, names)) /\ DOMAIN Grants!SecretsDrawn(form, k, names) = DOMAIN form
<1> DEFINE drawn == IF k = Nil THEN {} ELSE Secrets[k]
           new == [form EXCEPT !.credential = k, !.drawn = drawn, !.names = names]
<1>1. Grants!SecretsDrawn(form, k, names) = new
  BY DEF Grants!SecretsDrawn
<1>2. DOMAIN new = DOMAIN form /\ new.credential = k /\ new.drawn = drawn /\ new.names = names
  BY DEF FormOK
<1> QED
  BY <1>1, <1>2 DEF FormOK

LEMMA GrantsGoOn == GrantsInv /\ Grants!Next => GrantsInv'
<1> SUFFICES ASSUME GrantsInv, Grants!Next PROVE GrantsInv'
  OBVIOUS
<1> DEFINE Parts == {"loading", "rows", "consumers", "credentials", "usable", "create", "edit"}
<1>0. FormOK(page.create) /\ Parts \subseteq DOMAIN page /\ Grants!ActsOnWhatIsShown
  BY DEF GrantsInv, FormOK
<1>a. SUFFICES /\ FormOK(page'.create) /\ Parts \subseteq DOMAIN page'
               /\ \A c \in calls' : c \in calls \/ c.kind # "create" \/ c.names \subseteq Secrets[c.grant[2]]
  BY <1>0 DEF GrantsInv, FormOK, Grants!ActsOnWhatIsShown
<1> DEFINE Goal == /\ FormOK(page'.create) /\ Parts \subseteq DOMAIN page'
                   /\ \A c \in calls' : c \in calls \/ c.kind # "create" \/ c.names \subseteq Secrets[c.grant[2]]
<1>h. ASSUME NEW p, FormOK(p.create), Parts \subseteq DOMAIN p
      PROVE  FormOK(Grants!Hidden(p).create) /\ DOMAIN Grants!Hidden(p) = DOMAIN p
  <2> DEFINE bare == Grants!SecretsDrawn(p.create, Nil, {})
  <2>1. FormOK(bare)
    BY <1>h, FormsDrawn
  <2> HIDE DEF bare
  <2>2. FormOK([bare EXCEPT !.shown = FALSE])
    BY <2>1 DEF FormOK
  <2>3. Grants!Hidden(p) = [p EXCEPT !.create = [bare EXCEPT !.shown = FALSE]]
    BY DEF Grants!Hidden, bare
  <2> QED
    BY <1>h, <2>2, <2>3
<1>1. CASE Grants!LoadGrants
  BY <1>0, <1>1 DEF Grants!LoadGrants, Grants!Loading, Grants!Send
<1>2. CASE Grants!OpenCreate
  <2>1. PICK k : page' = [page EXCEPT !.create = [Grants!SecretsDrawn(page.create, k, {}) EXCEPT !.shown = TRUE]]
    BY <1>2 DEF Grants!OpenCreate, Grants!SecretsDrawn
  <2> DEFINE bare == Grants!SecretsDrawn(page.create, k, {})
  <2>2. FormOK(bare)
    BY <1>0, FormsDrawn
  <2> HIDE DEF bare
  <2>3. FormOK([bare EXCEPT !.shown = TRUE])
    BY <2>2 DEF FormOK
  <2> QED
    BY <1>0, <1>2, <2>1, <2>3 DEF Grants!OpenCreate, bare
<1>3. CASE Grants!CloseCreate
  BY <1>0, <1>3, <1>h DEF Grants!CloseCreate
<1>4. CASE Grants!SubmitCreate
  <2>1. page' = [page EXCEPT !.create = [@ EXCEPT !.sending = TRUE]]
    BY <1>0, <1>4 DEF Grants!SubmitCreate
  <2>2. FormOK([page.create EXCEPT !.sending = TRUE])
    BY <1>0 DEF FormOK
  <2>3. page.create.names \subseteq Secrets[page.create.credential]
    BY <1>0, <1>4 DEF Grants!SubmitCreate, FormOK
  <2>4. calls' = calls \cup {[kind |-> "create", names |-> page.create.names,
                             grant |-> <<page.create.consumer, page.create.credential>>]}
    BY <1>4 DEF Grants!SubmitCreate, Grants!Send
  <2> QED
    BY <1>0, <2>1, <2>2, <2>3, <2>4
<1>5. CASE Grants!TypeNames
  BY <1>0, <1>5 DEF Grants!TypeNames
<1>6. CASE Grants!SubmitEdit
  BY <1>0, <1>6 DEF Grants!SubmitEdit, Grants!Send
<1>7. CASE Grants!CloseEdit
  BY <1>0, <1>7 DEF Grants!CloseEdit
<1>8. ASSUME NEW c, Grants!EnterConsumer(c) PROVE Goal
  <2>1. page' = [page EXCEPT !.create = [@ EXCEPT !.consumer = c]] /\ calls' = calls
    BY <1>8 DEF Grants!EnterConsumer
  <2>2. FormOK([page.create EXCEPT !.consumer = c])
    BY <1>0 DEF FormOK
  <2> QED
    BY <1>0, <2>1, <2>2
<1>9. ASSUME NEW k, Grants!ChooseCredential(k) PROVE Goal
  <2>1. page' = [page EXCEPT !.create = Grants!SecretsDrawn(page.create, k, {})] /\ calls' = calls
    BY <1>9 DEF Grants!ChooseCredential, Grants!SecretsDrawn
  <2> QED
    BY <1>0, <2>1, FormsDrawn
<1>10. ASSUME NEW name, Grants!ToggleSecret(name) PROVE Goal
  <2> DEFINE new == IF name \in page.create.names THEN page.create.names \ {name} ELSE page.create.names \cup {name}
  <2>1. page' = [page EXCEPT !.create = [@ EXCEPT !.names = new]] /\ calls' = calls /\ name \in page.create.drawn
    BY <1>10 DEF Grants!ToggleSecret
  <2>2. new \subseteq page.create.drawn
    BY <1>0, <2>1 DEF FormOK
  <2> HIDE DEF new
  <2>3. FormOK([page.create EXCEPT !.names = new])
    BY <1>0, <2>2 DEF FormOK
  <2> QED
    BY <1>0, <2>1, <2>3
<1>11. ASSUME NEW c, NEW names, Grants!ApplyProfile(c, names) PROVE Goal
  <2> DEFINE k == page.create.credential
             bare == Grants!SecretsDrawn(page.create, k, names \cap Secrets[k])
             who == IF c = Nil THEN bare.consumer ELSE c
  <2>1. page' = [page EXCEPT !.create = [bare EXCEPT !.consumer = who]] /\ calls' = calls /\ k # Nil
    <3>1. /\ page' = [page EXCEPT !.create = [Grants!SecretsDrawn(page.create, k, names \cap Secrets[k])
                                            EXCEPT !.consumer = IF c = Nil THEN @ ELSE c]]
          /\ calls' = calls /\ k # Nil
      BY <1>11 DEF Grants!ApplyProfile
    <3> QED
      BY <3>1
  <2>2. FormOK(bare)
    BY <1>0, <2>1, FormsDrawn
  <2> HIDE DEF bare, who
  <2>3. FormOK([bare EXCEPT !.consumer = who])
    BY <2>2 DEF FormOK
  <2> QED
    BY <1>0, <2>1, <2>3
<1>12. ASSUME NEW g, Grants!RemoveGrant(g) \/ Grants!OpenEdit(g) PROVE Goal
  <2>1. DOMAIN page' = DOMAIN page /\ page'.create = page.create
    BY <1>0, <1>12 DEF Grants!RemoveGrant, Grants!OpenEdit
  <2>2. \A d \in calls' : d \in calls \/ d.kind # "create"
    BY <1>12 DEF Grants!RemoveGrant, Grants!OpenEdit, Grants!Send
  <2> QED
    BY <1>0, <2>1, <2>2
<1>13. ASSUME NEW c \in calls, Grants!ListFailed(c) PROVE Goal
  BY <1>0, <1>13 DEF Grants!ListFailed
<1>r. ASSUME NEW c \in calls, NEW ok \in BOOLEAN, NEW p, FormOK(p.create), Parts \subseteq DOMAIN p,
             Grants!Reloaded(c, p, ok)
      PROVE  Goal
  BY <1>r DEF Grants!Reloaded, Grants!Loading
<1>14. ASSUME NEW c \in calls, NEW ok \in BOOLEAN, Grants!Created(c, ok) PROVE Goal
  <2> DEFINE p == [page EXCEPT !.create.sending = FALSE]
  <2>1. p = [page EXCEPT !.create = [@ EXCEPT !.sending = FALSE]]
    OBVIOUS
  <2>2. FormOK([page.create EXCEPT !.sending = FALSE])
    BY <1>0 DEF FormOK
  <2>3. FormOK(p.create) /\ Parts \subseteq DOMAIN p
    BY <1>0, <2>1, <2>2
  <2>4. Grants!Reloaded(c, IF ok THEN Grants!Hidden(p) ELSE p, ok)
    BY <1>14 DEF Grants!Created
  <2> HIDE DEF p, Goal
  <2>5. CASE ok
    BY <1>h, <1>r, <2>3, <2>4, <2>5
  <2>6. CASE ~ok
    BY <1>r, <2>3, <2>4, <2>6
  <2> QED
    BY <2>5, <2>6
<1>15. ASSUME NEW c \in calls, NEW ok \in BOOLEAN, Grants!Removed(c, ok) PROVE Goal
  BY <1>0, <1>15, <1>r DEF Grants!Removed
<1>16. ASSUME NEW c \in calls, NEW ok \in BOOLEAN, Grants!Updated(c, ok) PROVE Goal
  <2> DEFINE p == [page EXCEPT !.edit.saving = FALSE, !.edit.item = IF ok THEN Nil ELSE @]
  <2>1. p.create = page.create /\ DOMAIN p = DOMAIN page
    BY <1>0
  <2>2. Grants!Reloaded(c, p, ok)
    BY <1>16 DEF Grants!Updated
  <2> HIDE DEF p, Goal
  <2> QED
    BY <1>0, <1>r, <2>1, <2>2
<1>17. ASSUME NEW c \in calls, NEW rows, NEW consumers, NEW credentials, NEW usable,
              Grants!Listed(c, rows, consumers, credentials, usable)
       PROVE  Goal
  <2>1. PICK k : page' = [page EXCEPT !.loading = FALSE, !.rows = rows, !.consumers = consumers,
                            !.credentials = credentials, !.usable = usable,
                            !.create = IF page.create.shown THEN Grants!SecretsDrawn(page.create, k, {}) ELSE page.create]
    BY <1>17 DEF Grants!Listed, Grants!SecretsDrawn
  <2> DEFINE drawn == Grants!SecretsDrawn(page.create, k, {})
  <2>2. FormOK(drawn)
    BY <1>0, FormsDrawn
  <2> HIDE DEF drawn
  <2>3. page'.create \in {drawn, page.create} /\ DOMAIN page' = DOMAIN page
    BY <1>0, <2>1 DEF drawn
  <2> QED
    BY <1>0, <1>17, <2>2, <2>3 DEF Grants!Listed
<1> QED
  BY <1>1, <1>2, <1>3, <1>4, <1>5, <1>6, <1>7, <1>8, <1>9, <1>10, <1>11, <1>12, <1>13, <1>14, <1>15, <1>16, <1>17
  DEF Grants!Next

-----------------------------------------------------------------------------
(* The page of tokens.                                                      *)

TokensInv ==
  /\ {"rows", "create", "plaintext", "revoke", "created", "seen"} \subseteq DOMAIN page
  /\ Tokens!ActsOnWhatIsShown

LEMMA TokensStart == Tokens!Init => TokensInv
BY DEF Tokens!Init, TokensInv, Tokens!ActsOnWhatIsShown

LEMMA TokensGoOn == TokensInv /\ Tokens!Next => TokensInv'
<1> SUFFICES ASSUME TokensInv, Tokens!Next PROVE TokensInv'
  OBVIOUS
<1> DEFINE Parts == {"rows", "create", "plaintext", "revoke", "created", "seen"}
           Announcing == {c \in calls : c.kind = "announce"}
<1>0. Parts \subseteq DOMAIN page /\ \A t \in page.created \ page.seen : \E c \in Announcing : c.token = t
  BY DEF TokensInv, Tokens!ActsOnWhatIsShown
<1>a. SUFFICES /\ Parts \subseteq DOMAIN page'
               /\ \A t \in page'.created \ page'.seen : \E c \in calls' : c.kind = "announce" /\ c.token = t
  BY DEF TokensInv, Tokens!ActsOnWhatIsShown
<1> DEFINE Goal == /\ Parts \subseteq DOMAIN page'
                   /\ \A t \in page'.created \ page'.seen : \E c \in calls' : c.kind = "announce" /\ c.token = t
\* A step that neither creates nor shows a token.
<1>b. ASSUME DOMAIN page' = DOMAIN page, page'.created = page.created, page'.seen = page.seen,
             \A c \in Announcing : c \in calls'
      PROVE  Goal
  BY <1>0, <1>b
<1>1. CASE Tokens!LoadApiTokens
  BY <1>1, <1>b DEF Tokens!LoadApiTokens, Tokens!Send
<1>2. CASE Tokens!OpenCreateDialog \/ Tokens!CloseCreateDialog
  BY <1>0, <1>2, <1>b DEF Tokens!OpenCreateDialog, Tokens!CloseCreateDialog
<1>3. CASE Tokens!SubmitCreate
  BY <1>0, <1>3, <1>b DEF Tokens!SubmitCreate, Tokens!Send
<1>4. CASE Tokens!CloseCreatedToken
  BY <1>0, <1>4, <1>b DEF Tokens!CloseCreatedToken
<1>5. CASE Tokens!CloseRevokeDialog
  BY <1>0, <1>5, <1>b DEF Tokens!CloseRevokeDialog
<1>6. CASE Tokens!ConfirmRevoke
  BY <1>0, <1>6, <1>b DEF Tokens!ConfirmRevoke, Tokens!Send
<1>7. ASSUME NEW t, Tokens!OpenRevokeDialog(t) PROVE Goal
  BY <1>0, <1>7, <1>b DEF Tokens!OpenRevokeDialog
<1>8. ASSUME NEW c \in calls, NEW rows, Tokens!Listed(c, rows) PROVE Goal
  BY <1>0, <1>8, <1>b DEF Tokens!Listed
<1>9. ASSUME NEW c \in calls, NEW rows, Tokens!Announced(c, rows) PROVE Goal
  <2>1. DOMAIN page' = DOMAIN page /\ page'.created = page.created /\ page'.seen = page.seen \cup {c.token}
    BY <1>0, <1>9 DEF Tokens!Announced
  <2>2. calls' = calls \ {c}
    BY <1>9 DEF Tokens!Announced
  <2> QED
    BY <1>0, <2>1, <2>2
<1>10. ASSUME NEW c \in calls, NEW token, Tokens!Created(c, token) PROVE Goal
  <2>1. c.kind = "create"
    BY <1>10 DEF Tokens!Created
  <2>2. CASE token = Nil
    <3>1. DOMAIN page' = DOMAIN page /\ page'.created = page.created /\ page'.seen = page.seen
      BY <1>0, <1>10, <2>2 DEF Tokens!Created
    <3>2. calls' = calls \ {c}
      BY <1>10, <2>2 DEF Tokens!Created
    <3> QED
      BY <1>b, <2>1, <3>1, <3>2
  <2>3. CASE token # Nil
    <3> DEFINE news == [kind |-> "announce", token |-> token]
    <3>1. DOMAIN page' = DOMAIN page /\ page'.created = page.created \cup {token} /\ page'.seen = page.seen
      BY <1>0, <1>10, <2>3 DEF Tokens!Created
    <3>2. calls' = (calls \ {c}) \cup {news} /\ news.kind = "announce" /\ news.token = token
      BY <1>10, <2>3 DEF Tokens!Created
    <3> HIDE DEF news
    <3> QED
      BY <1>0, <2>1, <3>1, <3>2
  <2> QED
    BY <2>2, <2>3
<1>11. ASSUME NEW c \in calls, NEW ok \in BOOLEAN, Tokens!Revoked(c, ok) PROVE Goal
  <2>1. DOMAIN page' = DOMAIN page /\ page'.created = page.created /\ page'.seen = page.seen
    BY <1>0, <1>11 DEF Tokens!Revoked
  <2>2. \A d \in Announcing : d \in calls'
    BY <1>11 DEF Tokens!Revoked
  <2> QED
    BY <1>b, <2>1, <2>2
<1> QED
  BY <1>1, <1>2, <1>3, <1>4, <1>5, <1>6, <1>7, <1>8, <1>9, <1>10, <1>11 DEF Tokens!Next

-----------------------------------------------------------------------------
(* The page of transfers.                                                   *)

TransferInv ==
  /\ {"form", "files", "preview", "fingerprint", "mayImport", "previewing",
      "listed", "all", "chosen", "exporting"} \subseteq DOMAIN page
  /\ page.mayImport => page.preview = page.fingerprint
  /\ Transfer!ActsOnWhatIsShown

LEMMA TransferStarts == Transfer!Init => TransferInv
BY DEF Transfer!Init, TransferInv, Transfer!ActsOnWhatIsShown

LEMMA TransferGoesOn == TransferInv /\ Transfer!Next => TransferInv'
<1> SUFFICES ASSUME TransferInv, Transfer!Next PROVE TransferInv'
  OBVIOUS
<1> DEFINE Parts == {"form", "files", "preview", "fingerprint", "mayImport", "previewing",
                     "listed", "all", "chosen", "exporting"}
           Goal == /\ Parts \subseteq DOMAIN page'
                   /\ page'.mayImport => page'.preview = page'.fingerprint
                   /\ \A c \in calls' : c \in calls \/ c.kind # "import" \/ c.payload = c.seen
<1>0. Parts \subseteq DOMAIN page /\ (page.mayImport => page.preview = page.fingerprint)
  BY DEF TransferInv
<1>a. SUFFICES Goal
  BY DEF TransferInv, Transfer!ActsOnWhatIsShown
\* A page that was reset imports nothing.
<1>r. ASSUME NEW p, Parts \subseteq DOMAIN p
      PROVE  DOMAIN Transfer!Reset(p) = DOMAIN p /\ Transfer!Reset(p).mayImport = FALSE
  BY <1>r DEF Transfer!Reset
<1>1. ASSUME NEW payload, Transfer!EditImport(payload) PROVE Goal
  <2> DEFINE p == [page EXCEPT !.form = payload]
  <2>1. Parts \subseteq DOMAIN p /\ page' = Transfer!Reset(p) /\ calls' = calls
    BY <1>0, <1>1 DEF Transfer!EditImport
  <2> HIDE DEF p
  <2> QED
    BY <1>r, <2>1
<1>2. ASSUME NEW file, Transfer!ReadSelectedImportFile(file) PROVE Goal
  <2> DEFINE p == [page EXCEPT !.files = @ \cup {file}]
  <2>1. Parts \subseteq DOMAIN p /\ page' = Transfer!Reset(p) /\ calls' = calls
    BY <1>0, <1>2 DEF Transfer!ReadSelectedImportFile
  <2> HIDE DEF p
  <2> QED
    BY <1>r, <2>1
<1>3. ASSUME NEW file, NEW ok \in BOOLEAN, Transfer!FileRead(file, ok) PROVE Goal
  BY <1>0, <1>3 DEF Transfer!FileRead
<1>4. CASE Transfer!PreviewImport
  <2>1. CASE page' = Transfer!Reset(page) /\ calls' = calls
    BY <1>0, <1>r, <2>1
  <2>2. CASE page' = [page EXCEPT !.previewing = TRUE] /\ Transfer!Send([kind |-> "preview", payload |-> page.form])
    BY <1>0, <2>2 DEF Transfer!Send
  <2> QED
    BY <1>4, <2>1, <2>2 DEF Transfer!PreviewImport
<1>5. CASE Transfer!ImportCredentials
  <2>1. CASE page' = Transfer!Reset(page) /\ calls' = calls
    BY <1>0, <1>r, <2>1
  <2>2. CASE /\ page.mayImport /\ page.form = page.fingerprint /\ page' = [page EXCEPT !.mayImport = FALSE]
             /\ Transfer!Send([kind |-> "import", payload |-> page.form, seen |-> page.preview])
    BY <1>0, <2>2 DEF Transfer!Send
  <2> QED
    BY <1>5, <2>1, <2>2 DEF Transfer!ImportCredentials
<1>6. CASE Transfer!LoadCredentials
  BY <1>0, <1>6 DEF Transfer!LoadCredentials, Transfer!Send
<1>7. CASE Transfer!ExportAll
  BY <1>0, <1>7 DEF Transfer!ExportAll
<1>8. CASE Transfer!ExportCredentials
  BY <1>0, <1>8 DEF Transfer!ExportCredentials, Transfer!Send
<1>9. ASSUME NEW id, Transfer!Choose(id) PROVE Goal
  BY <1>0, <1>9 DEF Transfer!Choose
<1>10. ASSUME NEW c \in calls, NEW ok \in BOOLEAN, Transfer!Previewed(c, ok) PROVE Goal
  <2> DEFINE p == IF ok THEN [page EXCEPT !.preview = c.payload, !.fingerprint = c.payload, !.mayImport = TRUE]
                  ELSE Transfer!Reset(page)
  <2>1. page' = [p EXCEPT !.previewing = FALSE] /\ calls' = calls \ {c}
    BY <1>10 DEF Transfer!Previewed
  <2>2. DOMAIN p = DOMAIN page /\ (p.mayImport => p.preview = p.fingerprint)
    BY <1>0, <1>r
  <2> HIDE DEF p
  <2> QED
    BY <1>0, <2>1, <2>2
<1>11. ASSUME NEW c \in calls, NEW ok \in BOOLEAN, Transfer!Imported(c, ok) PROVE Goal
  <2> DEFINE p == [page EXCEPT !.form = IF ok THEN Nil ELSE @]
  <2>1. Parts \subseteq DOMAIN p /\ page' = Transfer!Reset(p)
    BY <1>0, <1>11 DEF Transfer!Imported
  <2> HIDE DEF p
  <2>2. \A d \in calls' : d \in calls \/ d.kind # "import"
    BY <1>11 DEF Transfer!Imported
  <2> QED
    BY <1>r, <2>1, <2>2
<1>12. ASSUME NEW c \in calls, NEW list, Transfer!Listed(c, list) PROVE Goal
  BY <1>0, <1>12 DEF Transfer!Listed
<1>13. ASSUME NEW c \in calls, Transfer!Exported(c) PROVE Goal
  BY <1>0, <1>13 DEF Transfer!Exported
<1> QED
  BY <1>1, <1>2, <1>3, <1>4, <1>5, <1>6, <1>7, <1>8, <1>9, <1>10, <1>11, <1>12, <1>13 DEF Transfer!Next

-----------------------------------------------------------------------------
(* The page of a Consumer: while its Credentials are being listed nothing is *)
(* shown and no resolve is of the present generation.                        *)

ResolveCall(c) == {"kind", "current", "token", "credential", "names"} \subseteq DOMAIN c
ConsumerInv ==
  /\ {"typed", "token", "discovering", "listed", "selected", "names", "drawn",
      "resolving", "results", "revealed"} \subseteq DOMAIN page
  /\ \A c \in calls : c.kind = "resolve" =>
       /\ ResolveCall(c)
       /\ c.current => c.credential = page.selected /\ c.token = page.token
  /\ \A c \in calls : c.kind = "discover" =>
       /\ c = [kind |-> "discover"] /\ page.discovering = TRUE /\ page.drawn = FALSE /\ page.results = Nil
       /\ \A d \in calls : d.kind = "resolve" => d.current = FALSE
  /\ Consumer!ActsOnWhatIsShown

LEMMA ConsumerStarts == Consumer!Init => ConsumerInv
BY DEF Consumer!Init, ConsumerInv, Consumer!ActsOnWhatIsShown

LEMMA OlderResolves ==
  ASSUME NEW set, \A c \in set : c.kind = "resolve" => ResolveCall(c)
  PROVE  \A c \in Consumer!Outdated(set) : /\ c.kind = "resolve" => ResolveCall(c) /\ c.current = FALSE
                                           /\ c.kind # "resolve" => c \in set
<1> SUFFICES ASSUME NEW b \in set
             PROVE  LET c == IF b.kind = "resolve" THEN [b EXCEPT !.current = FALSE] ELSE b
                    IN  /\ c.kind = "resolve" => ResolveCall(c) /\ c.current = FALSE
                        /\ c.kind # "resolve" => c \in set
  BY DEF Consumer!Outdated
<1>1. CASE b.kind = "resolve"
  <2> DEFINE c == [b EXCEPT !.current = FALSE]
  <2>1. DOMAIN c = DOMAIN b /\ c.kind = b.kind /\ c.current = FALSE
    BY <1>1 DEF ResolveCall
  <2>2. c.kind = "resolve" /\ c.current = FALSE /\ ResolveCall(c)
    BY <1>1, <2>1 DEF ResolveCall
  <2> QED
    BY <1>1, <2>2
<1>2. CASE b.kind # "resolve"
  BY <1>2
<1> QED
  BY <1>1, <1>2

LEMMA ConsumerGoesOn == ConsumerInv /\ Consumer!Next => ConsumerInv'
<1> SUFFICES ASSUME ConsumerInv, Consumer!Next PROVE ConsumerInv'
  OBVIOUS
<1> DEFINE Parts == {"typed", "token", "discovering", "listed", "selected", "names", "drawn",
                     "resolving", "results", "revealed"}
           Shown(p) == p.results # Nil => /\ p.results.credential = p.selected /\ p.results.token = p.token
                                          /\ p.revealed \subseteq p.results.names
           Listing(p, set) ==
             \A c \in set : c.kind = "discover" =>
               /\ c = [kind |-> "discover"] /\ p.discovering = TRUE /\ p.drawn = FALSE /\ p.results = Nil
               /\ \A d \in set : d.kind = "resolve" => d.current = FALSE
           Present(p, set) == \A c \in set : c.kind = "resolve" =>
                                /\ ResolveCall(c) /\ (c.current => c.credential = p.selected /\ c.token = p.token)
           Goal == Parts \subseteq DOMAIN page' /\ Present(page', calls') /\ Listing(page', calls') /\ Shown(page')
<1>0. Parts \subseteq DOMAIN page /\ Present(page, calls) /\ Listing(page, calls) /\ Shown(page)
  BY DEF ConsumerInv, Consumer!ActsOnWhatIsShown, ResolveCall
<1>a. SUFFICES Goal
  BY DEF ConsumerInv, Consumer!ActsOnWhatIsShown, ResolveCall
<1>o. /\ \A c \in Consumer!Outdated(calls) : /\ c.kind = "resolve" => ResolveCall(c) /\ c.current = FALSE
                                             /\ c.kind # "resolve" => c \in calls
      /\ \A c \in calls : \A d \in Consumer!Outdated(calls \ {c}) :
            /\ d.kind = "resolve" => ResolveCall(d) /\ d.current = FALSE
            /\ d.kind # "resolve" => d \in calls \ {c}
  BY <1>0, OlderResolves
<1>u. ASSUME NEW p, Parts \subseteq DOMAIN p
      PROVE  /\ DOMAIN Consumer!Unresolved(p) = DOMAIN p /\ Consumer!Unresolved(p).results = Nil
             /\ Consumer!Unresolved(p).discovering = p.discovering /\ Consumer!Unresolved(p).drawn = p.drawn
             /\ DOMAIN Consumer!Cleared(p) = DOMAIN p /\ Consumer!Cleared(p).results = Nil
             /\ Consumer!Cleared(p).discovering = p.discovering
  BY <1>u DEF Consumer!Unresolved, Consumer!Cleared
<1>1. ASSUME NEW token, Consumer!TypeToken(token) PROVE Goal
  BY <1>0, <1>1 DEF Consumer!TypeToken
<1>2. CASE Consumer!Discover
  <2>1. ~\E c \in calls : c.kind = "discover"
    BY <1>0, <1>2 DEF Consumer!Discover
  <2>2. CASE page' = [Consumer!Cleared(page) EXCEPT !.token = Nil] /\ calls' = Consumer!Outdated(calls)
    <3> DEFINE p == Consumer!Cleared(page)
    <3>1. DOMAIN p = DOMAIN page /\ p.results = Nil
      BY <1>0, <1>u
    <3> HIDE DEF p
    <3>2. DOMAIN page' = DOMAIN page /\ page'.results = Nil
      BY <1>0, <2>2, <3>1 DEF p
    <3> QED
      BY <1>0, <1>o, <2>1, <2>2, <3>2
  <2>3. CASE /\ page' = [Consumer!Unresolved(page) EXCEPT !.token = page.typed, !.discovering = TRUE, !.drawn = FALSE]
             /\ calls' = Consumer!Outdated(calls) \cup {[kind |-> "discover"]}
    <3> DEFINE p == Consumer!Unresolved(page)
    <3>1. DOMAIN p = DOMAIN page /\ p.results = Nil
      BY <1>0, <1>u
    <3> HIDE DEF p
    <3>2. DOMAIN page' = DOMAIN page /\ page'.results = Nil /\ page'.discovering = TRUE /\ page'.drawn = FALSE
      BY <1>0, <2>3, <3>1 DEF p
    <3>3. \A c \in calls' : \/ c = [kind |-> "discover"] /\ c.kind = "discover"
                            \/ c.kind = "resolve" /\ ResolveCall(c) /\ c.current = FALSE
                            \/ c.kind # "resolve" /\ c.kind # "discover"
      BY <1>o, <2>1, <2>3
    <3> QED
      BY <1>0, <3>2, <3>3
  <2> QED
    BY <1>2, <2>2, <2>3 DEF Consumer!Discover
<1>3. CASE Consumer!Resolve
  <2> DEFINE new == [kind |-> "resolve", current |-> TRUE, token |-> page.token,
                     credential |-> page.selected, names |-> page.names]
  <2>1. page' = [page EXCEPT !.resolving = TRUE] /\ calls' = calls \cup {new} /\ page.drawn
    BY <1>3 DEF Consumer!Resolve, Consumer!Send
  <2>2. new.kind = "resolve" /\ ResolveCall(new) /\ new.credential = page.selected /\ new.token = page.token
    BY DEF ResolveCall
  <2> HIDE DEF new
  <2>3. ~\E c \in calls : c.kind = "discover"
    BY <1>0, <2>1
  <2>4. DOMAIN page' = DOMAIN page /\ \A f \in Parts \ {"resolving"} : page'[f] = page[f]
    BY <1>0, <2>1
  <2> QED
    BY <1>0, <2>1, <2>2, <2>3, <2>4
<1>4. ASSUME NEW credential, Consumer!SelectCredential(credential) PROVE Goal
  <2> DEFINE p == Consumer!Unresolved(page)
  <2>1. DOMAIN p = DOMAIN page /\ p.results = Nil
    BY <1>0, <1>u
  <2>2. ~\E c \in calls : c.kind = "discover"
    BY <1>0, <1>4 DEF Consumer!SelectCredential
  <2>3. page' = [p EXCEPT !.selected = credential] /\ calls' = Consumer!Outdated(calls)
    BY <1>4 DEF Consumer!SelectCredential
  <2> HIDE DEF p
  <2>4. DOMAIN page' = DOMAIN page /\ page'.results = Nil
    BY <1>0, <2>1, <2>3
  <2> QED
    BY <1>0, <1>o, <2>2, <2>3, <2>4
<1>5. ASSUME NEW name, Consumer!ToggleName(name) PROVE Goal
  BY <1>0, <1>5 DEF Consumer!ToggleName
<1>6. ASSUME NEW name, Consumer!Reveal(name) PROVE Goal
  <2>1. DOMAIN page' = DOMAIN page /\ \A f \in Parts \ {"revealed"} : page'[f] = page[f]
    BY <1>0, <1>6 DEF Consumer!Reveal
  <2>2. page'.revealed \subseteq page.revealed \cup {name}
    BY <1>0, <1>6 DEF Consumer!Reveal
  <2>3. name \in page.results.names /\ calls' = calls
    BY <1>6 DEF Consumer!Reveal
  <2> QED
    BY <1>0, <2>1, <2>2, <2>3
<1>7. ASSUME NEW c \in calls, NEW list, Consumer!Discovered(c, list) PROVE Goal
  <2>1. /\ c = [kind |-> "discover"] /\ page.results = Nil
        /\ \A d \in calls : d.kind = "resolve" => ResolveCall(d) /\ d.current = FALSE
        /\ \A d \in calls : d.kind = "discover" => d = c
    BY <1>0, <1>7 DEF Consumer!Discovered
  <2>2. calls' = calls \ {c} /\ DOMAIN page' = DOMAIN page /\ page'.results = page.results
    BY <1>0, <1>7 DEF Consumer!Discovered
  <2> QED
    BY <1>0, <2>1, <2>2
<1>8. ASSUME NEW c \in calls, Consumer!DiscoveryFailed(c) PROVE Goal
  <2> DEFINE p == Consumer!Cleared(page)
  <2>1. DOMAIN p = DOMAIN page /\ p.results = Nil
    BY <1>0, <1>u
  <2>2. page' = [p EXCEPT !.discovering = FALSE] /\ calls' = Consumer!Outdated(calls \ {c})
    BY <1>8 DEF Consumer!DiscoveryFailed
  <2> HIDE DEF p
  <2>3. DOMAIN page' = DOMAIN page /\ page'.results = Nil
    BY <1>0, <2>1, <2>2
  <2>4. \A d \in calls : d.kind = "discover" => d = c
    BY <1>0, <1>8 DEF Consumer!DiscoveryFailed
  <2> QED
    BY <1>0, <1>o, <2>2, <2>3, <2>4
<1>9. ASSUME NEW c \in calls, NEW ok \in BOOLEAN, Consumer!Resolved(c, ok) PROVE Goal
  <2>1. c.kind = "resolve" /\ calls' = calls \ {c}
    BY <1>9 DEF Consumer!Resolved
  <2>2. CASE ~c.current
    BY <1>0, <1>9, <2>1, <2>2 DEF Consumer!Resolved
  <2>3. CASE c.current
    <3> DEFINE results == IF ok THEN [token |-> c.token, credential |-> c.credential, names |-> c.names] ELSE Nil
    <3>1. page' = [page EXCEPT !.resolving = FALSE, !.revealed = {}, !.results = results]
      BY <1>9, <2>3 DEF Consumer!Resolved
    <3>2. DOMAIN page' = DOMAIN page /\ page'.results = results /\ page'.revealed = {}
          /\ \A f \in Parts \ {"resolving", "revealed", "results"} : page'[f] = page[f]
      BY <1>0, <3>1
    <3>3. results # Nil => results.credential = page.selected /\ results.token = page.token
      BY <1>0, <2>1, <2>3
    <3>4. ~\E d \in calls : d.kind = "discover"
      BY <1>0, <2>1, <2>3
    <3> HIDE DEF results
    <3> QED
      BY <1>0, <2>1, <3>2, <3>3, <3>4
  <2> QED
    BY <2>2, <2>3
<1> QED
  BY <1>1, <1>2, <1>3, <1>4, <1>5, <1>6, <1>7, <1>8, <1>9 DEF Consumer!Next

-----------------------------------------------------------------------------
(* The wizard: what it holds to be verified was proved since the last       *)
(* change, and an attempt that may still say so has not been overtaken.     *)

Chosen == Wizard!Providers \cup {Nil}
PageOK(p, n) ==
  /\ {"step", "flow", "auth", "provider", "method", "data", "dirty", "tested", "testing", "created",
      "creating", "offered"} \subseteq DOMAIN p
  /\ p.provider \in Chosen /\ p.created.credential \in 0 .. n
LoginOK(l, n) ==
  /\ {"pending", "window", "popup", "visiting", "result"} \subseteq DOMAIN l
  /\ l.visiting \in Chosen /\ l.result.credential \in 0 .. n
PanelOK(p, n) ==
  /\ {"consumer", "names", "entered", "plaintext", "tokens", "loading", "saved", "verified"} \subseteq DOMAIN p
  /\ p.consumer \in Consumers \cup {Nil} /\ p.names \in SUBSET Names /\ p.tokens \subseteq Consumers
  /\ p.saved # Nil => p.saved.credential \in 1 .. n
ServerOK(s) ==
  /\ {"made", "tokens", "grants"} \subseteq DOMAIN s
  /\ s.made \in Seq(Chosen) /\ s.tokens \subseteq Consumers
CallOK(c, n, saved) ==
  /\ c.kind = "start" => {"kind", "own", "provider"} \subseteq DOMAIN c /\ c.provider \in Chosen
  /\ c.kind = "create" => c.provider \in Chosen
  /\ Wizard!OfGrant(c) =>
       /\ {"kind", "at", "config", "current", "fresh", "token"} \subseteq DOMAIN c
       /\ c.config \in Configurations /\ c.config.credential \in 1 .. n
       /\ c.current => c.fresh
       /\ c.current /\ c.at = "resolve" => saved # Nil
CallsOK(set, n, saved) == \A c \in set : CallOK(c, n, saved)
Proved(p, shown) ==
  p.verified # Nil => p.saved # Nil /\ [credential |-> p.verified.credential, names |-> p.verified.names] \in shown
WizardInv ==
  /\ ServerOK(server) /\ PageOK(page, Len(server.made)) /\ LoginOK(login, Len(server.made))
  /\ PanelOK(panel, Len(server.made)) /\ CallsOK(calls, Len(server.made), panel.saved)
  /\ Proved(panel, proof)

LEMMA WizardStarts == Wizard!Init => WizardInv
<1> SUFFICES ASSUME Wizard!Init PROVE WizardInv
  OBVIOUS
<1>1. PICK returned \in {Wizard!NoOutcome, [status |-> "success", credential |-> 1],
                        [status |-> "cancelled", credential |-> 0]} :
        /\ login = [pending |-> FALSE, window |-> FALSE, popup |-> FALSE, visiting |-> Nil, result |-> returned]
        /\ panel = [consumer |-> Nil, names |-> {}, entered |-> Nil, plaintext |-> Nil, tokens |-> {},
                    loading |-> returned.status = "success", saved |-> Nil, verified |-> Nil]
        /\ server = [made |-> IF returned.credential = 1 THEN <<"oauth">> ELSE <<>>,
                     tokens |-> {CHOOSE c \in Consumers : TRUE},
                     grants |-> [b \in Consumers \X (1 .. MaxCreated) |-> {}]]
  BY DEF Wizard!Init
<1>2. calls = {}
  BY DEF Wizard!Init
<1>3. /\ {"step", "flow", "auth", "provider", "method", "data", "dirty", "tested", "testing", "created",
          "creating", "offered"} \subseteq DOMAIN page
      /\ page.provider \in Chosen /\ page.created.credential = 0
  BY DEF Wizard!Init, Wizard!NoOutcome, Chosen, Wizard!Providers
<1>4. server.made \in Seq(Chosen) /\ Len(server.made) \in Nat /\ returned.credential \in 0 .. Len(server.made)
  <2>1. "oauth" \in Chosen
    BY DEF Chosen, Wizard!Providers
  <2>2. <<"oauth">> \in Seq(Chosen) /\ Len(<<"oauth">>) = 1 /\ <<>> \in Seq(Chosen) /\ Len(<<>>) = 0
    BY <2>1
  <2>3. CASE returned.credential = 1
    <3>1. server.made = <<"oauth">>
      BY <1>1, <2>3
    <3> QED
      BY <2>2, <2>3, <3>1
  <2>4. CASE returned.credential # 1
    <3>1. server.made = <<>> /\ returned.credential = 0
      BY <1>1, <2>4 DEF Wizard!NoOutcome
    <3> QED
      BY <2>2, <3>1
  <2> QED
    BY <2>3, <2>4
<1>5. ServerOK(server)
  BY <1>1, <1>4, PagesAssumption DEF ServerOK
<1>6. LoginOK(login, Len(server.made)) /\ PanelOK(panel, Len(server.made)) /\ Proved(panel, proof)
  BY <1>1, <1>4 DEF LoginOK, PanelOK, Proved, Chosen
<1> QED
  BY <1>2, <1>3, <1>4, <1>5, <1>6 DEF WizardInv, PageOK, CallsOK

\* What an overtaken attempt, a closed popup and a new Credential leave sound.
LEMMA OvertakenCalls ==
  ASSUME NEW set, NEW n, NEW saved, CallsOK(set, n, saved)
  PROVE  /\ \A other : CallsOK(Wizard!Unproven(set), n, other) /\ CallsOK(Wizard!Outdated(set), n, other)
         /\ CallsOK(Wizard!PopupGone(set), n, saved)
<1>1. ASSUME NEW c \in set, NEW other
      PROVE  /\ CallOK(IF Wizard!OfGrant(c) THEN [c EXCEPT !.current = FALSE, !.fresh = FALSE] ELSE c, n, other)
             /\ CallOK(IF Wizard!OfGrant(c) THEN [c EXCEPT !.current = FALSE] ELSE c, n, other)
  <2>1. CallOK(c, n, saved)
    BY DEF CallsOK
  <2>2. CASE Wizard!OfGrant(c)
    BY <2>1, <2>2 DEF CallOK, Wizard!OfGrant
  <2>3. CASE ~Wizard!OfGrant(c)
    BY <2>1, <2>3 DEF CallOK
  <2> QED
    BY <2>2, <2>3
<1>2. ASSUME NEW c \in set
      PROVE  CallOK(IF c.kind = "start" THEN [c EXCEPT !.own = FALSE] ELSE c, n, saved)
  <2>1. CallOK(c, n, saved)
    BY DEF CallsOK
  <2>2. CASE c.kind = "start"
    BY <2>1, <2>2 DEF CallOK, Wizard!OfGrant
  <2>3. CASE c.kind # "start"
    BY <2>1, <2>3
  <2> QED
    BY <2>2, <2>3
<1> QED
  BY <1>1, <1>2 DEF CallsOK, Wizard!Unproven, Wizard!Outdated, Wizard!PopupGone

LEMMA CallsGrow ==
  ASSUME NEW set, NEW n \in Nat, NEW saved, CallsOK(set, n, saved) PROVE CallsOK(set, n + 1, saved)
BY DEF CallsOK, CallOK

\* A new Credential: what was saved for another is forgotten.
LEMMA CredentialAdded ==
  ASSUME WizardInv, NEW chosen \in Chosen, server' = [server EXCEPT !.made = Append(@, chosen)],
         NEW p, p = [Wizard!Prepared(Len(server.made) + 1) EXCEPT !.loading = TRUE],
         NEW set, CallsOK(set, Len(server.made), panel.saved)
  PROVE  /\ ServerOK(server') /\ Len(server.made) \in Nat /\ Len(server'.made) = Len(server.made) + 1
         /\ PanelOK(p, Len(server'.made)) /\ Proved(p, {})
         /\ CallsOK(Wizard!Unproven(set), Len(server'.made), p.saved)
<1> DEFINE n == Len(server.made)
<1>1. ServerOK(server) /\ PanelOK(panel, n) /\ Proved(panel, proof)
  BY DEF WizardInv
<1>2. /\ n \in Nat /\ server'.made = Append(server.made, chosen) /\ Len(server'.made) = n + 1
      /\ server'.made \in Seq(Chosen) /\ DOMAIN server' = DOMAIN server /\ server'.tokens = server.tokens
  BY <1>1, AppendProperties, LenProperties DEF ServerOK
<1>3. ServerOK(server')
  BY <1>1, <1>2 DEF ServerOK
<1> DEFINE bare == Wizard!Prepared(n + 1)
<1>4. PanelOK(bare, n) /\ bare.verified = Nil
  <2>1. CASE panel.saved # Nil
    <3>1. panel.saved.credential # n + 1
      BY <1>1, <1>2, <2>1 DEF PanelOK
    <3>2. bare = [panel EXCEPT !.saved = Nil, !.verified = Nil, !.consumer = Nil, !.names = {}]
      BY <2>1, <3>1 DEF Wizard!Prepared
    <3> QED
      BY <1>1, <3>2 DEF PanelOK
  <2>2. CASE panel.saved = Nil
    <3>1. bare = panel
      BY <2>2 DEF Wizard!Prepared
    <3>2. panel.verified = Nil
      BY <1>1, <2>2 DEF Proved
    <3> QED
      BY <1>1, <3>1, <3>2
  <2> QED
    BY <2>1, <2>2
<1> HIDE DEF bare
<1>5. PanelOK(p, n) /\ p.verified = Nil
  <2>1. p = [bare EXCEPT !.loading = TRUE]
    BY DEF bare
  <2> QED
    BY <1>4, <2>1 DEF PanelOK
<1>6. PanelOK(p, n + 1) /\ Proved(p, {})
  BY <1>2, <1>5 DEF PanelOK, Proved
<1>7. CallsOK(Wizard!Unproven(set), n + 1, p.saved)
  BY <1>2, OvertakenCalls, CallsGrow
<1> QED
  BY <1>2, <1>3, <1>6, <1>7

\* The panel is drawn, the flow moves on, a step is set: what was created stays.
LEMMA PageStays ==
  ASSUME NEW n, PageOK(page, n)
  PROVE  /\ \A flow : PageOK([page EXCEPT !.flow = flow], n)
         /\ \A step : PageOK(Wizard!SetStep(step), n)
<1>1. ASSUME NEW flow PROVE PageOK([page EXCEPT !.flow = flow], n)
  BY DEF PageOK
<1>2. ASSUME NEW step PROVE PageOK(Wizard!SetStep(step), n)
  BY DEF PageOK, Wizard!SetStep
<1> QED
  BY <1>1, <1>2

LEMMA PanelDrawn ==
  ASSUME NEW n, NEW p, PanelOK(p, n)
  PROVE  /\ PanelOK(Wizard!Drawn(p), n)
         /\ Wizard!Drawn(p).saved = p.saved /\ Wizard!Drawn(p).verified = p.verified
BY DEF PanelOK, Wizard!Drawn

LEMMA PanelUnverified ==
  ASSUME NEW n, NEW p, PanelOK(p, n), NEW q, q = [p EXCEPT !.verified = Nil]
  PROVE  /\ PanelOK(q, n) /\ q.saved = p.saved /\ q.verified = Nil
         /\ PanelOK(Wizard!Drawn(q), n) /\ Wizard!Drawn(q).saved = p.saved /\ Wizard!Drawn(q).verified = Nil
<1>1. PanelOK(q, n) /\ q.saved = p.saved /\ q.verified = Nil
  BY DEF PanelOK
<1> QED
  BY <1>1, PanelDrawn

LEMMA CallsShrink ==
  ASSUME NEW set, NEW less, less \subseteq set, NEW n, NEW saved, CallsOK(set, n, saved)
  PROVE  CallsOK(less, n, saved)
BY DEF CallsOK

\* The parts of the invariant, put together again.
LEMMA WizardParts ==
  ASSUME WizardInv
  PROVE  LET n == Len(server.made) IN
         /\ n \in Nat /\ ServerOK(server) /\ PageOK(page, n) /\ LoginOK(login, n) /\ PanelOK(panel, n)
         /\ CallsOK(calls, n, panel.saved) /\ Proved(panel, proof)
BY LenProperties DEF WizardInv, ServerOK

LEMMA WizardWhole ==
  ASSUME NEW n, Len(server'.made) = n, ServerOK(server'), PageOK(page', n), LoginOK(login', n),
         PanelOK(panel', n), CallsOK(calls', n, panel'.saved), Proved(panel', proof')
  PROVE  WizardInv'
BY DEF WizardInv

\* The Credential the panel is about exists, and what it asks for is a configuration.
LEMMA ConfigurationShown ==
  ASSUME WizardInv, Wizard!Target # 0
  PROVE  /\ Wizard!Target \in 1 .. Len(server.made)
         /\ Wizard!Configuration \in Configurations /\ Wizard!Configuration.credential = Wizard!Target
<1>1. Wizard!Target \in 1 .. Len(server.made)
  BY WizardParts DEF Wizard!Target, PageOK, LoginOK
<1>2. Wizard!TargetProvider \in Chosen
  <2>1. CASE page.created.credential # 0
    <3>1. page.created.credential \in 1 .. Len(server.made)
      BY <1>1, <2>1 DEF Wizard!Target
    <3>2. server.made \in Seq(Chosen)
      BY WizardParts DEF ServerOK
    <3>3. server.made[page.created.credential] \in Chosen
      BY <3>1, <3>2, ElementOfSeq
    <3> QED
      BY <2>1, <3>3 DEF Wizard!TargetProvider
  <2>2. CASE page.created.credential = 0
    BY <2>2, WizardParts DEF Wizard!TargetProvider, PageOK
  <2> QED
    BY <2>1, <2>2
<1>3. panel.consumer \in Consumers \cup {Nil} /\ panel.names \in SUBSET Names
  BY WizardParts DEF PanelOK
<1> QED
  BY <1>1, <1>2, <1>3 DEF Wizard!Configuration, Configurations, Chosen

LEMMA AttemptOK ==
  ASSUME WizardInv, Wizard!Target # 0, NEW kind, NEW at, at # "resolve",
         kind \in {"token", "resolve", "diagnose"}, NEW saved
  PROVE  CallOK(Wizard!Attempt(kind, at), Len(server.made), saved)
<1> DEFINE a == Wizard!Attempt(kind, at)
<1>1. /\ a.kind = kind /\ a.at = at /\ a.config = Wizard!Configuration /\ a.fresh = TRUE
      /\ {"kind", "at", "config", "current", "fresh", "token"} \subseteq DOMAIN a
  BY DEF Wizard!Attempt
<1>2. a.config \in Configurations /\ a.config.credential \in 1 .. Len(server.made)
  BY <1>1, ConfigurationShown
<1> HIDE DEF a
<1> QED
  BY <1>1, <1>2 DEF CallOK, a

\* What the answers of an attempt do to the page, to the panel and to the calls.
Answered(n) ==
  /\ PageOK(page', n) /\ PanelOK(panel', n) /\ CallsOK(calls', n, panel'.saved) /\ Proved(panel', proof)

LEMMA AttemptFails ==
  ASSUME WizardInv, NEW a \in calls, Wizard!Fails(a)
  PROVE  Answered(Len(server.made))
<1> DEFINE n == Len(server.made)
<1>1. PageOK(page, n) /\ PanelOK(panel, n) /\ CallsOK(calls, n, panel.saved) /\ Proved(panel, proof)
  BY WizardParts
<1>2. calls' = calls \ {a}
  BY DEF Wizard!Fails
<1>3. CallsOK(calls', n, panel.saved)
  BY <1>1, <1>2, CallsShrink
<1>4. CASE a.current
  <2>1. /\ panel' = Wizard!Drawn([panel EXCEPT !.verified = Nil])
        /\ page' = [page EXCEPT !.flow = Wizard!FlowDrawn(FALSE, page.flow)]
    BY <1>4 DEF Wizard!Fails
  <2>2. PanelOK(panel', n) /\ panel'.saved = panel.saved /\ panel'.verified = Nil
    BY <1>1, <2>1, PanelUnverified
  <2>3. PageOK(page', n)
    BY <1>1, <2>1, PageStays
  <2> QED
    BY <1>3, <2>2, <2>3 DEF Answered, Proved
<1>5. CASE ~a.current
  <2>1. panel' = panel /\ page' = page
    BY <1>5 DEF Wizard!Fails
  <2> QED
    BY <1>1, <1>3, <2>1 DEF Answered
<1> QED
  BY <1>4, <1>5

LEMMA MovedOn ==
  ASSUME WizardInv, NEW a \in calls, Wizard!OfGrant(a), NEW at, NEW saved, saved # Nil \/ at # "resolve",
         panel.saved # Nil => saved # Nil, Wizard!GoOn(a, at)
  PROVE  CallsOK(calls', Len(server.made), saved)
<1> DEFINE n == Len(server.made)
<1>1. CallsOK(calls, n, panel.saved)
  BY WizardParts
<1>2. ASSUME NEW c \in calls PROVE CallOK(c, n, saved)
  <2>1. CallOK(c, n, panel.saved)
    BY <1>1 DEF CallsOK
  <2> QED
    BY <2>1 DEF CallOK
<1>3. CallOK([a EXCEPT !.at = at], n, saved)
  <2>1. CallOK(a, n, panel.saved)
    BY <1>1 DEF CallsOK
  <2> QED
    BY <2>1 DEF CallOK, Wizard!OfGrant
<1>4. calls' = (calls \ {a}) \cup {[a EXCEPT !.at = at]}
  BY DEF Wizard!GoOn
<1> QED
  BY <1>2, <1>3, <1>4 DEF CallsOK

LEMMA AttemptGoesOn ==
  ASSUME WizardInv, NEW a \in calls, Wizard!OfGrant(a), NEW at, at # "resolve", Wizard!GoOn(a, at),
         panel' = panel, page' = page
  PROVE  Answered(Len(server.made))
BY WizardParts, MovedOn DEF Answered

LEMMA GrantSaved ==
  ASSUME WizardInv, NEW a \in calls, Wizard!OfGrant(a), Wizard!Saved(a)
  PROVE  Answered(Len(server.made))
<1> DEFINE n == Len(server.made)
<1>1. PageOK(page, n) /\ PanelOK(panel, n) /\ CallsOK(calls, n, panel.saved) /\ Proved(panel, proof)
  BY WizardParts
<1>2. CASE a.current
  <2>1. Wizard!GoOn(a, "resolve") /\ panel' = [panel EXCEPT !.saved = a.config] /\ page' = page
    BY <1>2 DEF Wizard!Saved
  <2>2. a.config \in Configurations /\ a.config.credential \in 1 .. n /\ a.config # Nil
    <3>1. CallOK(a, n, panel.saved)
      BY <1>1 DEF CallsOK
    <3> QED
      BY <3>1, PagesAssumption DEF CallOK
  <2>3. PanelOK(panel', n) /\ panel'.saved = a.config /\ panel'.verified = panel.verified
    BY <1>1, <2>1, <2>2 DEF PanelOK
  <2>4. CallsOK(calls', n, panel'.saved)
    BY <2>1, <2>2, <2>3, MovedOn
  <2>5. Proved(panel', proof)
    BY <1>1, <2>2, <2>3 DEF Proved
  <2> QED
    BY <1>1, <2>1, <2>3, <2>4, <2>5 DEF Answered
<1>3. CASE ~a.current
  <2>1. calls' = calls \ {a} /\ panel' = panel /\ page' = page
    BY <1>3 DEF Wizard!Saved
  <2>2. CallsOK(calls', n, panel.saved)
    BY <1>1, <2>1, CallsShrink
  <2> QED
    BY <1>1, <2>1, <2>2 DEF Answered
<1> QED
  BY <1>2, <1>3

LEMMA AnswerWhole ==
  ASSUME WizardInv, Answered(Len(server.made)), UNCHANGED <<login, proof>>,
         ServerOK(server'), server'.made = server.made
  PROVE  WizardInv'
<1>1. LoginOK(login', Len(server.made)) /\ proof' = proof
  BY WizardParts
<1>2. Proved(panel', proof')
  BY <1>1 DEF Answered
<1> QED
  BY <1>1, <1>2, WizardWhole DEF Answered

LEMMA ServerWritten ==
  ASSUME WizardInv, NEW b, NEW names, server' = [server EXCEPT !.grants[b] = names]
  PROVE  ServerOK(server') /\ server'.made = server.made
BY WizardParts DEF ServerOK

-----------------------------------------------------------------------------
\* Nothing but the page changes.
LEMMA OnlyThePage ==
  ASSUME WizardInv, PageOK(page', Len(server.made)), UNCHANGED <<login, panel, calls, server, proof>>
  PROVE  WizardInv'
BY WizardParts DEF WizardInv

LEMMA UserActs ==
  ASSUME WizardInv, Wizard!User PROVE WizardInv'
<1> DEFINE n == Len(server.made)
<1>0. /\ n \in Nat /\ ServerOK(server) /\ PageOK(page, n) /\ LoginOK(login, n) /\ PanelOK(panel, n)
      /\ CallsOK(calls, n, panel.saved) /\ Proved(panel, proof)
  BY WizardParts
<1>1. ASSUME NEW auth, Wizard!SelectAuthType(auth) PROVE WizardInv'
  <2>1. page' = [Wizard!SetStep(2) EXCEPT !.auth = auth, !.provider = Nil, !.method = Nil, !.data = "none"]
    BY <1>1 DEF Wizard!SelectAuthType
  <2>2. PageOK(page', n)
    <3> DEFINE p == Wizard!SetStep(2)
    <3>1. PageOK(p, n)
      BY <1>0, PageStays
    <3> HIDE DEF p
    <3>2. page' = [p EXCEPT !.auth = auth, !.provider = Nil, !.method = Nil, !.data = "none"]
      BY <2>1 DEF p
    <3> QED
      BY <3>1, <3>2 DEF PageOK, Chosen
  <2> QED
    BY <1>1, <2>2, OnlyThePage DEF Wizard!SelectAuthType
<1>2. ASSUME NEW p \in Wizard!Providers, Wizard!SelectProvider(p) PROVE WizardInv'
  <2> DEFINE q == Wizard!SetStep(3)
  <2>1. page' = [q EXCEPT !.provider = p, !.method = Nil, !.data = "none", !.dirty = FALSE]
    BY <1>2 DEF Wizard!SelectProvider
  <2>2. PageOK(q, n)
    BY <1>0, PageStays
  <2> HIDE DEF q
  <2>3. PageOK(page', n)
    BY <2>1, <2>2 DEF PageOK, Chosen
  <2> QED
    BY <1>2, <2>3, OnlyThePage DEF Wizard!SelectProvider
<1>3. ASSUME NEW m, Wizard!SelectMethod(m) PROVE WizardInv'
  <2>1. page' = [page EXCEPT !.method = m, !.data = "none", !.dirty = FALSE]
    BY <1>3 DEF Wizard!SelectMethod
  <2>2. PageOK(page', n)
    BY <1>0, <2>1 DEF PageOK
  <2> QED
    BY <1>3, <2>2, OnlyThePage DEF Wizard!SelectMethod
<1>4. ASSUME Wizard!Input PROVE WizardInv'
  <2>1. PageOK(page', n)
    BY <1>0, <1>4 DEF PageOK, Wizard!Input
  <2> QED
    BY <1>4, <2>1, OnlyThePage DEF Wizard!Input
<1>5. ASSUME Wizard!GoOnward PROVE WizardInv'
  <2> DEFINE q == Wizard!SetStep(Wizard!NextStep)
  <2>1. PICK data \in IF page.step = 3 THEN {"complete", "blank"} ELSE {page.data} :
          page' = [Wizard!Collected(data, q) EXCEPT
                     !.offered = IF page.step = 3 THEN ~Wizard!IsOAuth ELSE Wizard!Collected(data, q).offered]
    BY <1>5 DEF Wizard!GoOnward
  <2>2. PageOK(q, n)
    BY <1>0, PageStays
  <2> HIDE DEF q
  <2>3. PageOK(Wizard!Collected(data, q), n)
    BY <2>2 DEF PageOK, Wizard!Collected
  <2>4. PageOK(page', n)
    BY <2>1, <2>3 DEF PageOK
  <2> QED
    BY <1>5, <2>4, OnlyThePage DEF Wizard!GoOnward
<1>6. ASSUME Wizard!Back PROVE WizardInv'
  <2>1. PageOK(page', n)
    BY <1>0, <1>6, PageStays DEF Wizard!Back
  <2>2. LoginOK(login', n)
    <3>1. CASE page.step = 4
      <4>1. login' = [login EXCEPT !.pending = FALSE, !.window = FALSE, !.result = Wizard!NoOutcome,
                                   !.popup = login.popup /\ ~login.window,
                                   !.visiting = IF login.window THEN Nil ELSE login.visiting]
        BY <1>6, <3>1 DEF Wizard!Back
      <4> QED
        BY <1>0, <4>1 DEF LoginOK, Chosen, Wizard!NoOutcome
    <3>2. CASE page.step # 4
      BY <1>0, <1>6, <3>2 DEF Wizard!Back
    <3> QED
      BY <3>1, <3>2
  <2>3. UNCHANGED <<panel, calls, server, proof>>
    BY <1>6 DEF Wizard!Back
  <2> QED
    BY <1>0, <2>1, <2>2, <2>3 DEF WizardInv
<1>7. ASSUME Wizard!TestConnection PROVE WizardInv'
  <2>1. PICK data \in {"complete", "blank"} : page' = [Wizard!Collected(data, page) EXCEPT !.testing = TRUE, !.tested = "none"]
    BY <1>7 DEF Wizard!TestConnection
  <2>2. PageOK(Wizard!Collected(data, page), n)
    BY <1>0 DEF PageOK, Wizard!Collected
  <2>3. PageOK(page', n)
    BY <2>1, <2>2 DEF PageOK
  <2> QED
    BY <1>7, <2>3, OnlyThePage DEF Wizard!TestConnection
<1>8. ASSUME Wizard!ClosePopup PROVE WizardInv'
  <2>1. LoginOK(login', n)
    BY <1>0, <1>8 DEF Wizard!ClosePopup, LoginOK, Chosen
  <2>2. CallsOK(calls', n, panel.saved)
    BY <1>0, <1>8, OvertakenCalls DEF Wizard!ClosePopup
  <2> QED
    BY <1>0, <1>8, <2>1, <2>2 DEF Wizard!ClosePopup, WizardInv
<1>9. ASSUME NEW blocked, Wizard!StartOAuth(blocked) PROVE WizardInv'
  <2>1. UNCHANGED <<panel, server, proof>>
    BY <1>9 DEF Wizard!StartOAuth
  <2>2. CASE page.data # "complete"
    <3>1. page' = Wizard!SetStep(3) /\ UNCHANGED <<login, calls>>
      BY <1>9, <2>2 DEF Wizard!StartOAuth
    <3>2. PageOK(page', n)
      BY <1>0, <3>1, PageStays
    <3> QED
      BY <2>1, <3>1, <3>2, OnlyThePage
  <2>3. CASE page.data = "complete" /\ blocked
    BY <1>0, <1>9, <2>1, <2>3, OnlyThePage DEF Wizard!StartOAuth
  <2>4. CASE page.data = "complete" /\ ~blocked
    <3> DEFINE c == [kind |-> "start", provider |-> page.provider, own |-> TRUE]
    <3>1. /\ page' = [page EXCEPT !.flow = "WAIT_CALLBACK"]
          /\ login' = [login EXCEPT !.pending = TRUE, !.window = TRUE, !.popup = TRUE, !.visiting = Nil]
          /\ calls' = calls \cup {c}
      BY <1>9, <2>4 DEF Wizard!StartOAuth
    <3>2. PageOK(page', n) /\ LoginOK(login', n)
      BY <1>0, <3>1, PageStays DEF LoginOK, Chosen
    <3>3. CallOK(c, n, panel.saved)
      BY <1>0 DEF CallOK, PageOK, Wizard!OfGrant
    <3>4. CallsOK(calls', n, panel.saved)
      BY <1>0, <3>1, <3>3 DEF CallsOK
    <3> QED
      BY <1>0, <2>1, <3>2, <3>4 DEF WizardInv
  <2> QED
    BY <2>2, <2>3, <2>4
<1>10. ASSUME Wizard!CreateCredential PROVE WizardInv'
  <2> DEFINE c == [kind |-> "create", provider |-> page.provider]
  <2>1. page' = [page EXCEPT !.creating = TRUE] /\ calls' = calls \cup {c} /\ UNCHANGED <<login, panel, server, proof>>
    BY <1>10 DEF Wizard!CreateCredential
  <2>2. PageOK(page', n)
    BY <1>0, <2>1 DEF PageOK
  <2>3. CallOK(c, n, panel.saved)
    BY <1>0 DEF CallOK, PageOK, Wizard!OfGrant
  <2>4. CallsOK(calls', n, panel.saved)
    BY <1>0, <2>1, <2>3 DEF CallsOK
  <2> QED
    BY <1>0, <2>1, <2>2, <2>4 DEF WizardInv
<1>11. ASSUME Wizard!EditCredential PROVE WizardInv'
  <2> DEFINE q == Wizard!SetStep(3)
  <2>1. /\ page' = [q EXCEPT !.created = Wizard!NoOutcome, !.offered = TRUE]
        /\ panel' = [panel EXCEPT !.verified = Nil] /\ calls' = Wizard!Unproven(calls)
        /\ UNCHANGED <<login, server>>
    BY <1>11 DEF Wizard!EditCredential
  <2>2. PageOK(q, n)
    BY <1>0, PageStays
  <2> HIDE DEF q
  <2>3. PageOK(page', n)
    BY <1>0, <2>1, <2>2 DEF PageOK, Wizard!NoOutcome
  <2>4. PanelOK(panel', n) /\ panel'.verified = Nil
    BY <1>0, <2>1, PanelUnverified
  <2>5. CallsOK(calls', n, panel'.saved)
    BY <1>0, <2>1, OvertakenCalls
  <2> QED
    BY <1>0, <2>1, <2>3, <2>4, <2>5 DEF WizardInv, Proved
<1>12. ASSUME Wizard!CreateConsumerToken PROVE WizardInv'
  <2> DEFINE a == Wizard!Attempt("token", "create")
  <2>1. calls' = Wizard!Outdated(calls) \cup {a} /\ UNCHANGED <<page, login, panel, server, proof>>
        /\ Wizard!Target # 0
    BY <1>12 DEF Wizard!CreateConsumerToken, Wizard!PanelShown
  <2>2. CallOK(a, n, panel.saved) /\ CallsOK(Wizard!Outdated(calls), n, panel.saved)
    BY <1>0, <2>1, AttemptOK, OvertakenCalls
  <2> HIDE DEF a
  <2>3. CallsOK(calls', n, panel.saved)
    BY <2>1, <2>2 DEF CallsOK
  <2> QED
    BY <1>0, <2>1, <2>3 DEF WizardInv
<1>13. ASSUME NEW c, Wizard!EnterToken(c) PROVE WizardInv'
  <2>1. /\ panel' = [panel EXCEPT !.entered = c, !.verified = Nil]
        /\ page' = [page EXCEPT !.flow = IF panel.verified # Nil THEN Wizard!FlowDrawn(FALSE, page.flow)
                                                                 ELSE page.flow]
        /\ calls' = Wizard!Unproven(calls) /\ UNCHANGED <<login, server>>
    BY <1>13 DEF Wizard!EnterToken
  <2>2. PageOK(page', n)
    BY <1>0, <2>1, PageStays
  <2>3. PanelOK(panel', n) /\ panel'.verified = Nil
    BY <1>0, <2>1 DEF PanelOK
  <2>4. CallsOK(calls', n, panel'.saved)
    BY <1>0, <2>1, OvertakenCalls
  <2> QED
    BY <1>0, <2>1, <2>2, <2>3, <2>4 DEF WizardInv, Proved
<1>14. ASSUME NEW c \in Consumers \cup {Nil}, NEW names \in SUBSET Names, Wizard!ChangeGrant(c, names)
       PROVE  WizardInv'
  <2>1. /\ panel' = [panel EXCEPT !.consumer = c, !.names = names, !.verified = Nil]
        /\ page' = [page EXCEPT !.flow = Wizard!FlowDrawn(FALSE, page.flow)]
        /\ calls' = Wizard!Unproven(calls) /\ UNCHANGED <<login, server>>
    BY <1>14 DEF Wizard!ChangeGrant
  <2>2. PageOK(page', n)
    BY <1>0, <2>1, PageStays
  <2>3. PanelOK(panel', n) /\ panel'.verified = Nil
    BY <1>0, <2>1 DEF PanelOK
  <2>4. CallsOK(calls', n, panel'.saved)
    BY <1>0, <2>1, OvertakenCalls
  <2> QED
    BY <1>0, <2>1, <2>2, <2>3, <2>4 DEF WizardInv, Proved
<1>15. ASSUME NEW kind \in {"resolve", "diagnose"}, Wizard!SubmitConsumerGrant(kind) PROVE WizardInv'
  <2>1. UNCHANGED <<login, server, proof>> /\ Wizard!Target # 0
    BY <1>15 DEF Wizard!SubmitConsumerGrant, Wizard!PanelShown
  <2>2. CASE panel.consumer = Nil \/ panel.names = {}
    <3>1. /\ panel' = Wizard!Drawn([panel EXCEPT !.verified = Nil])
          /\ page' = [page EXCEPT !.flow = Wizard!FlowDrawn(FALSE, page.flow)]
          /\ calls' = Wizard!Outdated(calls)
      BY <1>15, <2>2 DEF Wizard!SubmitConsumerGrant
    <3>2. PageOK(page', n) /\ PanelOK(panel', n) /\ panel'.verified = Nil
      BY <1>0, <3>1, PageStays, PanelUnverified
    <3>3. CallsOK(calls', n, panel'.saved)
      BY <1>0, <3>1, OvertakenCalls
    <3> QED
      BY <1>0, <2>1, <3>2, <3>3 DEF WizardInv, Proved
  <2>3. CASE ~(panel.consumer = Nil \/ panel.names = {})
    <3>1. PICK at : /\ at \in {"diagnose", "saved", "put", "load"}
                    /\ calls' = Wizard!Outdated(calls) \cup {Wizard!Attempt(kind, at)}
                    /\ UNCHANGED <<page, panel>>
      BY <1>15, <2>3 DEF Wizard!SubmitConsumerGrant
    <3> DEFINE a == Wizard!Attempt(kind, at)
    <3>2. CallOK(a, n, panel.saved) /\ CallsOK(Wizard!Outdated(calls), n, panel.saved)
      BY <1>0, <2>1, <3>1, AttemptOK, OvertakenCalls
    <3> HIDE DEF a
    <3>3. CallsOK(calls', n, panel.saved)
      BY <3>1, <3>2 DEF CallsOK, a
    <3> QED
      BY <1>0, <2>1, <3>1, <3>3 DEF WizardInv
  <2> QED
    BY <2>2, <2>3
<1> QED
  BY <1>1, <1>2, <1>3, <1>4, <1>5, <1>6, <1>7, <1>8, <1>9, <1>10, <1>11, <1>12, <1>13, <1>14, <1>15 DEF Wizard!User

\* One more Credential: what was sound stays so.
LEMMA PartsGrow ==
  ASSUME NEW n \in Nat, PageOK(page, n), LoginOK(login, n), PanelOK(panel, n)
  PROVE  PageOK(page, n + 1) /\ LoginOK(login, n + 1) /\ PanelOK(panel, n + 1)
BY DEF PageOK, LoginOK, PanelOK

LEMMA ServerGrows ==
  ASSUME WizardInv, NEW chosen \in Chosen, server' = [server EXCEPT !.made = Append(@, chosen)]
  PROVE  ServerOK(server') /\ Len(server'.made) = Len(server.made) + 1
<1> DEFINE p == [Wizard!Prepared(Len(server.made) + 1) EXCEPT !.loading = TRUE]
<1>1. CallsOK(calls, Len(server.made), panel.saved)
  BY WizardParts
<1> QED
  BY <1>1, CredentialAdded

LEMMA MessageReported ==
  ASSUME WizardInv, NEW status \in {"success", "cancelled", "error"}, Wizard!OAuthMessage(status)
  PROVE  WizardInv'
<1> DEFINE n == Len(server.made)
           credential == IF status = "success" THEN n + 1 ELSE 0
           result == [status |-> status, credential |-> credential]
           closed == [login EXCEPT !.popup = FALSE, !.visiting = Nil]
<1>0. /\ n \in Nat /\ ServerOK(server) /\ PageOK(page, n) /\ LoginOK(login, n) /\ PanelOK(panel, n)
      /\ CallsOK(calls, n, panel.saved) /\ Proved(panel, proof)
  BY WizardParts
<1>1. /\ server' = IF status = "success" THEN [server EXCEPT !.made = Append(@, login.visiting)] ELSE server
      /\ page.provider # login.visiting =>
           /\ login' = closed /\ calls' = Wizard!PopupGone(calls)
           /\ UNCHANGED <<page, panel, proof>>
      /\ page.provider = login.visiting =>
           /\ login' = [closed EXCEPT !.pending = FALSE, !.window = FALSE, !.result = result]
           /\ status = "success" =>
                /\ page' = [Wizard!SetStep(5) EXCEPT !.flow = "CREDENTIAL_READY", !.offered = FALSE]
                /\ panel' = [Wizard!Prepared(credential) EXCEPT !.loading = TRUE]
                /\ calls' = Wizard!Unproven(Wizard!PopupGone(calls)) /\ proof' = {}
           /\ status # "success" =>
                /\ page' = Wizard!SetStep(4)
                /\ calls' = Wizard!PopupGone(calls) /\ UNCHANGED <<panel, proof>>
  BY DEF Wizard!OAuthMessage
<1>2. LoginOK(closed, n) /\ CallsOK(Wizard!PopupGone(calls), n, panel.saved) /\ login.visiting \in Chosen
  <2>1. LoginOK(closed, n) /\ login.visiting \in Chosen
    BY <1>0 DEF LoginOK, Chosen
  <2> QED
    BY <1>0, <2>1, OvertakenCalls
<1>3. CASE status # "success"
  <2>1. server' = server /\ result.credential = 0 /\ panel' = panel /\ proof' = proof
        /\ calls' = Wizard!PopupGone(calls)
    BY <1>1, <1>3
  <2>2. LoginOK(login', n)
    <3>1. CASE page.provider # login.visiting
      BY <1>1, <1>2, <3>1
    <3>2. CASE page.provider = login.visiting
      <4> HIDE DEF closed, result
      <4>1. login' = [closed EXCEPT !.pending = FALSE, !.window = FALSE, !.result = result]
        BY <1>1, <3>2
      <4> QED
        BY <1>0, <1>2, <2>1, <4>1 DEF LoginOK
    <3> QED
      BY <3>1, <3>2
  <2>3. PageOK(page', n)
    BY <1>0, <1>1, <1>3, PageStays
  <2> QED
    BY <1>0, <1>2, <2>1, <2>2, <2>3 DEF WizardInv
<1>4. CASE status = "success"
  <2>1. /\ server' = [server EXCEPT !.made = Append(@, login.visiting)] /\ credential = n + 1
        /\ result.credential = n + 1
    BY <1>1, <1>4
  <2>2. ServerOK(server') /\ Len(server'.made) = n + 1
    BY <1>2, <2>1, ServerGrows
  <2>3. CASE page.provider # login.visiting
    <3>1. login' = closed /\ calls' = Wizard!PopupGone(calls) /\ UNCHANGED <<page, panel, proof>>
      BY <1>1, <2>3
    <3>2. LoginOK(login', n + 1) /\ PageOK(page', n + 1) /\ PanelOK(panel', n + 1)
      BY <1>0, <1>2, <3>1 DEF PageOK, LoginOK, PanelOK
    <3>3. CallsOK(calls', n + 1, panel'.saved)
      BY <1>0, <1>2, <3>1, CallsGrow
    <3> QED
      BY <1>0, <2>2, <3>1, <3>2, <3>3, WizardWhole
  <2>4. CASE page.provider = login.visiting
    <3> DEFINE q == Wizard!SetStep(5)
    <3>1. /\ login' = [closed EXCEPT !.pending = FALSE, !.window = FALSE, !.result = result]
          /\ page' = [q EXCEPT !.flow = "CREDENTIAL_READY", !.offered = FALSE]
          /\ panel' = [Wizard!Prepared(n + 1) EXCEPT !.loading = TRUE]
          /\ calls' = Wizard!Unproven(Wizard!PopupGone(calls)) /\ proof' = {}
      BY <1>1, <1>4, <2>1, <2>4
    <3>2. PanelOK(panel', n + 1) /\ Proved(panel', {}) /\ CallsOK(calls', n + 1, panel'.saved)
      BY <1>2, <2>1, <2>2, <3>1, CredentialAdded
    <3>3. PageOK(q, n)
      BY <1>0, PageStays
    <3> HIDE DEF q, closed, result
    <3>4. PageOK(page', n + 1)
      BY <1>0, <3>1, <3>3 DEF PageOK
    <3>5. LoginOK(login', n + 1)
      BY <1>0, <1>2, <2>1, <3>1 DEF LoginOK
    <3> QED
      BY <2>2, <3>1, <3>2, <3>4, <3>5, WizardWhole
  <2> QED
    BY <2>3, <2>4
<1> QED
  BY <1>3, <1>4

LEMMA CreationAnswered ==
  ASSUME WizardInv, NEW c \in calls, NEW ok \in BOOLEAN, Wizard!CredentialCreated(c, ok)
  PROVE  WizardInv'
<1> DEFINE n == Len(server.made)
           credential == IF ok THEN n + 1 ELSE 0
           created == [status |-> IF ok THEN "success" ELSE "failed", credential |-> credential]
<1>0. /\ n \in Nat /\ ServerOK(server) /\ PageOK(page, n) /\ LoginOK(login, n) /\ PanelOK(panel, n)
      /\ CallsOK(calls, n, panel.saved) /\ Proved(panel, proof)
  BY WizardParts
<1>1. /\ page' = [page EXCEPT !.creating = FALSE, !.offered = FALSE,
                              !.flow = IF ok THEN "CREDENTIAL_READY" ELSE "ERROR", !.created = created]
      /\ login' = login /\ c.kind = "create"
      /\ ok => /\ server' = [server EXCEPT !.made = Append(@, c.provider)]
               /\ panel' = [Wizard!Prepared(n + 1) EXCEPT !.loading = TRUE]
               /\ calls' = Wizard!Unproven(calls \ {c}) /\ proof' = {}
      /\ ~ok => server' = server /\ calls' = calls \ {c} /\ UNCHANGED <<panel, proof>>
  BY DEF Wizard!CredentialCreated
<1>2. CallsOK(calls \ {c}, n, panel.saved) /\ c.provider \in Chosen
  <2>1. CallOK(c, n, panel.saved)
    BY <1>0 DEF CallsOK
  <2> QED
    BY <1>0, <1>1, <2>1, CallsShrink DEF CallOK
<1>3. CASE ok
  <2>1. /\ ServerOK(server') /\ Len(server'.made) = n + 1 /\ PanelOK(panel', n + 1) /\ Proved(panel', {})
        /\ CallsOK(calls', n + 1, panel'.saved)
    BY <1>1, <1>2, <1>3, CredentialAdded
  <2>2. LoginOK(login', n + 1)
    BY <1>0, <1>1, PartsGrow
  <2>3. created.credential = n + 1
    BY <1>3
  <2> HIDE DEF created
  <2>4. PageOK(page', n + 1)
    BY <1>0, <1>1, <2>3 DEF PageOK
  <2> QED
    BY <1>1, <1>3, <2>1, <2>2, <2>4, WizardWhole
<1>4. CASE ~ok
  <2>1. created.credential = 0
    BY <1>4
  <2> HIDE DEF created
  <2>2. PageOK(page', n)
    BY <1>0, <1>1, <2>1 DEF PageOK
  <2> QED
    BY <1>0, <1>1, <1>2, <1>4, <2>2, WizardWhole
<1> QED
  BY <1>3, <1>4

LEMMA TokenAnswered ==
  ASSUME WizardInv, NEW a \in calls, NEW token \in Consumers \cup {Nil}, Wizard!ConsumerTokenCreated(a, token)
  PROVE  WizardInv'
<1> DEFINE n == Len(server.made)
<1>0. /\ n \in Nat /\ ServerOK(server) /\ PageOK(page, n) /\ LoginOK(login, n) /\ PanelOK(panel, n)
      /\ CallsOK(calls, n, panel.saved) /\ Proved(panel, proof)
  BY WizardParts
<1>1. login' = login
  BY DEF Wizard!ConsumerTokenCreated
<1>2. ServerOK(server') /\ server'.made = server.made
  <2>1. CASE token # Nil
    <3>1. server' = [server EXCEPT !.tokens = @ \cup {token}]
      BY <2>1 DEF Wizard!ConsumerTokenCreated
    <3> QED
      BY <1>0, <2>1, <3>1 DEF ServerOK
  <2>2. CASE token = Nil
    BY <1>0, <2>2 DEF Wizard!ConsumerTokenCreated
  <2> QED
    BY <2>1, <2>2
<1>3. /\ CallsOK(calls \ {a}, n, panel.saved)
      /\ \A other : CallsOK(Wizard!Unproven(calls \ {a}), n, other)
  BY <1>0, CallsShrink, OvertakenCalls
<1>4. CASE ~a.current
  <2>1. UNCHANGED <<page, panel, proof>> /\ calls' = calls \ {a}
    BY <1>4 DEF Wizard!ConsumerTokenCreated
  <2> QED
    BY <1>0, <1>1, <1>2, <1>3, <2>1, WizardWhole
<1>5. CASE a.current
  <2>1. page' = [page EXCEPT !.flow = Wizard!FlowDrawn(token = Nil /\ Wizard!IntegrationComplete, page.flow)]
    BY <1>5 DEF Wizard!ConsumerTokenCreated
  <2>2. PageOK(page', n)
    BY <1>0, <2>1, PageStays
  <2>3. CASE token = Nil
    <3>1. panel' = Wizard!Drawn(panel) /\ calls' = calls \ {a} /\ proof' = proof
      BY <1>5, <2>3 DEF Wizard!ConsumerTokenCreated
    <3>2. PanelOK(panel', n) /\ panel'.saved = panel.saved /\ panel'.verified = panel.verified
      BY <1>0, <3>1, PanelDrawn
    <3>3. Proved(panel', proof') /\ CallsOK(calls', n, panel'.saved)
      BY <1>0, <1>3, <3>1, <3>2 DEF Proved
    <3> QED
      BY <1>0, <1>1, <1>2, <2>2, <3>2, <3>3, WizardWhole
  <2>4. CASE token # Nil
    <3> DEFINE p == [panel EXCEPT !.plaintext = token, !.tokens = @ \cup {token}, !.consumer = token,
                                  !.verified = Nil]
    <3>1. panel' = Wizard!Drawn(p) /\ calls' = Wizard!Unproven(calls \ {a})
      BY <1>5, <2>4 DEF Wizard!ConsumerTokenCreated
    <3>2. PanelOK(p, n) /\ p.verified = Nil
      BY <1>0, <2>4 DEF PanelOK
    <3> HIDE DEF p
    <3>3. PanelOK(panel', n) /\ panel'.verified = Nil
      BY <3>1, <3>2, PanelDrawn
    <3>4. Proved(panel', proof') /\ CallsOK(calls', n, panel'.saved)
      BY <1>3, <3>1, <3>3 DEF Proved
    <3> QED
      BY <1>0, <1>1, <1>2, <2>2, <3>3, <3>4, WizardWhole
  <2> QED
    BY <2>3, <2>4
<1> QED
  BY <1>4, <1>5

\* Only an attempt that was not overtaken tells the page, and that one is fresh.
LEMMA ResolveVerified ==
  ASSUME WizardInv, NEW a \in calls, Wizard!OfGrant(a), Wizard!VerifyRealResolve(a)
  PROVE  WizardInv'
<1> DEFINE n == Len(server.made)
           shown == [credential |-> a.config.credential, names |-> a.config.names]
<1>0. /\ n \in Nat /\ ServerOK(server) /\ PageOK(page, n) /\ LoginOK(login, n) /\ PanelOK(panel, n)
      /\ CallsOK(calls, n, panel.saved) /\ Proved(panel, proof)
  BY WizardParts
<1>1. /\ calls' = calls \ {a} /\ UNCHANGED <<login, server>> /\ a.at = "resolve"
      /\ proof' = IF a.fresh THEN proof \cup {shown} ELSE proof
  BY DEF Wizard!VerifyRealResolve
<1>2. CallsOK(calls', n, panel.saved)
  BY <1>0, <1>1, CallsShrink
<1>3. CASE a.current
  <2> DEFINE p == [panel EXCEPT !.verified = a.config,
                                !.plaintext = IF a.token = panel.plaintext THEN Nil ELSE panel.plaintext]
  <2>1. /\ panel' = Wizard!Drawn(p)
        /\ page' = [page EXCEPT !.flow = Wizard!FlowDrawn(a.config = Wizard!Configuration, "INTEGRATION_COMPLETE")]
    BY <1>3 DEF Wizard!VerifyRealResolve
  <2>2. a.fresh /\ panel.saved # Nil
    <3>1. CallOK(a, n, panel.saved)
      BY <1>0 DEF CallsOK
    <3> QED
      BY <1>1, <1>3, <3>1 DEF CallOK
  <2>3. shown \in proof'
    BY <1>1, <2>2
  <2>4. PanelOK(p, n) /\ p.saved = panel.saved /\ p.verified = a.config
    BY <1>0 DEF PanelOK
  <2> HIDE DEF p
  <2>5. PanelOK(panel', n) /\ panel'.saved = panel.saved /\ panel'.verified = a.config
    BY <2>1, <2>4, PanelDrawn
  <2>6. Proved(panel', proof')
    BY <2>2, <2>3, <2>5 DEF Proved
  <2>7. PageOK(page', n)
    BY <1>0, <2>1, PageStays
  <2> QED
    BY <1>0, <1>1, <1>2, <2>5, <2>6, <2>7, WizardWhole
<1>4. CASE ~a.current
  <2>1. UNCHANGED <<panel, page>>
    BY <1>4 DEF Wizard!VerifyRealResolve
  <2>2. Proved(panel', proof')
    BY <1>0, <1>1, <2>1 DEF Proved
  <2> QED
    BY <1>0, <1>1, <1>2, <2>1, <2>2, WizardWhole
<1> QED
  BY <1>3, <1>4

LEMMA GrantAnswered ==
  ASSUME WizardInv, NEW a \in calls, Wizard!OfGrant(a), Wizard!SynchronizeGrant(a)
  PROVE  WizardInv'
<1> DEFINE n == Len(server.made)
           kept == ServerOK(server') /\ server'.made = server.made
<1>0. UNCHANGED <<login, proof>> /\ ServerOK(server)
  BY WizardParts DEF Wizard!SynchronizeGrant
<1>1. UNCHANGED server => kept
  BY <1>0
<1>2. Wizard!Write(a) => kept
  BY ServerWritten DEF Wizard!Write
<1>3. Wizard!Saved(a) => Answered(n)
  BY GrantSaved
<1>4. Wizard!Fails(a) => Answered(n)
  BY AttemptFails
<1>5. ASSUME NEW at \in {"put", "post", "reload"}, Wizard!GoOn(a, at), UNCHANGED <<panel, page>>
      PROVE  Answered(n)
  BY <1>5, AttemptGoesOn
<1> HIDE DEF kept, n
<1>6. kept /\ Answered(n)
  <2>1. CASE a.at = "saved" /\ Wizard!Saved(a) /\ UNCHANGED server
    BY <1>1, <1>3, <2>1
  <2>2. CASE /\ a.at \in {"load", "reload"} /\ UNCHANGED server
             /\ IF Wizard!Known(a)
                THEN IF server.grants[Wizard!Binding(a)] = a.config.names
                     THEN Wizard!Saved(a) ELSE Wizard!GoOn(a, "put") /\ UNCHANGED <<panel, page>>
                ELSE IF a.at = "load" THEN Wizard!GoOn(a, "post") /\ UNCHANGED <<panel, page>>
                     ELSE Wizard!Fails(a)
    <3>1. \/ Wizard!Saved(a) \/ Wizard!Fails(a)
          \/ Wizard!GoOn(a, "put") /\ UNCHANGED <<panel, page>>
          \/ Wizard!GoOn(a, "post") /\ UNCHANGED <<panel, page>>
      BY <2>2
    <3> QED
      BY <1>1, <1>3, <1>4, <1>5, <2>2, <3>1
  <2>3. CASE a.at = "put" /\ Wizard!Known(a) /\ Wizard!Write(a) /\ Wizard!Saved(a)
    BY <1>2, <1>3, <2>3
  <2>4. CASE /\ a.at = "post" /\ server.made[a.config.credential] = a.config.provider
             /\ IF Wizard!Known(a) THEN Wizard!GoOn(a, "reload") /\ UNCHANGED <<panel, page, server>>
                ELSE Wizard!Write(a) /\ Wizard!Saved(a)
    <3>1. \/ Wizard!GoOn(a, "reload") /\ UNCHANGED <<panel, page>> /\ UNCHANGED server
          \/ Wizard!Write(a) /\ Wizard!Saved(a)
      BY <2>4
    <3> QED
      BY <1>1, <1>2, <1>3, <1>5, <3>1
  <2> QED
    BY <2>1, <2>2, <2>3, <2>4 DEF Wizard!SynchronizeGrant
<1> QED
  BY <1>0, <1>6, AnswerWhole DEF kept, n

LEMMA AnswerLost ==
  ASSUME WizardInv, NEW a \in calls, Wizard!Undelivered(a)
  PROVE  WizardInv'
<1>1. UNCHANGED <<login, proof>> /\ Wizard!Fails(a) /\ (Wizard!Write(a) \/ UNCHANGED server)
  BY DEF Wizard!Undelivered
<1>2. ServerOK(server') /\ server'.made = server.made
  <2>1. CASE Wizard!Write(a)
    BY <2>1, ServerWritten DEF Wizard!Write
  <2>2. CASE UNCHANGED server
    BY <2>2, WizardParts
  <2> QED
    BY <1>1, <2>1, <2>2
<1> QED
  BY <1>1, <1>2, AttemptFails, AnswerWhole

LEMMA DiagnosisShown ==
  ASSUME WizardInv, NEW a \in calls, Wizard!Diagnosed(a)
  PROVE  WizardInv'
<1> DEFINE n == Len(server.made)
<1>0. /\ n \in Nat /\ ServerOK(server) /\ PageOK(page, n) /\ LoginOK(login, n) /\ PanelOK(panel, n)
      /\ CallsOK(calls, n, panel.saved) /\ Proved(panel, proof)
  BY WizardParts
<1>1. calls' = calls \ {a} /\ UNCHANGED <<login, server, proof>>
  BY DEF Wizard!Diagnosed
<1>2. CallsOK(calls', n, panel.saved)
  BY <1>0, <1>1, CallsShrink
<1>3. CASE a.current
  <2>1. /\ panel' = Wizard!Drawn(panel)
        /\ page' = [page EXCEPT !.flow = Wizard!FlowDrawn(Wizard!IntegrationComplete, page.flow)]
    BY <1>3 DEF Wizard!Diagnosed
  <2>2. PanelOK(panel', n) /\ panel'.saved = panel.saved /\ panel'.verified = panel.verified
    BY <1>0, <2>1, PanelDrawn
  <2>3. PageOK(page', n) /\ Proved(panel', proof')
    BY <1>0, <1>1, <2>1, <2>2, PageStays DEF Proved
  <2> QED
    BY <1>0, <1>1, <1>2, <2>2, <2>3, WizardWhole
<1>4. CASE ~a.current
  <2>1. UNCHANGED <<panel, page>>
    BY <1>4 DEF Wizard!Diagnosed
  <2> QED
    BY <1>0, <1>1, <1>2, <2>1, WizardWhole
<1> QED
  BY <1>3, <1>4

LEMMA PopupAnswered ==
  ASSUME WizardInv, NEW c \in calls, NEW ok \in BOOLEAN, Wizard!StartAnswered(c, ok)
  PROVE  WizardInv'
<1> DEFINE n == Len(server.made)
<1>0. /\ n \in Nat /\ ServerOK(server) /\ PageOK(page, n) /\ LoginOK(login, n) /\ PanelOK(panel, n)
      /\ CallsOK(calls, n, panel.saved) /\ Proved(panel, proof)
  BY WizardParts
<1>1. calls' = calls \ {c} /\ UNCHANGED <<panel, server, proof>> /\ c.kind = "start"
  BY DEF Wizard!StartAnswered, Wizard!Starts
<1>2. CallsOK(calls', n, panel.saved) /\ c.provider \in Chosen
  <2>1. CallOK(c, n, panel.saved)
    BY <1>0 DEF CallsOK
  <2> QED
    BY <1>0, <1>1, <2>1, CallsShrink DEF CallOK
<1>3. CASE ok
  <2>1. /\ login' = [login EXCEPT !.visiting = IF c.own /\ login.popup THEN c.provider ELSE login.visiting]
        /\ page' = page
    BY <1>3 DEF Wizard!StartAnswered
  <2>2. LoginOK(login', n)
    BY <1>0, <1>2, <2>1 DEF LoginOK
  <2> QED
    BY <1>0, <1>1, <1>2, <2>1, <2>2, WizardWhole
<1>4. CASE ~ok
  <2>1. /\ login' = [login EXCEPT !.window = FALSE, !.pending = FALSE,
                                  !.popup = login.popup /\ ~c.own,
                                  !.visiting = IF c.own THEN Nil ELSE login.visiting]
        /\ page' = [page EXCEPT !.flow = "ERROR"]
    BY <1>4 DEF Wizard!StartAnswered
  <2>2. LoginOK(login', n)
    BY <1>0, <2>1 DEF LoginOK, Chosen
  <2>3. PageOK(page', n)
    BY <1>0, <2>1, PageStays
  <2> QED
    BY <1>0, <1>1, <1>2, <2>2, <2>3, WizardWhole
<1> QED
  BY <1>3, <1>4

LEMMA AnswersArrive ==
  ASSUME WizardInv, Wizard!Answers PROVE WizardInv'
<1> DEFINE n == Len(server.made)
<1>0. /\ n \in Nat /\ ServerOK(server) /\ PageOK(page, n) /\ LoginOK(login, n) /\ PanelOK(panel, n)
      /\ CallsOK(calls, n, panel.saved) /\ Proved(panel, proof)
  BY WizardParts
<1>1. ASSUME NEW result, Wizard!ConnectionTested(result) PROVE WizardInv'
  <2>1. PageOK(page', n)
    BY <1>0, <1>1 DEF Wizard!ConnectionTested, PageOK
  <2> QED
    BY <1>1, <2>1, OnlyThePage DEF Wizard!ConnectionTested
<1>2. ASSUME NEW ok \in BOOLEAN, Wizard!TokensLoaded(ok) PROVE WizardInv'
  <2> DEFINE p == [panel EXCEPT !.loading = FALSE, !.tokens = IF ok THEN server.tokens ELSE panel.tokens]
  <2>1. /\ panel' = Wizard!Drawn(p) /\ UNCHANGED <<login, calls, server, proof>>
        /\ page' = [page EXCEPT !.flow = Wizard!FlowDrawn(Wizard!IntegrationComplete, page.flow)]
    BY <1>2 DEF Wizard!TokensLoaded
  <2>2. PanelOK(p, n) /\ p.saved = panel.saved /\ p.verified = panel.verified
    BY <1>0 DEF PanelOK, ServerOK
  <2> HIDE DEF p
  <2>3. PanelOK(panel', n) /\ panel'.saved = panel.saved /\ panel'.verified = panel.verified
    BY <2>1, <2>2, PanelDrawn
  <2>4. PageOK(page', n) /\ Proved(panel', proof')
    BY <1>0, <2>1, <2>3, PageStays DEF Proved
  <2> QED
    BY <1>0, <2>1, <2>3, <2>4, WizardWhole
<1> HIDE DEF n
<1> QED
  BY <1>1, <1>2, MessageReported, CreationAnswered, PopupAnswered, TokenAnswered, GrantAnswered,
     ResolveVerified, DiagnosisShown, AnswerLost DEF Wizard!Answers

LEMMA WizardGoesOn == WizardInv /\ Wizard!Next => WizardInv'
<1> SUFFICES ASSUME WizardInv, Wizard!Next PROVE WizardInv'
  OBVIOUS
<1>1. ASSUME NEW c, NEW credential, Wizard!GrantRemoved(c, credential) PROVE WizardInv'
  <2>1. UNCHANGED <<page, login, panel, calls, proof>>
    BY <1>1 DEF Wizard!GrantRemoved
  <2>2. ServerOK(server') /\ server'.made = server.made
    BY <1>1, ServerWritten DEF Wizard!GrantRemoved
  <2> QED
    BY <2>1, <2>2 DEF WizardInv
<1> QED
  BY <1>1, UserActs, AnswersArrive DEF Wizard!Next

LEMMA WizardVerified == WizardInv => Wizard!CompleteWasVerified
BY DEF WizardInv, Proved, Wizard!CompleteWasVerified, Wizard!IntegrationComplete

-----------------------------------------------------------------------------
(* The pages together.  Only one is open, and none is left.                 *)

PagesInv ==
  /\ tab = "wizard" => WizardInv
  /\ tab = "transfer" => TransferInv
  /\ tab = "credentials" => RegistryInv
  /\ tab = "grants" => GrantsInv
  /\ tab = "tokens" => TokensInv
  /\ tab = "consumer" => ConsumerInv

LEMMA PagesStart == PagesInit => PagesInv
BY WizardStarts, TransferStarts, RegistryStarts, GrantsStart, TokensStart, ConsumerStarts DEF PagesInit, PagesInv

LEMMA NobodyActs == PagesInv /\ UNCHANGED pagesVars => PagesInv'
<1> SUFFICES ASSUME PagesInv, UNCHANGED pagesVars PROVE PagesInv'
  OBVIOUS
<1>0. UNCHANGED <<tab, page, calls, login, panel, server, proof>>
  BY DEF pagesVars
<1>1. WizardInv => WizardInv'
  BY <1>0 DEF WizardInv
<1>2. TransferInv => TransferInv'
  BY <1>0 DEF TransferInv, Transfer!ActsOnWhatIsShown
<1>3. RegistryInv => RegistryInv'
  BY <1>0 DEF RegistryInv, Registry!ActsOnWhatIsShown
<1>4. GrantsInv => GrantsInv'
  BY <1>0 DEF GrantsInv, Grants!ActsOnWhatIsShown
<1>5. TokensInv => TokensInv'
  BY <1>0 DEF TokensInv, Tokens!ActsOnWhatIsShown
<1>6. ConsumerInv => ConsumerInv'
  BY <1>0 DEF ConsumerInv, Consumer!ActsOnWhatIsShown
<1> QED
  BY <1>0, <1>1, <1>2, <1>3, <1>4, <1>5, <1>6 DEF PagesInv

LEMMA PagesGoOn == PagesInv /\ [PagesNext]_pagesVars => PagesInv'
<1> SUFFICES ASSUME PagesInv, PagesNext PROVE PagesInv'
  BY NobodyActs
<1> QED
  BY WizardGoesOn, TransferGoesOn, RegistryGoesOn, GrantsGoOn, TokensGoOn, ConsumerGoesOn DEF PagesNext, PagesInv

LEMMA PagesStaySound == PagesSpec => []PagesInv
BY PagesStart, PagesGoOn, PTL DEF PagesSpec

\* The wizard announces a finished integration only for the grant it shows, as saved,
\* after a real resolve that was asked for since the last change (AdminWizard,
\* admin/wizard*.js): whatever is clicked meanwhile and in whatever order answers come.
THEOREM WizardAnnouncesProved == PagesSpec => []CompleteWasVerified
<1>1. PagesInv => CompleteWasVerified
  BY WizardVerified DEF PagesInv, CompleteWasVerified
<1> QED
  BY PagesStaySound, <1>1, PTL

\* Late or overtaken answers never make a page act on, or show, something else than
\* what the user sees there, for any number of acts, requests and Credentials.
THEOREM PagesActOnWhatIsShown == PagesSpec => []ActsOnWhatIsShown
<1>1. PagesInv => ActsOnWhatIsShown
  BY DEF PagesInv, ActsOnWhatIsShown, TransferInv, RegistryInv, GrantsInv, TokensInv, ConsumerInv
<1> QED
  BY PagesStaySound, <1>1, PTL
=============================================================================
