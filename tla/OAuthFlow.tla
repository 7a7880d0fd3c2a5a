------------------------------- MODULE OAuthFlow -------------------------------
(***************************************************************************)
(* The OAuth routes of the callback server, the operations of              *)
(* ProviderManager behind them and the import of the Credential.           *)
(*                                                                         *)
(* A flow has a context, kept by OAuthSecurityService, and a wizard        *)
(* intent, kept by OAuthCallbackServer, both in memory and lost at a       *)
(* restart, and a temporary configuration, which                           *)
(* ProviderConfigurationService stores.  It is one state value: a UUID,    *)
(* never used twice, so that all three carry its name.                     *)
(*                                                                         *)
(* A process is one request: the start of a flow, or a callback, of which  *)
(* a flow may get several.  A step is what runs between two awaits.  A     *)
(* request that sweeps expired contexts removes their configurations one   *)
(* by one (doomed) before it goes on.                                      *)
(***************************************************************************)
EXTENDS Integers, FiniteSets, TLC

CONSTANTS None, Flows, Actors, Starter, Profiles, Accounts,
          Callbacks,                  \* requests that bring an answer back
          MaxContexts, MaxPerActor,   \* the same defaults for contexts and intents
          MaxChanges                  \* bound

ASSUME FlowsAssumption == /\ IsFiniteSet(Flows) /\ Starter \in [Flows -> Actors]
                          /\ None \notin Flows \cup Profiles
                          /\ None \notin Callbacks /\ Callbacks \cap Flows = {}
                          /\ MaxContexts \in Nat /\ MaxPerActor \in Nat

VARIABLES context,    \* per flow: None, or the profile it was created under
          intent,     \* flows whose wizard intent is in the map
          config,     \* flows whose configuration is stored, with its profile or None
          lapsed,     \* <<kind, flow>> of those whose expiresAt has passed
          provider,   \* the profile registered now, None when not registered
          principal,  \* per actor: "authorized", "demoted", "gone" (never the same again)
          cred,       \* per account: None or the flow it was imported from, and its end
          proc,       \* per request: where it is, its flow, what it sweeps and tells
          people,     \* the callback that runs in the queue of access management, or None
          binding,    \* the callback that holds the binding lock, or None
          changes     \* changes of the surroundings so far (bound)

transactions == <<context, intent, config, lapsed>>
world == <<provider, principal>>
vars == <<transactions, world, cred, proc, people, binding, changes>>
quiet == <<world, cred, changes>>

Kinds == {"context", "intent", "config"}
Lapsed(kind) == {f \in Flows : <<kind, f>> \in lapsed}
Contexts == {f \in Flows : context[f] # None}
NoCredential == [flow |-> None, state |-> "none"]
Referenced == {cred[a].flow : a \in Accounts} \ {None}

TransactionsInit ==
  /\ context = [f \in Flows |-> None] /\ intent = {}
  /\ config = [f \in Flows |-> None] /\ lapsed = {}
  /\ provider \in Profiles
  /\ principal = [a \in Actors |-> "authorized"]
  /\ cred = [a \in Accounts |-> NoCredential]

-----------------------------------------------------------------------------
\* Time: the configuration of a flow is prepared, and lapses, before its
\* context; both have the same time to live.
Lapse(kind, f) ==
  /\ <<kind, f>> \notin lapsed
  /\ CASE kind = "context" -> context[f] # None /\ f \in Lapsed("config")
       [] kind = "intent" -> f \in intent
       [] OTHER -> config[f] # None
  /\ lapsed' = lapsed \cup {<<kind, f>>}
  /\ UNCHANGED <<context, intent, config, world, cred>>

\* purgeExpiredContexts: what is left, and what was dropped.
Expired == Contexts \cap Lapsed("context")
Purged == [f \in Flows |-> IF f \in Expired THEN None ELSE context[f]]

\* #purgeExpiredOAuthWizardIntents.
LiveIntents == intent \ Lapsed("intent")

OfActor(flows, f) == {g \in flows : Starter[g] = Starter[f]}
HasRoom(flows, f) ==
  /\ Cardinality(flows) < MaxContexts
  /\ Cardinality(OfActor(flows, f)) < MaxPerActor

\* createAuthorizationContext purges first; what it dropped is not returned.
ContextRoom(f) == HasRoom(Contexts \ Expired, f)

\* consumeCallbackContext: a context is found, of this profile, not expired;
\* an expired one is dropped, any other mismatch leaves it.
Matches(f) == context[f] # None /\ context[f] = provider
Consumable(f) == Matches(f) /\ f \notin Lapsed("context")
Consumed(f) == IF Matches(f) THEN [context EXCEPT ![f] = None] ELSE context

\* #rememberOAuthWizardIntent has purged before.
IntentRoom(f) == HasRoom(LiveIntents, f)

\* #consumeOAuthWizardIntent: by the browser that holds the cookie.
IntentIsOpen(f) == f \in intent \ Lapsed("intent")

\* prepare; ProviderConfigurationService.load with a profile.
Prepared(f) == [config EXCEPT ![f] = provider]
Loads(f) == config[f] # None /\ config[f] = provider

\* remove, the dependants counted inside the binding lock.
Removed(f) == IF f \in Referenced THEN config ELSE [config EXCEPT ![f] = None]

-----------------------------------------------------------------------------
\* The timer of the security service drops what has expired and that is all.
PurgeByTimer ==
  /\ Expired # {}
  /\ context' = Purged
  /\ UNCHANGED <<intent, config, lapsed, world, cred>>

\* Another provider profile is registered, or none.
ChangeProvider ==
  /\ provider' \in (Profiles \cup {None}) \ {provider}
  /\ UNCHANGED <<transactions, principal, cred>>

\* updateUser, deleteUser.
ChangePrincipal(a) ==
  /\ principal[a] # "gone"
  /\ principal' = [principal EXCEPT ![a] = IF @ = "demoted" THEN "authorized" ELSE "demoted"]
     \/ principal' = [principal EXCEPT ![a] = "gone"]
  /\ UNCHANGED <<transactions, provider, cred>>

\* revokeCredential and deleteCredential: the record of a deleted one goes.
EndCredential(a) ==
  /\ cred[a].state # "none"
  /\ \/ cred' = [cred EXCEPT ![a].state = "revoked"]
     \/ cred' = [cred EXCEPT ![a] = NoCredential]
  /\ UNCHANGED <<transactions, world>>

\* A restart: the maps are empty, the registered profile may be another, and
\* Application.start removes the expired temporary configurations that no
\* Credential refers to, before it serves; a deletion may fail.
ExpiredAtStart == Lapsed("config")                       \* mutant: without the references
UnreferencedAtStart == Lapsed("config") \ Referenced

Restart ==
  /\ context' = [f \in Flows |-> None] /\ intent' = {}
  /\ lapsed' = {l \in lapsed : l[1] = "config"}
  /\ provider' \in Profiles
  /\ \E failed \in SUBSET UnreferencedAtStart :
       config' = [f \in Flows |-> IF f \in UnreferencedAtStart \ failed THEN None ELSE config[f]]
  /\ UNCHANGED <<principal, cred>>

-----------------------------------------------------------------------------
(* The requests.                                                            *)

Procs == Flows \cup Callbacks
Resting == {"idle", "answered", "ended"}
Idle == [at |-> "idle", flow |-> None, doomed |-> {}, told |-> "code", profile |-> None]

Init ==
  /\ TransactionsInit
  /\ proc = [p \in Procs |-> Idle]
  /\ people = None /\ binding = None /\ changes = 0

-----------------------------------------------------------------------------
At(p, stage) == proc[p].at = stage /\ proc[p].doomed = {}
F(p) == proc[p].flow
Go(p, stage) == proc' = [proc EXCEPT ![p] = IF stage \in Resting
                                            THEN [Idle EXCEPT !.at = stage, !.flow = F(p)]
                                            ELSE [@ EXCEPT !.at = stage]]
Same == UNCHANGED <<quiet, people, binding>>

\* cleanupExpiredOAuthContexts: a purge, then a removal for each context.
NothingToRemove == {}                                    \* mutant: as the timer does
ToRemove == Expired
SweepAndGo(p, stage) ==
  /\ context' = Purged
  /\ proc' = [proc EXCEPT ![p].at = stage, ![p].doomed = ToRemove]

RemoveDoomed(p) ==
  /\ binding = None
  /\ \E f \in proc[p].doomed :
       /\ config' = Removed(f)
       /\ proc' = [proc EXCEPT ![p].doomed = @ \ {f}]
  /\ UNCHANGED <<context, intent, lapsed>> /\ Same

\* #removeOAuthFlowConfiguration, discardProviderConfiguration: then it ends.
Drop(p) ==
  /\ At(p, "drop") /\ binding = None
  /\ config' = Removed(F(p))
  /\ Go(p, "ended")
  /\ UNCHANGED <<context, intent, lapsed>> /\ Same

-----------------------------------------------------------------------------
\* POST oauth/start.
Start(f) ==
  /\ proc[f].at = "idle" /\ principal[Starter[f]] = "authorized"
  /\ intent' = LiveIntents
  /\ proc' = [proc EXCEPT ![f] = [Idle EXCEPT !.at = "start", !.flow = f]]
  /\ UNCHANGED <<context, config, lapsed>> /\ Same

SweepAtStart(f) ==
  /\ At(f, "start")
  /\ SweepAndGo(f, "prepare")
  /\ UNCHANGED <<intent, config, lapsed>> /\ Same

\* #prepareProviderConfiguration; the save may fail.
Prepare(f) ==
  /\ At(f, "prepare")
  /\ \/ /\ provider # None /\ config' = Prepared(f)
        /\ proc' = [proc EXCEPT ![f].at = "context", ![f].profile = provider]
     \/ config' = config /\ Go(f, "ended")
  /\ UNCHANGED <<context, intent, lapsed>> /\ Same

\* #createOAuthSecurityContext.
CreateContext(f) ==
  /\ At(f, "context")
  /\ IF ContextRoom(f)
     THEN context' = [Purged EXCEPT ![f] = proc[f].profile] /\ Go(f, "ask")
     ELSE context' = Purged /\ Go(f, "drop")
  /\ UNCHANGED <<intent, config, lapsed>> /\ Same

\* provider.startOAuth answers; a failure discards the context.
Ask(f) ==
  /\ At(f, "ask")
  /\ \/ context' = context /\ Go(f, "remember")
     \/ context' = [context EXCEPT ![f] = None] /\ Go(f, "drop")
  /\ UNCHANGED <<intent, config, lapsed>> /\ Same

\* #rememberOAuthWizardIntent and the check of the redirect URI; told is what
\* the cancellation that follows a refusal is for.
Remember(f) ==
  /\ At(f, "remember")
  /\ IF IntentRoom(f)
     THEN /\ intent' = LiveIntents \cup {f}
          /\ \/ Go(f, "answered")
             \/ proc' = [proc EXCEPT ![f].at = "cancel", ![f].told = "mismatch"]
     ELSE /\ intent' = LiveIntents
          /\ proc' = [proc EXCEPT ![f].at = "cancel", ![f].told = "capacity"]
  /\ UNCHANGED <<context, config, lapsed>> /\ Same

-----------------------------------------------------------------------------
\* cancelOAuth.
Cancel(p) ==
  /\ At(p, "cancel")
  /\ SweepAndGo(p, "withdraw")
  /\ UNCHANGED <<intent, config, lapsed>> /\ Same

\* The context is consumed and its configuration removed; when it cannot be,
\* the start that found a redirect mismatch discards the configuration itself.
Withdraw(p) ==
  LET f == F(p) IN
  /\ At(p, "withdraw")
  /\ IF provider # None
     THEN /\ context' = Consumed(f)
          /\ Go(p, IF Consumable(f) \/ proc[p].told = "mismatch" THEN "drop" ELSE "ended")
     ELSE context' = context /\ Go(p, IF proc[p].told = "mismatch" THEN "drop" ELSE "ended")
  /\ UNCHANGED <<intent, config, lapsed>> /\ Same

-----------------------------------------------------------------------------
\* GET oauth/callback with a code, an error, or neither, by a browser that was
\* given the state.
Arrive(c, f) ==
  /\ proc[c].at = "idle" /\ proc[f].at = "answered"
  /\ intent' = LiveIntents
  /\ \E told \in {"code", "none"} :
       proc' = [proc EXCEPT ![c] = [Idle EXCEPT !.at = "intent", !.flow = f, !.doomed = ToRemove,
                                               !.told = told]]
  /\ context' = Purged
  /\ UNCHANGED <<config, lapsed>> /\ Same

ConsumeIntent(c) ==
  LET f == F(c) IN
  /\ At(c, "intent")
  /\ \/ /\ IntentIsOpen(f)
        /\ intent' = intent \ {f}
        /\ Go(c, IF proc[c].told = "code" THEN "admit" ELSE "cancel")
     \/ intent' = intent /\ Go(c, "ended")           \* expired, used, or another browser
  /\ UNCHANGED <<context, config, lapsed>> /\ Same

\* The admission of the request (AdmissionLeases); refused, the intent is gone.
Admit(c) ==
  /\ At(c, "admit")
  /\ Go(c, "actor") \/ Go(c, "ended")
  /\ UNCHANGED transactions /\ Same

Current(f) == principal[Starter[f]] = "authorized"

\* #revalidateOAuthActor.
RevalidateActor(c) ==
  /\ At(c, "actor")
  /\ Go(c, IF Current(F(c)) THEN "handle" ELSE "ended")
  /\ UNCHANGED transactions /\ Same

\* handleOAuthCallback.
SweepAtCallback(c) ==
  /\ At(c, "handle")
  /\ SweepAndGo(c, "consume")
  /\ UNCHANGED <<intent, config, lapsed>> /\ Same

ConsumeContext(c) ==
  LET f == F(c) IN
  /\ At(c, "consume")
  /\ context' = IF provider # None THEN Consumed(f) ELSE context
  /\ IF provider # None /\ Consumable(f)
     THEN proc' = [proc EXCEPT ![c].at = "load", ![c].profile = provider]
     ELSE Go(c, "ended")
  /\ UNCHANGED <<intent, config, lapsed>> /\ Same

\* #revalidateOAuthSecurityContext and #configurationForOAuthContext load the
\* configuration with the profile of the definition taken before.
LoadConfiguration(c) ==
  /\ At(c, "load")
  /\ Go(c, IF config[F(c)] = proc[c].profile THEN "exchange" ELSE "drop")
  /\ UNCHANGED transactions /\ Same

\* The provider answers with an account or fails; compareOAuthContextEvidence
\* admits the answer or not; an admitted one refers to the configuration.
Evidence == {"admitted", "refused"}
Attached(c, a) == [proc EXCEPT ![c].at = "authorize", ![c].told = a]

Exchange(c) ==
  /\ At(c, "exchange")
  /\ \E a \in Accounts, evidence \in Evidence :
       IF evidence = "admitted" THEN proc' = Attached(c, a) ELSE Go(c, "drop")
  /\ UNCHANGED transactions /\ Same

\* withAuthorizedCurrentPrincipal: in the queue, the starter is checked again.
AnyStarter(f) == TRUE                                    \* mutant
StillCurrent(f) == Current(f)

Authorize(c) ==
  /\ At(c, "authorize") /\ people = None
  /\ IF StillCurrent(F(c)) THEN Go(c, "validate") /\ people' = c
                           ELSE Go(c, "drop") /\ people' = people
  /\ UNCHANGED <<transactions, quiet, binding>>

Leave(c, stage) ==
  /\ Go(c, stage) /\ people' = None
  /\ binding' = IF binding = c THEN None ELSE binding

\* importCredential: validateOAuthResultBinding, outside of the binding lock ...
Validate(c) ==
  /\ At(c, "validate")
  /\ IF provider = proc[c].profile /\ Loads(F(c)) THEN Go(c, "lock") /\ UNCHANGED <<people, binding>> ELSE Leave(c, "drop")
  /\ UNCHANGED <<transactions, quiet>>

\* ... then inside of it: a Credential of the account has another binding
\* (#assertCompatibleOAuthCredential), and the profile is the registered one
\* (#validateCreationContract).
Unbound(c) == cred[proc[c].told] = NoCredential
Contract(c) == provider = proc[c].profile
Imported(c) == [flow |-> F(c), state |-> "active"]

EnterLock(c) ==
  /\ At(c, "lock") /\ binding = None
  /\ IF Unbound(c) /\ Contract(c)
     THEN Go(c, "save") /\ binding' = c /\ people' = people
     ELSE Leave(c, "drop")
  /\ UNCHANGED <<transactions, quiet>>

\* The create succeeds, fails, or fails with the record left behind.
Save(c) ==
  LET saved == [cred EXCEPT ![proc[c].told] = Imported(c)] IN
  /\ At(c, "save")
  /\ \/ cred' = saved /\ Leave(c, "ended")
     \/ cred' \in {cred, saved} /\ Leave(c, "drop")
  /\ UNCHANGED <<transactions, world, changes>>

-----------------------------------------------------------------------------
Change ==
  /\ changes < MaxChanges /\ changes' = changes + 1
  /\ \/ ChangeProvider
     \/ people = None /\ \E a \in Actors : ChangePrincipal(a)
     \/ binding = None /\ \E a \in Accounts : EndCredential(a)
  /\ UNCHANGED <<proc, people, binding>>

\* A crash and the start that follows; the requests are gone.
Crash ==
  /\ changes < MaxChanges /\ changes' = changes + 1
  /\ Restart
  /\ proc' = [p \in Procs |-> IF proc[p].at \in Resting THEN proc[p] 
                           ELSE [Idle EXCEPT !.at = "ended", !.flow = F(p)]]
  /\ people' = None /\ binding' = None

Time ==
  /\ (\E f \in Flows, kind \in Kinds : Lapse(kind, f)) \/ PurgeByTimer
  /\ UNCHANGED <<proc, people, binding, changes>>

StartStep(f) == Start(f) \/ SweepAtStart(f) \/ Prepare(f) \/ CreateContext(f) \/ Ask(f) \/ Remember(f)
CallbackStep(c) ==
  \/ ConsumeIntent(c) \/ Admit(c) \/ RevalidateActor(c) \/ SweepAtCallback(c) \/ ConsumeContext(c)
  \/ LoadConfiguration(c) \/ Exchange(c) \/ Authorize(c) \/ Validate(c) \/ EnterLock(c) \/ Save(c)
SharedStep(p) == RemoveDoomed(p) \/ Drop(p) \/ Cancel(p) \/ Withdraw(p)

Next ==
  \/ \E f \in Flows : StartStep(f)
  \/ \E c \in Callbacks, f \in Flows : Arrive(c, f)
  \/ \E c \in Callbacks : CallbackStep(c)
  \/ \E p \in Procs : SharedStep(p)
  \/ Change \/ Crash \/ Time

Spec == Init /\ [][Next]_vars

-----------------------------------------------------------------------------
\* Every Credential that came out of a flow still has the configuration it is
\* refreshed with: neither a sweep, nor an error after a create that left its
\* record, nor the removal at startup takes it.
ConfigurationKept == \A a \in Accounts : cred[a].flow # None => config[cred[a].flow] # None

\* Who will remove the configuration of a flow: its context, or a request.
WillDiscard(p) == /\ p \in Flows
                  /\ \/ proc[p].at \in {"context", "drop"}
                     \/ proc[p].at \in {"cancel", "withdraw"} /\ proc[p].told = "mismatch"
HasConsumed(p) == /\ p \in Callbacks
                  /\ proc[p].at \in {"load", "exchange", "authorize", "validate", "lock", "save", "drop"}
Owned(f) == \/ context[f] # None
            \/ \E p \in Procs : f \in proc[p].doomed \/ (F(p) = f /\ (WillDiscard(p) \/ HasConsumed(p)))

\* What lets go of a configuration: the timer and createAuthorizationContext,
\* which do not look at what they purge, a context that expired between the
\* sweep and its consumption, and a restart.
LetsGo ==
  \/ PurgeByTimer \/ Crash
  \/ \E f \in Flows : CreateContext(f)
  \/ \E p \in Procs : F(p) \in Lapsed("context") /\ (Withdraw(p) \/ ConsumeContext(p))

\* The configuration of a flow, with the client secret in it, is removed by
\* whoever ends the flow: no request, failed, cancelled, refused or swept,
\* lets go of it unless a Credential refers to it.
NoneLeftBehind ==
  [][\A f \in Flows : (Owned(f) /\ ~Owned(f)' /\ config'[f] # None) => (f \in Referenced' \/ LetsGo)]_vars

\* A Credential is imported only while the one who started the flow is the
\* same principal and still authorized.
ImportedForStarter ==
  [][\A a \in Accounts : cred[a] = NoCredential /\ cred'[a] # NoCredential => Current(cred'[a].flow)]_vars
=============================================================================
