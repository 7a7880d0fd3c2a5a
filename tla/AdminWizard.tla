----------------------------- MODULE AdminWizard -----------------------------
(***************************************************************************)
(* The wizard of the administration pages: choose a provider, capture or   *)
(* authorize a Credential, grant it to a Consumer and prove by a real      *)
(* resolve that the Consumer gets it.  Answers come in any order, late, or *)
(* not at all, while the user goes on clicking; the server is modelled by  *)
(* what its answers say.                                                   *)
(*                                                                         *)
(* isCurrentAttempt compares a counter that every change raises; here an   *)
(* attempt carries whether the counter was raised since (`current').       *)
(***************************************************************************)
EXTENDS Naturals, FiniteSets, Sequences

CONSTANTS Consumers,      \* API tokens; a Consumer is its token
          Names,          \* names of the secrets of a Credential
          MaxCreated, MaxCalls, MaxActs,   \* bounds: Credentials, attempts under
          None                             \* way, acts of the user and others

VARIABLES page,     \* where the user is and what was entered and created
          login,    \* the OAuth attempt and its popup
          panel,    \* consumer, secrets, tokens; integration.savedGrant, .verification
          calls,    \* requests whose answer has not come
          server,   \* Credentials (their providers), tokens, grants
          proof,    \* history: what was resolved since the last change
          acts      \* how often the user, or another one, acted

vars == <<page, login, panel, calls, server, proof, acts>>

-----------------------------------------------------------------------------
(* Providers: by key, by OAuth, and one whose methods are one of each.       *)

Providers == {"keyed", "oauth", "methodical"}
AuthType(p) == IF p = "oauth" THEN "oauth2" ELSE "custom"
CredentialMethods(p) == IF p = "methodical" THEN {"byOAuth", "byKey"} ELSE {}
IsOAuthProvider(p, method) ==
  p = "oauth" \/ (p = "methodical" /\ method \in {None, "byOAuth"})
SupportsConnectionTest(p) == p = "keyed"

IsOAuth == page.provider # None /\ IsOAuthProvider(page.provider, page.method)

NextStep == CASE page.step = 3 /\ IsOAuth -> 4
              [] page.step = 4 \/ (page.step = 3 /\ ~IsOAuth) -> 5
              [] OTHER -> page.step + 1
PreviousStep == IF page.step = 5 /\ ~IsOAuth THEN 3 ELSE page.step - 1
FlowOf(step) == CASE step = 3 -> "CONFIGURE" [] step = 4 -> "AUTHORIZE"
                  [] OTHER -> "SELECT_PROVIDER"

SetStep(step) == [page EXCEPT !.step = step, !.flow = FlowOf(step)]

NoOutcome == [status |-> "none", credential |-> 0]

\* grantTarget: the Credential that was created wins over one authorized later.
Target == IF page.created.credential # 0 THEN page.created.credential
          ELSE login.result.credential
TargetProvider == IF page.created.credential # 0
                  THEN server.made[page.created.credential] ELSE page.provider

Configuration == [consumer |-> panel.consumer, credential |-> Target,
                  provider |-> TargetProvider, names |-> panel.names]
SameBinding(saved, configuration) ==
  saved # None /\ [saved EXCEPT !.names = configuration.names] = configuration

IntegrationComplete == /\ panel.verified # None
                       /\ panel.verified = Configuration /\ panel.saved = Configuration

\* grantAttempt += 1; a change of what is asked also needs a new proof.
OfGrant(c) == c.kind \in {"token", "resolve", "diagnose"}
Outdated(set) == {IF OfGrant(c) THEN [c EXCEPT !.current = FALSE] ELSE c : c \in set}
Unproven(set) ==
  {IF OfGrant(c) THEN [c EXCEPT !.current = FALSE, !.fresh = FALSE] ELSE c : c \in set}

\* The panel is drawn anew: the token that was typed is gone, and without a
\* Credential there is no panel.
Drawn(p) == [p EXCEPT !.entered = None]
FlowDrawn(complete, flow) == IF Target # 0 /\ ~complete THEN "GRANT_CONFIGURE" ELSE flow

-----------------------------------------------------------------------------
\* A fresh page, or the one the OAuth callback sends the browser back to.
Init ==
  \E returned \in {NoOutcome, [status |-> "success", credential |-> 1],
                   [status |-> "cancelled", credential |-> 0]} :
    /\ page = [step |-> IF returned = NoOutcome THEN 1 ELSE 5,
               flow |-> CASE returned.status = "success" -> "CREDENTIAL_READY"
                          [] returned.status = "cancelled" -> "CONFIGURE"
                          [] OTHER -> "SELECT_PROVIDER",
               auth |-> IF returned = NoOutcome THEN None ELSE AuthType("oauth"),
               provider |-> IF returned = NoOutcome THEN None ELSE "oauth",
               method |-> None, data |-> "none", dirty |-> FALSE,
               tested |-> "none", testing |-> FALSE,
               created |-> NoOutcome, creating |-> FALSE, offered |-> FALSE]
    /\ login = [pending |-> FALSE, window |-> FALSE, popup |-> FALSE, visiting |-> None,
                result |-> returned]
    /\ panel = [consumer |-> None, names |-> {}, entered |-> None, plaintext |-> None,
                tokens |-> {}, loading |-> returned.status = "success",
                saved |-> None, verified |-> None]
    /\ server = [made |-> IF returned.credential = 1 THEN <<"oauth">> ELSE <<>>,
                 tokens |-> {CHOOSE c \in Consumers : TRUE},
                 grants |-> [b \in Consumers \X (1 .. MaxCreated) |-> {}]]
  /\ calls = {} /\ proof = {} /\ acts = 0

Act == acts < MaxActs /\ acts' = acts + 1

-----------------------------------------------------------------------------
(* Steps 1 to 3: the provider and what it is given.                         *)

SelectAuthType(auth) ==
  /\ Act /\ page.step = 1
  /\ page' = [SetStep(2) EXCEPT !.auth = auth, !.provider = None, !.method = None,
                                !.data = "none"]
  /\ UNCHANGED <<login, panel, calls, server, proof>>

\* Asks before it throws away what was typed; the user agrees or nothing happens.
SelectProvider(p) ==
  /\ Act /\ page.step = 2 /\ AuthType(p) = page.auth
  /\ page' = [SetStep(3) EXCEPT !.provider = p, !.method = None, !.data = "none",
                                !.dirty = FALSE]
  /\ UNCHANGED <<login, panel, calls, server, proof>>

SelectMethod(m) ==
  /\ Act /\ page.step = 3 /\ page.method = None /\ m \in CredentialMethods(page.provider)
  /\ page' = [page EXCEPT !.method = m, !.data = "none", !.dirty = FALSE]
  /\ UNCHANGED <<login, panel, calls, server, proof>>

Input ==
  /\ Act /\ page.step = 3
  /\ CredentialMethods(page.provider) = {} \/ page.method # None
  /\ page' = [page EXCEPT !.dirty = TRUE, !.tested = "none"]
  /\ UNCHANGED <<login, panel, calls, server, proof>>

\* collectFormData: the browser checks required fields; blanks pass it.
Collected(data, p) == [p EXCEPT !.data = data, !.dirty = FALSE]
MayCollect == CredentialMethods(page.provider) = {} \/ page.method # None

GoOnward ==
  /\ Act /\ page.step < 5 /\ ~(page.step = 4 /\ IsOAuth)
  /\ page.step = 1 => page.auth # None
  /\ page.step = 2 => page.provider # None
  /\ page.step = 3 => MayCollect
  /\ \E data \in IF page.step = 3 THEN {"complete", "blank"} ELSE {page.data} :
       page' = [Collected(data, SetStep(NextStep)) EXCEPT
                  !.offered = IF page.step = 3 THEN ~IsOAuth ELSE @]
  /\ UNCHANGED <<login, panel, calls, server, proof>>

\* Back from the authorization also gives up the attempt.
Back ==
  /\ Act /\ page.step > 1
  /\ page' = SetStep(PreviousStep)
  /\ login' = IF page.step = 4
              THEN [login EXCEPT !.pending = FALSE, !.window = FALSE, !.result = NoOutcome,
                                 !.popup = @ /\ ~login.window,
                                 !.visiting = IF login.window THEN None ELSE @]
              ELSE login
  /\ UNCHANGED <<panel, calls, server, proof>>

TestConnection ==
  /\ Act /\ page.step = 3 /\ MayCollect /\ ~page.testing
  /\ SupportsConnectionTest(page.provider)
  /\ \E data \in {"complete", "blank"} :
       page' = [Collected(data, page) EXCEPT !.testing = TRUE, !.tested = "none"]
  /\ UNCHANGED <<login, panel, calls, server, proof>>

\* The result is shown whatever was typed or chosen since.
ConnectionTested(result) ==
  /\ page.testing
  /\ page' = [page EXCEPT !.testing = FALSE, !.tested = result]
  /\ UNCHANGED <<login, panel, calls, server, proof, acts>>

-----------------------------------------------------------------------------
(* Step 4: the OAuth attempt in a popup.                                    *)

Starts == {c \in calls : c.kind = "start"}

StartOAuth(blocked) ==
  /\ Act /\ page.step = 4 /\ IsOAuth /\ ~login.pending
  /\ IF page.data # "complete"        \* required provider configuration is blank
     THEN page' = SetStep(3) /\ UNCHANGED <<login, calls>>
     ELSE IF blocked THEN UNCHANGED <<page, login, calls>>
     ELSE /\ Cardinality(calls) < MaxCalls
          /\ page' = [page EXCEPT !.flow = "WAIT_CALLBACK"]
          /\ login' = [login EXCEPT !.pending = TRUE, !.window = TRUE, !.popup = TRUE,
                                    !.visiting = None]
          /\ calls' = calls \cup {[kind |-> "start", provider |-> page.provider, own |-> TRUE]}
  /\ UNCHANGED <<panel, server, proof>>

PopupGone(set) == {IF c.kind = "start" THEN [c EXCEPT !.own = FALSE] ELSE c : c \in set}

ClosePopup ==
  /\ Act /\ login.popup
  /\ login' = [login EXCEPT !.popup = FALSE, !.visiting = None]
  /\ calls' = PopupGone(calls)
  /\ UNCHANGED <<page, panel, server, proof>>

\* The answer of an attempt the user gave up still sets the page back.
StartAnswered(c, ok) ==
  /\ c \in Starts
  /\ calls' = calls \ {c}
  /\ IF ok
     THEN /\ login' = [login EXCEPT !.visiting = IF c.own /\ login.popup THEN c.provider ELSE @]
          /\ UNCHANGED page
     ELSE /\ login' = [login EXCEPT !.window = FALSE, !.pending = FALSE,
                                    !.popup = @ /\ ~c.own,
                                    !.visiting = IF c.own THEN None ELSE @]
          /\ page' = [page EXCEPT !.flow = "ERROR"]
  /\ UNCHANGED <<panel, server, proof, acts>>

\* prepareCredentialIntegration
Prepared(credential) ==
  IF panel.saved # None /\ panel.saved.credential # credential
  THEN [panel EXCEPT !.saved = None, !.verified = None, !.consumer = None, !.names = {}]
  ELSE panel

\* The callback page reports to the wizard and the popup closes.  A report for
\* another provider than the chosen one is dropped.
OAuthMessage(status) ==
  /\ login.visiting # None
  /\ status = "success" => Len(server.made) < MaxCreated
  /\ LET credential == IF status = "success" THEN Len(server.made) + 1 ELSE 0
         result == [status |-> status, credential |-> credential]
         closed == [login EXCEPT !.popup = FALSE, !.visiting = None]
     IN  /\ server' = IF status = "success"
                      THEN [server EXCEPT !.made = Append(@, login.visiting)] ELSE server
         /\ IF page.provider # login.visiting
            THEN /\ login' = closed /\ calls' = PopupGone(calls)
                 /\ UNCHANGED <<page, panel, proof>>
            ELSE /\ login' = [closed EXCEPT !.pending = FALSE, !.window = FALSE,
                                            !.result = result]
                 /\ IF status = "success"
                    THEN /\ page' = [SetStep(5) EXCEPT !.flow = "CREDENTIAL_READY",
                                                       !.offered = FALSE]
                         /\ panel' = [Prepared(credential) EXCEPT !.loading = TRUE]
                         /\ calls' = Unproven(PopupGone(calls)) /\ proof' = {}
                    ELSE /\ page' = SetStep(4)
                         /\ calls' = PopupGone(calls) /\ UNCHANGED <<panel, proof>>
  /\ UNCHANGED acts

-----------------------------------------------------------------------------
(* Step 5: the Credential and its grant.                                    *)

\* The button is there when the summary was drawn for a provider with a key.
CreateCredential ==
  /\ Act /\ page.step = 5 /\ page.offered /\ ~page.creating
  /\ page' = [page EXCEPT !.creating = TRUE]
  /\ calls' = calls \cup {[kind |-> "create", provider |-> page.provider]}
  /\ UNCHANGED <<login, panel, server, proof>>

CredentialCreated(c, ok) ==
  /\ c \in calls /\ c.kind = "create"
  /\ ok => Len(server.made) < MaxCreated
  /\ LET credential == IF ok THEN Len(server.made) + 1 ELSE 0 IN
     /\ page' = [page EXCEPT
                   !.creating = FALSE, !.offered = FALSE, !.flow = IF ok THEN "CREDENTIAL_READY" ELSE "ERROR",
                   !.created = [status |-> IF ok THEN "success" ELSE "failed",
                                credential |-> credential]]
     /\ server' = IF ok THEN [server EXCEPT !.made = Append(@, c.provider)] ELSE server
     /\ IF ok THEN /\ panel' = [Prepared(credential) EXCEPT !.loading = TRUE]
                   /\ calls' = Unproven(calls \ {c}) /\ proof' = {}
              ELSE calls' = calls \ {c} /\ UNCHANGED <<panel, proof>>
  /\ UNCHANGED <<login, acts>>

EditCredential ==
  /\ Act /\ page.step = 5 /\ page.created.status = "failed" /\ ~page.offered
  /\ page' = [SetStep(3) EXCEPT !.created = NoOutcome, !.offered = TRUE]
  /\ panel' = [panel EXCEPT !.verified = None]
  /\ calls' = Unproven(calls) /\ proof' = {}
  /\ UNCHANGED <<login, server>>

\* showConsumerGrantPanel
TokensLoaded(ok) ==
  /\ panel.loading
  /\ panel' = Drawn([panel EXCEPT !.loading = FALSE,
                                  !.tokens = IF ok THEN server.tokens ELSE @])
  /\ page' = [page EXCEPT !.flow = FlowDrawn(IntegrationComplete, @)]
  /\ UNCHANGED <<login, calls, server, proof, acts>>

PanelShown == page.step = 5 /\ Target # 0 /\ ~panel.loading

ChangeGrant(consumer, names) ==
  /\ Act /\ PanelShown
  /\ consumer \in panel.tokens \cup {None} /\ <<consumer, names>> # <<panel.consumer, panel.names>>
  /\ panel' = [panel EXCEPT !.consumer = consumer, !.names = names, !.verified = None]
  /\ page' = [page EXCEPT !.flow = FlowDrawn(FALSE, @)]
  /\ calls' = Unproven(calls) /\ proof' = {}
  /\ UNCHANGED <<login, server>>

EnterTokenUnnoticed(token) ==           \* mutant: the attempt goes on
  /\ Act /\ PanelShown /\ token # panel.entered
  /\ panel' = [panel EXCEPT !.entered = token, !.verified = None]
  /\ page' = [page EXCEPT !.flow = IF panel.verified # None THEN FlowDrawn(FALSE, @) ELSE @]
  /\ calls' = {IF OfGrant(c) THEN [c EXCEPT !.fresh = FALSE] ELSE c : c \in calls}
  /\ proof' = {}
  /\ UNCHANGED <<login, server>>

EnterToken(token) ==
  /\ Act /\ PanelShown /\ token # panel.entered
  /\ panel' = [panel EXCEPT !.entered = token, !.verified = None]
  /\ page' = [page EXCEPT !.flow = IF panel.verified # None THEN FlowDrawn(FALSE, @) ELSE @]
  /\ calls' = Unproven(calls) /\ proof' = {}
  /\ UNCHANGED <<login, server>>

\* The buttons of the panel; each click is the current attempt.
Attempt(kind, at) ==
  [kind |-> kind, at |-> at, config |-> Configuration, current |-> TRUE, fresh |-> TRUE,
   token |-> IF panel.entered # None THEN panel.entered ELSE panel.plaintext]

CreateConsumerToken ==
  /\ Act /\ PanelShown /\ Cardinality(calls) < MaxCalls
  /\ calls' = Outdated(calls) \cup {Attempt("token", "create")}
  /\ UNCHANGED <<page, login, panel, server, proof>>

ConsumerTokenCreated(a, token) ==
  /\ a \in calls /\ a.kind = "token"
  /\ token \in (Consumers \ server.tokens) \cup {None}     \* None: it failed
  /\ server' = IF token # None THEN [server EXCEPT !.tokens = @ \cup {token}] ELSE server
  /\ calls' = IF token # None /\ a.current THEN Unproven(calls \ {a}) ELSE calls \ {a}
  /\ IF ~a.current THEN UNCHANGED <<page, panel, proof>>
     ELSE /\ panel' = Drawn(IF token = None THEN panel
                            ELSE [panel EXCEPT !.plaintext = token, !.tokens = @ \cup {token},
                                               !.consumer = token, !.verified = None])
          /\ page' = [page EXCEPT !.flow =
                        FlowDrawn(token = None /\ IntegrationComplete, @)]
          /\ proof' = IF token # None THEN {} ELSE proof
  /\ UNCHANGED <<login, acts>>

SubmitConsumerGrant(kind) ==
  /\ Act /\ PanelShown
  /\ IF panel.consumer = None \/ panel.names = {}
     THEN /\ panel' = Drawn([panel EXCEPT !.verified = None])
          /\ page' = [page EXCEPT !.flow = FlowDrawn(FALSE, @)]
          /\ calls' = Outdated(calls)
     ELSE /\ Cardinality(calls) < MaxCalls
          /\ calls' = Outdated(calls) \cup
               {Attempt(kind, IF kind = "diagnose" THEN "diagnose"
                              ELSE IF panel.saved = Configuration THEN "saved"
                              ELSE IF SameBinding(panel.saved, Configuration) THEN "put"
                              ELSE "load")}
          /\ UNCHANGED <<page, panel>>
  /\ UNCHANGED <<login, server, proof>>

-----------------------------------------------------------------------------
(* The answers of an attempt: synchronizeGrant, then the real resolve.      *)

Binding(a) == <<a.config.consumer, a.config.credential>>
Known(a) == /\ server.made[a.config.credential] = a.config.provider
            /\ server.grants[Binding(a)] # {}

GoOn(a, at) == calls' = (calls \ {a}) \cup {[a EXCEPT !.at = at]}

\* The attempt ends; only the current one tells the page.
Fails(a) ==
  /\ calls' = calls \ {a}
  /\ IF a.current
     THEN /\ panel' = Drawn([panel EXCEPT !.verified = None])
          /\ page' = [page EXCEPT !.flow = FlowDrawn(FALSE, @)]
     ELSE UNCHANGED <<panel, page>>

\* The grant is saved: commitSavedGrant, then the resolve is sent.
Saved(a) ==
  IF a.current
  THEN GoOn(a, "resolve") /\ panel' = [panel EXCEPT !.saved = a.config] /\ UNCHANGED page
  ELSE calls' = calls \ {a} /\ UNCHANGED <<panel, page>>

Write(a) == server' = [server EXCEPT !.grants[Binding(a)] = a.config.names]

Undelivered(a) ==       \* the request, or its answer, is lost, or it is refused
  /\ a.at \in {"load", "reload", "put", "post", "resolve", "diagnose"}
  /\ Fails(a)
  /\ IF \/ a.at = "put" /\ Known(a)
        \/ a.at = "post" /\ server.made[a.config.credential] = a.config.provider
     THEN Write(a) \/ UNCHANGED server ELSE UNCHANGED server
  /\ UNCHANGED <<login, proof, acts>>

SynchronizeGrant(a) ==
  /\ \/ a.at = "saved" /\ Saved(a) /\ UNCHANGED server
     \/ /\ a.at \in {"load", "reload"} /\ UNCHANGED server
        /\ IF Known(a)
           THEN IF server.grants[Binding(a)] = a.config.names
                THEN Saved(a) ELSE GoOn(a, "put") /\ UNCHANGED <<panel, page>>
           ELSE IF a.at = "load" THEN GoOn(a, "post") /\ UNCHANGED <<panel, page>>
                ELSE Fails(a)
     \/ a.at = "put" /\ Known(a) /\ Write(a) /\ Saved(a)
     \/ /\ a.at = "post" /\ server.made[a.config.credential] = a.config.provider
        /\ IF Known(a)            \* CONSUMER_GRANT_DUPLICATE
           THEN GoOn(a, "reload") /\ UNCHANGED <<panel, page, server>>
           ELSE Write(a) /\ Saved(a)
  /\ UNCHANGED <<login, proof, acts>>

\* Whose token it is is not compared with the Consumer of the grant.
Resolves(a) == /\ a.token # None /\ a.token \in server.tokens
               /\ a.config.names \subseteq server.grants[<<a.token, a.config.credential>>]

VerifyRealResolve(a) ==
  /\ a.at = "resolve" /\ Resolves(a)
  /\ calls' = calls \ {a}
  /\ proof' = IF a.fresh THEN proof \cup {[credential |-> a.config.credential,
                                           names |-> a.config.names]} ELSE proof
  /\ IF a.current
     THEN /\ panel' = Drawn([panel EXCEPT !.verified = a.config,
                               !.plaintext = IF a.token = @ THEN None ELSE @])
          /\ page' = [page EXCEPT !.flow = FlowDrawn(a.config = Configuration,
                                                     "INTEGRATION_COMPLETE")]
     ELSE UNCHANGED <<panel, page>>
  /\ UNCHANGED <<login, server, acts>>

\* The diagnosis is shown, and proves nothing.
Diagnosed(a) ==
  /\ a.at = "diagnose"
  /\ calls' = calls \ {a}
  /\ IF a.current
     THEN panel' = Drawn(panel) /\ page' = [page EXCEPT !.flow = FlowDrawn(IntegrationComplete, @)]
     ELSE UNCHANGED <<panel, page>>
  /\ UNCHANGED <<login, server, proof, acts>>

\* Another administrator takes a grant away.
GrantRemoved(c, credential) ==
  /\ Act /\ server.grants[<<c, credential>>] # {}
  /\ server' = [server EXCEPT !.grants[<<c, credential>>] = {}]
  /\ UNCHANGED <<page, login, panel, calls, proof>>

-----------------------------------------------------------------------------
User ==
  \/ \E auth \in {"oauth2", "custom"} : SelectAuthType(auth)
  \/ \E p \in Providers : SelectProvider(p)
  \/ \E m \in {"byOAuth", "byKey"} : SelectMethod(m)
  \/ Input \/ GoOnward \/ Back \/ TestConnection \/ ClosePopup
  \/ \E blocked \in BOOLEAN : StartOAuth(blocked)
  \/ CreateCredential \/ EditCredential \/ CreateConsumerToken
  \/ \E c \in Consumers \cup {None} :
       EnterToken(c) \/ \E n \in SUBSET Names : ChangeGrant(c, n)
  \/ \E kind \in {"resolve", "diagnose"} : SubmitConsumerGrant(kind)

Answers ==
  \/ \E result \in {"success", "failure"} : ConnectionTested(result)
  \/ \E status \in {"success", "cancelled", "error"} : OAuthMessage(status)
  \/ \E ok \in BOOLEAN :
       TokensLoaded(ok) \/ \E c \in calls : StartAnswered(c, ok) \/ CredentialCreated(c, ok)
  \/ \E a \in {c \in calls : OfGrant(c)} :
       \/ \E token \in Consumers \cup {None} : ConsumerTokenCreated(a, token)
       \/ SynchronizeGrant(a) \/ VerifyRealResolve(a) \/ Diagnosed(a) \/ Undelivered(a)

Next == User \/ Answers
        \/ \E c \in Consumers, credential \in 1 .. MaxCreated : GrantRemoved(c, credential)

Spec == Init /\ [][Next]_vars

-----------------------------------------------------------------------------
\* The page announces a finished integration only for the grant it shows, as
\* saved, after a real resolve of exactly these secrets of this Credential that
\* was asked for since the user last changed the Consumer, the secrets or the
\* token: never for an attempt that was overtaken, whatever order the answers
\* come in.
CompleteWasVerified ==
  IntegrationComplete =>
    [credential |-> panel.verified.credential, names |-> panel.verified.names] \in proof
=============================================================================
