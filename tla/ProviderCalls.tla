----------------------------- MODULE ProviderCalls -----------------------------
(***************************************************************************)
(* Operations on one Credential that call its provider, several at a time: *)
(* from CredentialManager through ProviderManager, the adapter, the        *)
(* service and the API client to HttpClient, and back to the store.        *)
(*                                                                         *)
(* A grant is what the provider still accepts a renewal for; a number      *)
(* stands for the tokens of one answer.  Grants, the lookups and the       *)
(* answers are the provider's and the network's: they are left open.  An   *)
(* operation that is refused before its first lookup changes nothing.      *)
(***************************************************************************)
EXTENDS EgressPolicy

CONSTANTS Nil,                     \* no token, no answer, no Credential
          Providers,               \* the providers to look at
          Calls,                   \* operations under way
          Lookups,                 \* what a name lookup may answer
          Policy,                  \* CONNECTION_TEST_PRIVATE_EXCEPTION and its switch
          MaxGrants, MaxVersion    \* bounds

-----------------------------------------------------------------------------
\* API clients: the host of each request.  The purpose goes with the request.
GoogleClient == [exchange |-> "oauth2.googleapis.com", refresh |-> "oauth2.googleapis.com",
                 profile |-> "openidconnect.googleapis.com"]
DiscordClient == [request \in {"exchange", "refresh", "profile"} |-> "discord.com"]
XClient == [request \in {"exchange", "refresh", "profile"} |-> "api.x.com"]
FacebookClient == [request \in {"exchange", "refresh", "profile"} |-> "graph.facebook.com"]
InstagramClient == [exchange |-> "api.instagram.com", refresh |-> "graph.instagram.com",
                    profile |-> "graph.instagram.com"]
KickClient == [exchange |-> "id.kick.com", refresh |-> "id.kick.com",
               introspect |-> "id.kick.com", profile |-> "api.kick.com"]
TwitchClient == [exchange |-> "id.twitch.tv", refresh |-> "id.twitch.tv",
                 validate |-> "id.twitch.tv", profile |-> "api.twitch.tv"]
ThreadsClient ==
  [request \in {"exchange", "longLived", "refresh", "profile"} |-> "graph.threads.net"]
OpenAIClient == [models |-> "api.openai.com"]

Purpose(request, op) ==
  CASE request \in {"exchange", "longLived"} -> "OAUTH_TOKEN_EXCHANGE"
    [] request = "refresh" -> "OAUTH_REFRESH"
    [] request = "profile" -> "OAUTH_PROFILE_LOOKUP"
    [] request = "introspect" -> "OAUTH_INTROSPECTION"
    [] request = "validate" -> "PROVIDER_VALIDATION"
    [] request = "models" -> IF op = "health" THEN "PROVIDER_HEALTH_CHECK" ELSE "PROVIDER_VALIDATION"

-----------------------------------------------------------------------------
\* Services: the requests of each operation, in order.  renews is the secret
\* that refresh sends; issued tells where the refresh token of a result is from.
OAuthService(asked, health) ==
  [authenticate |-> asked, refresh |-> <<"refresh", "profile">>, health |-> health,
   renews |-> "refreshToken", issued |-> {"refresh_token"}]

GoogleService == OAuthService(<<"exchange", "profile">>, <<"profile">>)
DiscordService == OAuthService(<<"exchange", "profile">>, <<"profile">>)
XService == OAuthService(<<"exchange", "profile">>, <<"profile">>)
FacebookService == OAuthService(<<"exchange", "profile">>, <<"profile">>)
TwitchService == OAuthService(<<"exchange", "profile">>, <<"validate">>)
KickService == OAuthService(<<"exchange", "profile">>, <<"introspect">>)
InstagramService ==
  [OAuthService(<<"exchange", "profile">>, <<"profile">>) EXCEPT
     !.issued = {"refresh_token", "access_token"}]
ThreadsService ==
  [OAuthService(<<"exchange", "longLived", "profile">>, <<"profile">>) EXCEPT
     !.renews = "accessToken", !.issued = {}]
OpenAIConnectionService == [validate |-> <<"models">>, health |-> <<"models">>]

\* The refresh token of a result, where sent is the one the request carried:
\* `refresh_token ?? refreshToken`, and access_token where the service says so.
ResultRefreshToken(service, answer, sent) ==
  CASE service.issued = {} -> Nil
    [] service.issued # {} /\ answer.refresh # Nil -> answer.refresh
    [] service.issued # {} /\ answer.refresh = Nil /\ sent # Nil -> sent
    [] OTHER -> IF "access_token" \in service.issued THEN answer.access ELSE Nil

-----------------------------------------------------------------------------
\* Definitions: what the provider can do, and each of its credential methods.
OAuthDefinition ==
  [capabilities |-> {"OAUTH", "REFRESH", "HEALTH_CHECK"},
   methods |-> [oauth2 |-> {"REFRESH", "HEALTH_CHECK"}]]
DiscordDefinition ==
  [OAuthDefinition EXCEPT !.methods = [oauth2 |-> {"REFRESH", "HEALTH_CHECK"}, webhook |-> {}]]
OpenAIDefinition ==
  [capabilities |-> {"VALIDATION", "HEALTH_CHECK"},
   methods |-> [apiKey |-> {"VALIDATION", "HEALTH_CHECK"}]]
ConnectionDefinition ==
  [capabilities |-> {"VALIDATION", "HEALTH_CHECK"},
   methods |-> [password |-> {"VALIDATION", "HEALTH_CHECK"}]]

OAuthProviders == {"google", "discord", "x", "facebook", "instagram", "kick", "twitch", "threads"}
ConnectionProviders == {"ftp", "sftp"}

ProviderDefinition(p) ==
  CASE p = "discord" -> DiscordDefinition
    [] p \in OAuthProviders \ {"discord"} -> OAuthDefinition
    [] p = "openai" -> OpenAIDefinition
    [] p \in ConnectionProviders -> ConnectionDefinition

Client(p) ==
  CASE p = "google" -> GoogleClient       [] p = "discord" -> DiscordClient
    [] p = "x" -> XClient                 [] p = "facebook" -> FacebookClient
    [] p = "instagram" -> InstagramClient [] p = "kick" -> KickClient
    [] p = "twitch" -> TwitchClient       [] p = "threads" -> ThreadsClient
    [] p = "openai" -> OpenAIClient

Service(p) ==
  CASE p = "google" -> GoogleService       [] p = "discord" -> DiscordService
    [] p = "x" -> XService                 [] p = "facebook" -> FacebookService
    [] p = "instagram" -> InstagramService [] p = "kick" -> KickService
    [] p = "twitch" -> TwitchService       [] p = "threads" -> ThreadsService
    [] p = "openai" -> OpenAIConnectionService

\* The adapter refuses an operation whose secret the Credential does not have.
Renewable(p, secrets) ==
  IF p = "threads" THEN secrets.access ELSE secrets.refresh
Sends(p, op, secrets) ==
  CASE op = "refresh" -> Renewable(p, secrets) # Nil
    [] op = "health" -> p \in OAuthProviders => secrets.access # Nil
    [] OTHER -> TRUE

ASSUME CallsAssumption ==
  /\ Providers \subseteq OAuthProviders \cup ConnectionProviders \cup {"openai"}
  /\ Lookups \subseteq Seq(Seq(Nat))
  /\ Nil \notin Nat /\ Nil \notin [access : Nat, refresh : Nat \cup {Nil}]
  /\ MaxGrants \in Nat /\ MaxVersion \in Nat

-----------------------------------------------------------------------------
VARIABLES account,   \* the stored Credential
          client,    \* the OAuth client configured for it is the one it is bound to
          alive,     \* grants the provider accepts
          minted,    \* grants made so far
          calls,     \* the operations: what each saw, where it is, what it got
          late,      \* grants in refresh requests that were given up but may still arrive
          orphaned   \* grants replaced at the provider by one that was not stored
callVars == <<account, client, alive, minted, calls, late, orphaned>>

NoCall == [op |-> "none", at |-> "idle", step |-> 0, saw |-> Nil, judged |-> <<>>,
           address |-> <<>>, answer |-> Nil, spent |-> Nil]

Methods(p) == DOMAIN ProviderDefinition(p).methods
\* What an authorization leaves, with or without a refresh token in its answer.
Secrets(p) ==
  IF p \in OAuthProviders
  THEN {[access |-> 1,
         refresh |-> ResultRefreshToken(Service(p), [access |-> 1, refresh |-> r], Nil)] : r \in {Nil, 1}}
  ELSE {[access |-> Nil, refresh |-> Nil]}

\* A stored Credential; its method or its profile may be of an earlier build: a
\* profile that is missing, not verified or of another digest is "other".
CallsInit ==
  /\ \E p \in Providers : \E m \in Methods(p) \cup {"unbound"}, s \in Secrets(p),
        profile \in {"verified", "other"}, bound \in BOOLEAN :
       /\ m = "unbound" => profile = "verified"
       /\ account = [provider |-> p, method |-> m, profile |-> profile, secrets |-> s,
                     bound |-> bound, state |-> "active", version |-> 1]
  /\ client = "bound" /\ alive = {1} /\ minted = 1
  /\ calls = [c \in Calls |-> NoCall]
  /\ late = {} /\ orphaned = {}

-----------------------------------------------------------------------------
\* What ProviderManager asks before it calls an adapter.
Capability(op) ==
  CASE op = "refresh" -> "REFRESH" [] op = "health" -> "HEALTH_CHECK"
    [] op \in {"validate", "test"} -> "VALIDATION" [] op = "authenticate" -> "OAUTH"
MethodSupports(saw, op) ==
  /\ saw.method \in Methods(saw.provider)
  /\ Capability(op) \in ProviderDefinition(saw.provider).methods[saw.method]
ProviderSupports(saw, op) == Capability(op) \in ProviderDefinition(saw.provider).capabilities
ProfileFits(saw) == saw.profile = "verified"
Callable(saw, op) ==
  /\ ProviderSupports(saw, op)
  /\ op # "authenticate" => MethodSupports(saw, op) /\ ProfileFits(saw)
  /\ Sends(saw.provider, op, saw.secrets)

\* A connection test and an OAuth callback concern a draft, not what is stored.
Draft == [account EXCEPT !.profile = "verified", !.version = 0, !.bound = FALSE,
                         !.method = CHOOSE m \in Methods(account.provider) : TRUE,
                         !.secrets = [access |-> Nil, refresh |-> Nil]]
Terminal == account.state = "revoked"
Bound == account.bound /\ account.provider \in OAuthProviders

Plan(saw, op) ==
  IF saw.provider \in ConnectionProviders THEN <<"connect">>
  ELSE CASE op = "refresh" -> Service(saw.provider).refresh
         [] op = "health" -> Service(saw.provider).health
         [] op = "authenticate" -> Service(saw.provider).authenticate
         [] op \in {"validate", "test"} -> Service(saw.provider).validate

Free(c) == calls[c].at = "idle"
Enter(c, op, saw) ==
  /\ Free(c)
  /\ calls' = [calls EXCEPT ![c] = [NoCall EXCEPT !.op = op, !.at = "lookup", !.step = 1, !.saw = saw]]
  /\ UNCHANGED <<account, client, alive, minted, late, orphaned>>

\* The host of an FTP or SFTP Credential is judged before its method is.
Begins(saw, op) == saw.provider \in ConnectionProviders \/ Callable(saw, op)

Validate(c) == ~Terminal /\ ProviderSupports(account, "validate")
               /\ Begins(account, "validate") /\ Enter(c, "validate", account)
TestConnection(c) == ProviderSupports(account, "test") /\ Enter(c, "test", Draft)
HealthCheck(c) == Begins(account, "health") /\ Enter(c, "health", account)
Refresh(c) == /\ ~Terminal /\ (Bound => client = "bound")
              /\ Callable(account, "refresh") /\ Enter(c, "refresh", account)
Authenticate(c) == Callable(Draft, "authenticate") /\ Enter(c, "authenticate", Draft)

-----------------------------------------------------------------------------
\* HttpClient.request, once per request: judge, connect to what was judged, and
\* settle once.
RequestName(c) == Plan(calls[c].saw, calls[c].op)[calls[c].step]
EgressRequest(c) ==
  LET p == calls[c].saw.provider
      op == calls[c].op IN
  IF p \in ConnectionProviders
  THEN [protocol |-> p, host |-> "stored",
        purpose |-> CASE op = "test" -> "CREDENTIAL_CONNECTION_TEST"
                      [] op = "health" -> "PROVIDER_HEALTH_CHECK"
                      [] OTHER -> "PROVIDER_VALIDATION"]
  ELSE [protocol |-> "https", host |-> Client(p)[RequestName(c)],
        purpose |-> Purpose(RequestName(c), op)]

\* The operation ends without storing: what it had replaced is lost.
Spent(c) == IF calls[c].spent = Nil THEN {} ELSE {calls[c].spent}
Fail(c) ==
  /\ calls' = [calls EXCEPT ![c] = NoCall]
  /\ orphaned' = orphaned \cup Spent(c)

Resolve(c) ==
  /\ calls[c].at = "lookup"
  /\ \E answers \in Lookups :
       IF Admitted(Policy, EgressRequest(c), answers)
       THEN /\ calls' = [calls EXCEPT ![c].at = "dial", ![c].judged = answers]
            /\ UNCHANGED orphaned
       ELSE Fail(c)
  /\ UNCHANGED <<account, client, alive, minted, late>>

ResolvedAgain(c) ==                 \* mutant: the socket looks the name up again
  {answers[1] : answers \in {l \in Lookups : l # <<>>}}
\* The lookup of the socket answers the address of the route.
Pinned(c) == {calls[c].judged[1]}

Dial(c) ==
  /\ calls[c].at = "dial" /\ calls[c].saw.provider \notin ConnectionProviders
  /\ \E a \in Pinned(c) : calls' = [calls EXCEPT ![c].at = "sent", ![c].address = a]
  /\ UNCHANGED <<account, client, alive, minted, late, orphaned>>

\* This build has no connector for FTP and SFTP.
NoConnector(c) ==
  /\ calls[c].at = "dial" /\ calls[c].saw.provider \in ConnectionProviders
  /\ Fail(c)
  /\ UNCHANGED <<account, client, alive, minted, late>>

-----------------------------------------------------------------------------
\* The provider.  It may give a new refresh token, and then forgets the old one;
\* one that renews access tokens makes a new grant in any case.
Grant(c) == Renewable(calls[c].saw.provider, calls[c].saw.secrets)
RenewsAccess(p) == Service(p).renews = "accessToken"
Replaces(g, rotates) == IF rotates THEN alive \ {g} ELSE alive

ServeRefresh(c) ==
  /\ calls[c].at = "sent" /\ RequestName(c) = "refresh"
  /\ Grant(c) \in alive /\ minted < MaxGrants
  /\ \E rotates \in BOOLEAN :
       /\ calls' = [calls EXCEPT
            ![c].at = "answered",
            ![c].answer = [access |-> minted + 1,
                           refresh |-> IF rotates THEN minted + 1 ELSE Nil],
            ![c].spent = IF rotates THEN Grant(c) ELSE Nil]
       /\ alive' = Replaces(Grant(c), rotates)
                     \cup (IF rotates \/ RenewsAccess(calls[c].saw.provider) THEN {minted + 1} ELSE {})
  /\ minted' = minted + 1
  /\ UNCHANGED <<account, client, late, orphaned>>

Serve(c) ==
  /\ calls[c].at = "sent" /\ RequestName(c) # "refresh"
  /\ calls' = [calls EXCEPT ![c].at = "answered"]
  /\ UNCHANGED <<account, client, alive, minted, late, orphaned>>

\* A timeout, a lost connection, a redirect, an answer that is too long, is no
\* success or names no user; what comes after that is ignored, but the request
\* may have been served, or be served yet.
Lose(c) ==
  /\ calls[c].at \in {"sent", "answered"}
  /\ late' = IF calls[c].at = "sent" /\ RequestName(c) = "refresh" THEN late \cup {Grant(c)} ELSE late
  /\ Fail(c)
  /\ UNCHANGED <<account, client, alive, minted>>

ServeLate ==
  /\ \E g \in late, rotates \in BOOLEAN :
       /\ late' = late \ {g}
       /\ alive' = Replaces(g, rotates)
       /\ orphaned' = IF rotates THEN orphaned \cup ({g} \cap alive) ELSE orphaned
  /\ UNCHANGED <<account, client, minted, calls>>

-----------------------------------------------------------------------------
\* Back in the service, and then in CredentialManager.
LastRequest(c) == calls[c].step = Len(Plan(calls[c].saw, calls[c].op))
Stores(op) == op \in {"refresh", "validate"}

NextRequest(c) ==
  /\ calls[c].at = "answered" /\ ~LastRequest(c)
  /\ calls' = [calls EXCEPT ![c].at = "lookup", ![c].step = @ + 1,
                            ![c].judged = <<>>, ![c].address = <<>>]
  /\ UNCHANGED <<account, client, alive, minted, late, orphaned>>

\* A bound Credential keeps its account and its scopes.
Complete(c) ==
  /\ calls[c].at = "answered" /\ LastRequest(c)
  /\ \E rebinds \in BOOLEAN :
       IF ~Stores(calls[c].op) \/ (calls[c].op = "refresh" /\ calls[c].saw.bound /\ rebinds)
       THEN Fail(c)
       ELSE /\ calls' = [calls EXCEPT ![c].at = "commit", ![c].judged = <<>>, ![c].address = <<>>]
            /\ UNCHANGED orphaned
  /\ UNCHANGED <<account, client, alive, minted, late>>

RefreshTokenKept(saw, answer) ==    \* mutant: the new refresh token is not stored
  [saw.secrets EXCEPT !.access = answer.access]
\* The access token is replaced, the refresh token only by another one.
SecretsFromResult(saw, answer) ==
  LET given == ResultRefreshToken(Service(saw.provider), answer, saw.secrets.refresh) IN
  [access |-> answer.access,
   refresh |-> IF given # Nil THEN given ELSE saw.secrets.refresh]

Stored(c) ==
  LET saw == calls[c].saw IN
  [saw EXCEPT !.state = "active", !.version = @ + 1,
              !.secrets = IF calls[c].op = "refresh" THEN SecretsFromResult(saw, calls[c].answer)
                                                     ELSE @]

\* saveConditional: only if the Credential is still the one that was read.
Commit(c) ==
  /\ calls[c].at = "commit" /\ account.version < MaxVersion
  /\ IF account.version = calls[c].saw.version
     THEN account' = Stored(c) /\ calls' = [calls EXCEPT ![c] = NoCall] /\ UNCHANGED orphaned
     ELSE Fail(c) /\ UNCHANGED account
  /\ UNCHANGED <<client, alive, minted, late>>

-----------------------------------------------------------------------------
\* Others: an edit, with or without another authorization; a revocation; the
\* client of the OAuth configuration.
Change == account.state # "revoked" /\ account.version < MaxVersion

Edit ==
  /\ Change
  /\ \/ account' = [account EXCEPT !.version = @ + 1] /\ UNCHANGED <<alive, minted>>
     \/ /\ account.provider \in OAuthProviders /\ minted < MaxGrants
        /\ account' = [account EXCEPT !.version = @ + 1,
                         !.secrets = [access |-> minted + 1, refresh |-> minted + 1]]
        /\ alive' = alive \cup {minted + 1} /\ minted' = minted + 1
  /\ UNCHANGED <<client, calls, late, orphaned>>

Revoke ==
  /\ Change
  /\ account' = [account EXCEPT !.state = "revoked", !.version = @ + 1]
  /\ UNCHANGED <<client, alive, minted, calls, late, orphaned>>

ChangeClient ==
  /\ client = "bound" /\ client' = "other"
  /\ UNCHANGED <<account, alive, minted, calls, late, orphaned>>

CallsNext ==
  \/ \E c \in Calls :
       \/ Validate(c) \/ TestConnection(c) \/ HealthCheck(c) \/ Refresh(c) \/ Authenticate(c)
       \/ Resolve(c) \/ Dial(c) \/ NoConnector(c)
       \/ ServeRefresh(c) \/ Serve(c) \/ Lose(c)
       \/ NextRequest(c) \/ Complete(c) \/ Commit(c)
  \/ ServeLate \/ Edit \/ Revoke \/ ChangeClient

CallsSpec == CallsInit /\ [][CallsNext]_callVars

-----------------------------------------------------------------------------
\* A request goes to an address that was judged for this very request, with all
\* the others the name had then, and all of them are public: whatever the name
\* answers by the time the socket opens.
DialsWhatItJudged ==
  \A c \in Calls : calls[c].at \in {"sent", "answered"} =>
    /\ \E i \in DOMAIN calls[c].judged : calls[c].judged[i] = calls[c].address
    /\ \A i \in DOMAIN calls[c].judged : Class(calls[c].judged[i]) = "public"

\* What is stored can be renewed: the provider accepts the stored token, unless
\* an operation under way has just exchanged it, or one ended between exchanging
\* it and storing the new one: an answer that did not arrive, a failing profile
\* request, another account, or a change of the Credential meanwhile.
RefreshTokenSurvives ==
  LET token == Renewable(account.provider, account.secrets) IN
  (account.state # "revoked" /\ token # Nil) =>
    token \in alive \cup orphaned \cup UNION {Spent(c) : c \in Calls}
=============================================================================
