--------------------------- MODULE RequestAdmission ---------------------------
(***************************************************************************)
(* What a request passes before its handler runs: the admission before the *)
(* body is parsed, authentication, authorization and the admission of the  *)
(* route, paid from the token buckets of AbuseAdmission.decide.            *)
(*                                                                         *)
(* Tokens are counted in the time that refills them, so a bucket of a class*)
(* that holds c tokens and refills one in r holds up to c * r.  The clock  *)
(* may go backward.  The leases are in AdmissionLeases: here a request may *)
(* be refused one.                                                         *)
(***************************************************************************)
EXTENDS AdmissionLeases, Integers, FiniteSets, Sequences

CONSTANTS Requests,              \* requests served at one time
          Sources, Users,
          Routes,                \* the route families that are asked for
          Roles,                 \* sets of permissions a user may have
          Costs,                 \* of a request; more than 1 for batches
          Capacity, RefillEvery, \* of each class
          Quota, MaxKeys,        \* domainQuotas, maxTotalKeys
          IdleTtl, CleanupEvery,
          MaxClock, MaxForward,  \* bounds: highest time, sum of its advances
          Overflow, Unknown

ContainmentTotal == "SECURITY_CONTAINMENT total"     \* containmentCapacity
PreAuth == "PRE_AUTH_FAILURE"
Callback == "OAUTH_CALLBACK_INVALID"

\* The permission each family of routes asks for.
ManagementPermission ==
  [containUser |-> "users:manage", containToken |-> "api-tokens:manage",
   users |-> "users:manage", issue |-> "api-tokens:manage",
   grants |-> "consumer-grants:manage", backups |-> "backup:manage",
   runOnce |-> "scheduler:manage", audit |-> "audit:read"]
CredentialPermission ==
  [containCredential |-> "credentials:manage", credentials |-> "credentials:manage",
   validate |-> "credentials:manage", export |-> "export:read", list |-> "credentials:read"]
ProviderPermission ==
  [containProvider |-> "providers:manage", providers |-> "providers:manage",
   check |-> "providers:manage", oauthStart |-> "providers:manage",
   capabilities |-> "providers:read"]

Containments == {"containUser", "containToken", "containCredential", "containProvider"}
ConsumerRoutes == {"discover", "resolve", "batch"}
OpenRoutes == {"bootstrap", "callback"}     \* no token: intent or first user
AllRoutes == DOMAIN ManagementPermission \cup DOMAIN CredentialPermission
               \cup DOMAIN ProviderPermission \cup ConsumerRoutes \cup OpenRoutes

Permission(route) ==
  CASE route \in DOMAIN ManagementPermission -> ManagementPermission[route]
    [] route \in DOMAIN CredentialPermission -> CredentialPermission[route]
    [] route \in DOMAIN ProviderPermission -> ProviderPermission[route]
    [] OTHER -> "credentials:consume"

\* What is looked up from the path alone, before the route is known.
ContainmentPermission(route) ==
  CASE route = "containUser" -> "users:manage"
    [] route = "containToken" -> "api-tokens:manage"
    [] route = "containProvider" -> "providers:manage"
    [] OTHER -> "credentials:manage"

\* The class of a route once the request is known.
PolicyForRequest(route) ==
  CASE route \in Containments -> Containment
    [] route = "bootstrap" -> Bootstrap
    [] route = "callback" -> "OAUTH_CALLBACK_VALID"
    [] route = "discover" -> "CONSUMER_DISCOVERY"
    [] route = "resolve" -> "CONSUMER_RESOLVE"
    [] route = "batch" -> "CONSUMER_BATCH_RESOLVE"
    [] route = "oauthStart" -> "OAUTH_START"
    [] route = "issue" -> "API_TOKEN_CREATE"
    [] route \in {"validate", "check", "runOnce"} -> "PROVIDER_HEALTH_OR_EXPENSIVE_MANAGEMENT"
    [] route \in {"audit", "list", "capabilities"} -> "MANAGEMENT_AUTHENTICATED"
    [] OTHER -> "MANAGEMENT_MUTATION"

\* The class that is paid before the body is parsed.
PreParserPolicyClass(route) ==
  CASE route = "bootstrap" -> Bootstrap
    [] route = "callback" -> Callback
    [] OTHER -> PreAuth

Consumes(class) == class \in {"CONSUMER_DISCOVERY", "CONSUMER_RESOLVE", "CONSUMER_BATCH_RESOLVE"}
UsesProvider(class) ==
  class \in {"OAUTH_START", "OAUTH_CALLBACK_VALID", "PROVIDER_HEALTH_OR_EXPENSIVE_MANAGEMENT"}

Domains == {"source", "actor", "consumer", "token", "provider", "containment", "global"}
Classes == {PolicyForRequest(route) : route \in AllRoutes}
             \cup {PreAuth, Callback, Emergency}

\* The buckets a request of a class pays from, in the order they are asked.
Key(domain, class, id) == [domain |-> domain, class |-> class, id |-> id]

OwnKeys(class, source, user) ==
  <<Key("source", class, source)>>
  \o (IF class \in {PreAuth, Callback, Bootstrap} THEN <<>>
      ELSE IF Consumes(class) THEN <<Key("consumer", class, user)>>
      ELSE <<Key("actor", class, user)>>)
  \o (IF class \in {"CONSUMER_RESOLVE", "CONSUMER_BATCH_RESOLVE"}
      THEN <<Key("token", class, user)>>
      ELSE IF UsesProvider(class) THEN <<Key("provider", class, Unknown)>>
      ELSE <<>>)

DescriptorsAlwaysGlobal(class, source, user) ==     \* mutant: all share one budget
  OwnKeys(class, source, user) \o <<Key("global", Emergency, "operational")>>

Descriptors(class, source, user) ==
  OwnKeys(class, source, user)
  \o (IF class = Containment THEN <<Key("containment", class, "containment")>>
      ELSE IF class \in {PreAuth, Callback, Bootstrap}
      THEN <<Key("global", Emergency, "pre-auth")>>
      ELSE <<Key("global", Emergency, "operational")>>)

\* The bucket of a descriptor, and the one that late comers share.
OwnOrShared(k) == {k, [k EXCEPT !.id = Overflow]}
BucketsOf(class, source, user) ==
  UNION {OwnOrShared(Descriptors(class, source, user)[i]) :
           i \in 1 .. Len(Descriptors(class, source, user))}
Keys == UNION {BucketsOf(PreParserPolicyClass(route), source, Unknown)
               \cup BucketsOf(PolicyForRequest(route), source, user) :
                 route \in Routes, source \in Sources, user \in Users \cup {Unknown}}

\* A bucket is full with Full(k), and a request of some cost takes Price(k, cost).
PolicyOf(k) == IF k.domain = "containment" THEN ContainmentTotal ELSE k.class
Full(k) == Capacity[PolicyOf(k)] * RefillEvery[PolicyOf(k)]
Price(k, cost) == cost * RefillEvery[PolicyOf(k)]

\* abuseAdmissionOptionsFromConfig, policyConfig: whatever is configured, the
\* numbers are within their bounds, or the process does not start.
Configured ==
  /\ Capacity \in [Classes \cup {ContainmentTotal} -> Nat \ {0}]
  /\ RefillEvery \in [Classes \cup {ContainmentTotal} -> Nat \ {0}]
  /\ Quota \in [Domains -> Nat] /\ MaxKeys \in Nat
  /\ IdleTtl \in Nat /\ CleanupEvery \in Nat /\ MaxClock \in Nat /\ MaxForward \in Nat
  /\ Costs \subseteq Nat /\ 1 \in Costs
  /\ Routes \subseteq AllRoutes

ASSUME AdmissionAssumption ==
  /\ Configured
  /\ Overflow \notin Sources \cup Users \cup {Unknown, "pre-auth", "operational", "containment"}
  /\ None \notin [tokens : Nat, refilled : Nat, used : Nat]

\* An idle bucket is forgotten only when it would be full again; so it is for
\* every class of the default configuration.
ForgottenWhenFull == \A p \in Classes \cup {ContainmentTotal} :
                       Capacity[p] * RefillEvery[p] <= IdleTtl

ASSUME IdleAssumption == ForgottenWhenFull

VARIABLES buckets,      \* per key: tokens, lastRefillAt, lastUsedAt; or None
          now, cleaned, \* the clock; lastCleanupAt
          held,         \* per user: the permissions of its roles, now
          request,      \* per request: route, source, user, cost and where it is
          spent,        \* history: what was taken from each bucket
          forward       \* history: how far the clock was advanced in all

vars == <<buckets, now, cleaned, held, request, spent, forward>>

-----------------------------------------------------------------------------
(* One decision: all buckets are looked up in turn, then all of them pay.   *)

Since(time) == IF now > time THEN now - time ELSE 0

Available(bucket, k) == Lesser(Full(k), bucket.tokens + Since(bucket.refilled))
NewBucket(k) == [tokens |-> Full(k), refilled |-> now, used |-> now]

Size(table) == Cardinality({k \in Keys : table[k] # None})
Crowded(table, domain) ==
  \/ Cardinality({k \in Keys : table[k] # None /\ k.domain = domain}) >= Quota[domain]
  \/ Size(table) >= MaxKeys

\* The bucket that stands for a descriptor: its own, or the one the late
\* comers of a domain and class share.
Place(table, k) ==
  IF table[k] = None /\ Crowded(table, k.domain) THEN [k EXCEPT !.id = Overflow] ELSE k

Lookup(table, k) ==
  IF table[k] # None THEN [table EXCEPT ![k].used = now]
  ELSE LET place == Place(table, k)
       IN  IF table[place] # None THEN table ELSE [table EXCEPT ![place] = NewBucket(place)]

\* The decision after its i-th descriptor; the first short bucket ends it, and
\* so does a table without room.  What was touched or made before stays.
Ask(d, keys, i, cost) ==
  IF i > Len(keys) \/ d.result # "ALLOW" THEN d
  ELSE LET place == Place(d.table, keys[i])
           table == Lookup(d.table, keys[i])
       IN  IF d.table[place] = None /\ place # keys[i] /\ Size(d.table) >= MaxKeys
           THEN [d EXCEPT !.result = "EXHAUSTED"]
           ELSE [table |-> table,
                 asked |-> d.asked \cup {place},
                 result |-> IF Available(table[place], place) < Price(place, cost)
                            THEN "THROTTLE" ELSE "ALLOW"]

\* Buckets that were idle for long are forgotten, now and then.
CleanupDue == now - cleaned >= CleanupEvery
Table ==
  IF CleanupDue
  THEN [k \in Keys |-> IF buckets[k] # None /\ now - buckets[k].used > IdleTtl
                       THEN None ELSE buckets[k]]
  ELSE buckets

Asked(keys, cost) ==
  LET start == [table |-> Table, asked |-> {}, result |-> "ALLOW"]
      first == Ask(start, keys, 1, cost)
      second == Ask(first, keys, 2, cost)
      third == Ask(second, keys, 3, cost)
  IN  Ask(third, keys, 4, cost)

PayUnstamped(table, places, cost) ==       \* mutant: lastRefillAt is not moved
  [k \in Keys |->
     IF k \in places
     THEN [tokens |-> Available(table[k], k) - Price(k, cost),
           refilled |-> table[k].refilled, used |-> now]
     ELSE table[k]]

Pay(table, places, cost) ==
  [k \in Keys |->
     IF k \in places
     THEN [tokens |-> Available(table[k], k) - Price(k, cost), refilled |-> now, used |-> now]
     ELSE table[k]]

Cleanup == buckets' = Table /\ cleaned' = IF CleanupDue THEN now ELSE cleaned

Decide(d, cost) ==
  /\ buckets' = IF d.result = "ALLOW" THEN Pay(d.table, d.asked, cost) ELSE d.table
  /\ spent' = [k \in Keys |-> IF d.result = "ALLOW" /\ k \in d.asked
                              THEN spent[k] + Price(k, cost) ELSE spent[k]]
  /\ cleaned' = IF CleanupDue THEN now ELSE cleaned
  /\ UNCHANGED <<now, forward, held>>

-----------------------------------------------------------------------------
Init == /\ buckets = [k \in Keys |-> None]
        /\ now = 0 /\ cleaned = 0 /\ forward = 0
        /\ held \in [Users -> Roles]
        /\ request = [r \in Requests |-> None]
        /\ spent = [k \in Keys |-> 0]

Idle(r) == request[r] # None => request[r].at \notin {"parsed", "admitted"}

\* preParserAdmission: a request to contain that is authorized does not pay
\* for being unknown; everything else does.  (A request whose source the proxy
\* settings leave unclear is turned away and changes nothing.)
May(user, permission) == user # Unknown /\ permission \in held[user]
Skips(route, user) == route \in Containments /\ May(user, ContainmentPermission(route))

Arrive(r, route, source, user, cost) ==
  LET class == PreParserPolicyClass(route)
      decision == Asked(Descriptors(class, source, Unknown), 1)
      arrived(at) == [route |-> route, source |-> source, user |-> user, cost |-> cost,
                      trusted |-> May(user, Permission(route)), at |-> at]
  IN  /\ Idle(r)
      /\ route = "bootstrap" => user = Unknown
      /\ cost # 1 => route \in {"batch", "credentials"}     \* resolve-batch; bulk, import
      /\ IF Skips(route, user)
         THEN /\ request' = [request EXCEPT ![r] = arrived("parsed")]
              /\ UNCHANGED <<buckets, spent, cleaned, now, forward, held>>
         ELSE /\ request' = [request EXCEPT ![r] =
                   arrived(IF decision.result = "ALLOW" THEN "parsed" ELSE "TURNED_AWAY")]
              /\ Decide(decision, 1)

\* Containment and Consumers are authorized before they are admitted, the rest
\* after; a token must be known for all but Bootstrap and the callback, and the
\* callback needs the user who started it.
MayAsk(r) ==
  LET route == request[r].route IN
  /\ route # "bootstrap" => request[r].user # Unknown
  /\ route \in Containments \cup ConsumerRoutes => May(request[r].user, Permission(route))

Deny(r) ==
  /\ request[r] # None /\ request[r].at = "parsed" /\ ~MayAsk(r)
  /\ request' = [request EXCEPT ![r] = None]
  /\ UNCHANGED <<buckets, spent, cleaned, now, forward, held>>

\* Pay for the route, or only take the lease when the same class was paid
\* already; the lease may be refused after the tokens are gone.
AdmitRequest(r) ==
  LET class == PolicyForRequest(request[r].route)
      decision == Asked(Descriptors(class, request[r].source, request[r].user), request[r].cost)
  IN  \E lease \in {"admitted", "BLOCKED"} :
        IF PreParserPolicyClass(request[r].route) = class
        THEN /\ request' = [request EXCEPT ![r].at = lease]
             /\ Cleanup /\ UNCHANGED <<now, forward, held, spent>>
        ELSE /\ request' = [request EXCEPT ![r].at =
                              IF decision.result = "ALLOW" THEN lease ELSE decision.result]
             /\ Decide(decision, request[r].cost)

Admit(r) == request[r] # None /\ request[r].at = "parsed" /\ MayAsk(r) /\ AdmitRequest(r)

\* The handler ends, which gives the lease back; a route that is authorized
\* after its admission may end at once.
Finish(r) ==
  /\ request[r] # None /\ request[r].at = "admitted"
  /\ request' = [request EXCEPT ![r] = None]
  /\ UNCHANGED <<buckets, spent, cleaned, now, forward, held>>

\* Roles are changed and users deactivated meanwhile.
ChangeUser(u) ==
  /\ \E role \in Roles : held' = [held EXCEPT ![u] = role]
  /\ UNCHANGED <<buckets, spent, cleaned, now, forward, request>>

Advance(d) ==
  /\ now + d <= MaxClock /\ forward + d <= MaxForward
  /\ now' = now + d /\ forward' = forward + d
  /\ UNCHANGED <<buckets, spent, cleaned, held, request>>

SetBack(d) ==
  /\ d <= now /\ now' = now - d
  /\ UNCHANGED <<buckets, spent, cleaned, held, request, forward>>

Next ==
  \/ \E r \in Requests :
       \/ \E route \in Routes, s \in Sources, u \in Users \cup {Unknown}, c \in Costs :
            Arrive(r, route, s, u, c)
       \/ Deny(r) \/ Admit(r) \/ Finish(r)
  \/ \E u \in Users : ChangeUser(u)
  \/ \E d \in 1 .. MaxClock : Advance(d) \/ SetBack(d)

Spec == Init /\ [][Next]_vars

-----------------------------------------------------------------------------
\* Whatever the clock does, however buckets are shared, forgotten and made anew,
\* and whatever is refused in between: no bucket ever gives more than it holds
\* and what the advances of the clock bring.
RateBounded == \A k \in Keys : spent[k] <= Full(k) + forward

Exhausted(k, cost) == spent[k] + Price(k, cost) > Full(k)
\* Containment by an authorized user is never turned away for what anybody does
\* who is not: not before its body is parsed, and afterwards only when authorized
\* containment itself spent one of its three budgets, or no bucket is left to
\* make (security-guide/index.md:466-472, "cannot debit ... reserved
\* security-containment capacity").
ContainmentStaysOpen ==
  \A r \in Requests : request[r] # None /\ request[r].route \in Containments =>
    /\ request[r].trusted => request[r].at # "TURNED_AWAY"
    /\ request[r].at = "THROTTLE" =>
         \E k \in Keys : /\ k.class = Containment
                         /\ k.id \in {request[r].source, request[r].user,
                                      "containment", Overflow}
                         /\ Exhausted(k, request[r].cost)
=============================================================================
