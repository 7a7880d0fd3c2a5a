---------------------------- MODULE AdmissionLeases ----------------------------
(***************************************************************************)
(* The concurrency leases of AbuseAdmission: a request that is admitted    *)
(* holds a lease until it ends or the lease expires, and a part of all     *)
(* leases is kept for security containment and for Bootstrap.              *)
(*                                                                         *)
(* The token buckets are left out: decide() may throttle any request.      *)
(* Time is relative: a lease carries the ticks it has left.                *)
(***************************************************************************)
EXTENDS Naturals, FiniteSets

CONSTANTS None,
          LeaseIds,         \* leases held at one time, and their requests
          Policies,         \* operational policy classes
          Concurrency,      \* of each class; 0 means no limit of its own
          MaxLeases,        \* maxConcurrencyLeases
          LeaseDuration     \* maxLeaseDurationMs

\* The policy classes that both halves of AbuseAdmission set apart.
Containment == "SECURITY_CONTAINMENT"
Bootstrap == "BOOTSTRAP"
Emergency == "GLOBAL_EMERGENCY_BOUND"

Lesser(a, b) == IF a < b THEN a ELSE b

LeasedPolicies == Policies \cup {Containment, Bootstrap}
LeaseClasses == LeasedPolicies \cup {Emergency}

ASSUME LeasesAssumption ==
  /\ IsFiniteSet(LeaseIds) /\ None \notin [policy : LeasedPolicies, classes : SUBSET LeaseClasses,
                                           left : 0 .. LeaseDuration]
  /\ Policies \cap {Containment, Bootstrap, Emergency} = {}
  /\ Concurrency \in [LeaseClasses -> Nat]
  /\ MaxLeases \in Nat \ {0}
  /\ LeaseDuration \in Nat \ {0}

VARIABLES leases,     \* per id: the lease, or None
          active,     \* activeLeasesByPolicy
          working     \* ids of the requests whose handler still runs

leaseVars == <<leases, active, working>>

\* The reserves shrink with MaxLeases; one lease is always left to the others.
ContainmentReserve == Lesser(MaxLeases - 1, Concurrency[Containment])
BootstrapReserve ==
  Lesser(IF MaxLeases > ContainmentReserve THEN MaxLeases - ContainmentReserve - 1 ELSE 0,
         Concurrency[Bootstrap])

\* The classes a lease is counted in: its own and the global one.
ClassesOf(p) ==
  {c \in IF p = Containment THEN {p} ELSE {p, Emergency} : Concurrency[c] > 0}

Held == {l \in LeaseIds : leases[l] # None}
HeldAs(S) == {l \in Held : leases[l].policy \in S}
CountedIn(c) == {l \in Held : c \in leases[l].classes}
ExpiredWhenFinished == {l \in Held \ working : leases[l].left = 0}     \* mutant
Expired == {l \in Held : leases[l].left = 0}

-----------------------------------------------------------------------------
NoLeases ==
  /\ leases = [l \in LeaseIds |-> None]
  /\ active = [c \in LeaseClasses |-> 0]
  /\ working = {}

\* release() of every lease in S.
Drop(n, k) == IF n > k THEN n - k ELSE 0

Without(S) ==
  [leases |-> [l \in LeaseIds |-> IF l \in S THEN None ELSE leases[l]],
   active |-> [c \in LeaseClasses |-> Drop(active[c], Cardinality(S \cap CountedIn(c)))]]

Release(S) == leases' = Without(S).leases /\ active' = Without(S).active

\* acquireLease, on the counters that cleanup left.
AdmitsUnreserved(p, count, held) ==             \* mutant: nothing is set aside
  \/ p \in {Containment, Bootstrap}
  \/ held - count[Containment] - count[Bootstrap] < MaxLeases

AdmitsClass(p, count, held) ==
  CASE p = Containment -> ContainmentReserve > 0 => count[p] < ContainmentReserve
    [] p = Bootstrap -> BootstrapReserve > 0 => count[p] < BootstrapReserve
    [] OTHER -> held - count[Containment] - count[Bootstrap] <
                  MaxLeases - ContainmentReserve - BootstrapReserve

Admits(p, count, held) ==
  /\ AdmitsClass(p, count, held)
  /\ \A c \in ClassesOf(p) : count[c] < Lesser(Concurrency[c], MaxLeases)

\* admit() or reserve(): the expired leases go, the new one is counted.
Acquire(l, p) ==
  /\ leases[l] = None /\ l \notin working
  /\ LET left == Without(Expired)
         held == Cardinality(Held \ Expired)
     IN  /\ Admits(p, left.active, held)
         /\ leases' = [left.leases EXCEPT ![l] =
                         [policy |-> p, classes |-> ClassesOf(p), left |-> LeaseDuration]]
         /\ active' = [c \in LeaseClasses |->
                         left.active[c] + (IF c \in ClassesOf(p) THEN 1 ELSE 0)]
  /\ working' = working \cup {l}

\* decide() alone, or a request that is turned away: only the cleanup.
ExpireLeases == Release(Expired) /\ UNCHANGED working

\* The handler returns or throws; its lease may have expired long ago.
EndRequest(l) ==
  /\ l \in working
  /\ working' = working \ {l}
  /\ Release({l} \cap Held)

Tick ==
  /\ leases' = [l \in LeaseIds |->
                  IF leases[l] # None /\ leases[l].left > 0
                  THEN [leases[l] EXCEPT !.left = @ - 1] ELSE leases[l]]
  /\ UNCHANGED <<active, working>>

LeaseNext == \/ ExpireLeases \/ Tick
        \/ \E l \in LeaseIds : EndRequest(l) \/ \E p \in LeasedPolicies : Acquire(l, p)

-----------------------------------------------------------------------------
\* The counters agree with the leases, however leases end: by release, by
\* expiry, or by expiry first and release after.
CountersMatch == \A c \in LeaseClasses : active[c] = Cardinality(CountedIn(c))

\* The counters stay right (CountersMatch), and by them the reserves:
\* all classes together never hold more than maxConcurrencyLeases, and the
\* operational ones leave both reserves alone, so containment is never refused
\* for what others hold (security-guide/index.md:475, "independently
\* reserved").  With room for fewer than three leases there are no reserves.
ReservesAreKept ==
  /\ CountersMatch
  /\ ContainmentReserve > 0 /\ BootstrapReserve > 0 =>
       /\ Cardinality(HeldAs(Policies)) <= MaxLeases - ContainmentReserve - BootstrapReserve
       /\ Cardinality(Held) <= MaxLeases

\* A lease comes back even when its handler never returns.  (Leases are
\* interchangeable: what holds of one holds of all.)
LeaseComesBack ==
  LET l == CHOOSE l \in LeaseIds : TRUE IN leases[l] # None ~> leases[l] = None
=============================================================================
