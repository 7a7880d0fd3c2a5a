--------------------------- MODULE AdmissionProofs ---------------------------
(***************************************************************************)
(* What the server lets in.  The two halves of AbuseAdmission: the         *)
(* reserves of AdmissionLeases, for any number of leases, any policy       *)
(* classes and any limits, and the token buckets of RequestAdmission, for  *)
(* any sizes, refills, quotas and users.  And the imports of               *)
(* CredentialTransfer, for any tables, files, collections and requests.    *)
(***************************************************************************)
EXTENDS RequestAdmission, CredentialTransfer, WellFoundedInduction, FiniteSetTheorems,
        SequenceTheorems, TLAPS

-----------------------------------------------------------------------------
(* The leases.  A lease is admitted on a difference of counters.  The       *)
(* inductive invariant bounds what each part of the leases holds by itself; *)
(* together with the counters being right, the difference is then what the  *)
(* operational classes hold.                                                *)

LeaseSpec == NoLeases /\ [][LeaseNext]_leaseVars

Lease == [policy : LeasedPolicies, classes : SUBSET LeaseClasses, left : 0 .. LeaseDuration]

LeasesTypeOK ==
  /\ leases \in [LeaseIds -> Lease \cup {None}]
  /\ active \in [LeaseClasses -> Nat]
  /\ working \subseteq LeaseIds

\* A lease is counted where its policy says.
CountedByPolicy == \A l \in Held : leases[l].classes = ClassesOf(leases[l].policy)

Reserved == ContainmentReserve > 0 /\ BootstrapReserve > 0
Operational == MaxLeases - ContainmentReserve - BootstrapReserve

\* Each part of the leases stays within its own share.
SharesAreKept ==
  Reserved =>
    /\ Cardinality(HeldAs({Containment})) <= ContainmentReserve
    /\ Cardinality(HeldAs({Bootstrap})) <= BootstrapReserve
    /\ Cardinality(HeldAs(Policies)) <= Operational

LInv == LeasesTypeOK /\ CountedByPolicy /\ CountersMatch /\ SharesAreKept

-----------------------------------------------------------------------------
(* Sets of leases and what they count.                                      *)

LEMMA NoneIsNoLease == None \notin Lease
BY LeasesAssumption DEF Lease

LEMMA ReservesAreNumbers ==
  ContainmentReserve \in Nat /\ BootstrapReserve \in Nat /\ Operational \in Int
BY LeasesAssumption DEF ContainmentReserve, BootstrapReserve, Operational, Lesser, LeaseClasses, LeasedPolicies

LEMMA PartsAreFinite ==
  ASSUME NEW S \in SUBSET LeaseIds
  PROVE  IsFiniteSet(S) /\ Cardinality(S) \in Nat
BY LeasesAssumption, FS_Subset, FS_CardinalityType

\* Without(S) takes what S counts off each counter, and not more.
LEMMA DropCounts ==
  ASSUME NEW A \in SUBSET LeaseIds, NEW S \in SUBSET LeaseIds
  PROVE  /\ Drop(Cardinality(A), Cardinality(S \cap A)) = Cardinality(A \ S)
         /\ Cardinality(A \ S) <= Cardinality(A)
<1>1. IsFiniteSet(A) /\ IsFiniteSet(A \cap S) /\ IsFiniteSet(A \ S)
  BY PartsAreFinite
<1>2. Cardinality(A \ S) = Cardinality(A) - Cardinality(A \cap S)
  BY <1>1, FS_Difference
<1>3. S \cap A = A \cap S
  OBVIOUS
<1>4. /\ Cardinality(A) \in Nat /\ Cardinality(A \cap S) \in Nat
      /\ Cardinality(A \ S) \in Nat
  BY PartsAreFinite
<1> QED
  BY <1>2, <1>3, <1>4 DEF Drop

LEMMA AddCounts ==
  ASSUME NEW A \in SUBSET LeaseIds, NEW l \in LeaseIds, l \notin A
  PROVE  Cardinality(A \cup {l}) = Cardinality(A) + 1
BY PartsAreFinite, FS_AddElement

LEMMA DisjointCounts ==
  ASSUME NEW A \in SUBSET LeaseIds, NEW B \in SUBSET LeaseIds, A \cap B = {}
  PROVE  Cardinality(A \cup B) = Cardinality(A) + Cardinality(B)
<1>1. Cardinality(A \cup B) = Cardinality(A) + Cardinality(B) - Cardinality(A \cap B)
  BY PartsAreFinite, FS_Union
<1>2. Cardinality(A \cap B) = 0
  BY FS_EmptySet
<1> QED
  BY <1>1, <1>2, PartsAreFinite

\* The three parts of what is held are disjoint and leave nothing out.
LEMMA HeldInParts ==
  ASSUME LeasesTypeOK, NEW S \in SUBSET LeaseIds
  PROVE  Cardinality(Held \ S) =
           Cardinality(HeldAs(Policies) \ S) + Cardinality(HeldAs({Containment}) \ S)
             + Cardinality(HeldAs({Bootstrap}) \ S)
<1> DEFINE P == HeldAs(Policies) \ S
           C == HeldAs({Containment}) \ S
           B == HeldAs({Bootstrap}) \ S
<1>1. \A l \in Held : leases[l].policy \in Policies \cup {Containment, Bootstrap}
  BY DEF LeasesTypeOK, Held, Lease, LeasedPolicies
<1>2. /\ Held \ S = (P \cup C) \cup B
      /\ P \cap C = {} /\ (P \cup C) \cap B = {}
  BY <1>1, LeasesAssumption DEF HeldAs, Containment, Bootstrap
<1>3. P \in SUBSET LeaseIds /\ C \in SUBSET LeaseIds /\ B \in SUBSET LeaseIds
  BY DEF HeldAs, Held
<1> HIDE DEF P, C, B
<1>4. Cardinality(P \cup C) = Cardinality(P) + Cardinality(C)
  BY <1>2, <1>3, DisjointCounts
<1>5. Cardinality((P \cup C) \cup B) = Cardinality(P \cup C) + Cardinality(B)
  <2>1. P \cup C \in SUBSET LeaseIds
    BY <1>3
  <2> QED
    BY <1>2, <1>3, <2>1, DisjointCounts
<1>6. Cardinality(Held \ S) = Cardinality(P) + Cardinality(C) + Cardinality(B)
  BY <1>2, <1>4, <1>5
<1> QED
  BY <1>6 DEF P, C, B

\* With reserves, the counters of containment and Bootstrap count their parts.
LEMMA ReservedCounts ==
  ASSUME LeasesTypeOK, CountedByPolicy, Reserved
  PROVE  /\ CountedIn(Containment) = HeldAs({Containment})
         /\ CountedIn(Bootstrap) = HeldAs({Bootstrap})
<1>1. Concurrency[Containment] > 0 /\ Concurrency[Bootstrap] > 0
  BY LeasesAssumption
     DEF Reserved, ContainmentReserve, BootstrapReserve, Lesser, LeaseClasses, LeasedPolicies
<1>2. \A l \in Held : leases[l].policy \in LeasedPolicies
  BY DEF LeasesTypeOK, Held, Lease
<1>3. \A p \in LeasedPolicies : /\ Containment \in ClassesOf(p) <=> p = Containment
                                /\ Bootstrap \in ClassesOf(p) <=> p = Bootstrap
  BY <1>1, LeasesAssumption DEF ClassesOf, LeasedPolicies, Containment, Bootstrap, Emergency
<1> QED
  BY <1>2, <1>3 DEF CountedIn, HeldAs, CountedByPolicy

-----------------------------------------------------------------------------
(* Leases end: by release, by expiry, or by both.                           *)

LEMMA ReleaseKeeps ==
  ASSUME LInv, NEW S \in SUBSET Held, Release(S), working' \subseteq LeaseIds
  PROVE  LInv'
<1> USE DEF LInv
<1>1. S \in SUBSET LeaseIds
  BY DEF Held
<1>2. leases' = [l \in LeaseIds |-> IF l \in S THEN None ELSE leases[l]]
  BY DEF Release, Without
<1>3. /\ Held' = Held \ S
      /\ \A l \in Held' : leases'[l] = leases[l]
  BY <1>1, <1>2 DEF Held
<1>4. /\ \A c : CountedIn(c)' = CountedIn(c) \ S
      /\ HeldAs({Containment})' = HeldAs({Containment}) \ S
      /\ HeldAs({Bootstrap})' = HeldAs({Bootstrap}) \ S
      /\ HeldAs(Policies)' = HeldAs(Policies) \ S
  BY <1>3 DEF CountedIn, HeldAs
<1>5. \A c \in LeaseClasses : active'[c] = Cardinality(CountedIn(c) \ S)
  <2> TAKE c \in LeaseClasses
  <2>1. CountedIn(c) \in SUBSET LeaseIds
    BY DEF CountedIn, Held
  <2>2. active'[c] = Drop(Cardinality(CountedIn(c)), Cardinality(S \cap CountedIn(c)))
    BY DEF Release, Without, CountersMatch
  <2> QED
    BY <1>1, <2>1, <2>2, DropCounts
<1>6. LeasesTypeOK'
  <2>1. leases' \in [LeaseIds -> Lease \cup {None}]
    BY <1>2 DEF LeasesTypeOK
  <2>2. \A c \in LeaseClasses : Cardinality(CountedIn(c) \ S) \in Nat
    BY PartsAreFinite DEF CountedIn, Held
  <2>3. active' \in [LeaseClasses -> Nat]
    BY <1>5, <2>2 DEF Release, Without
  <2> QED
    BY <2>1, <2>3 DEF LeasesTypeOK
<1>7. CountedByPolicy'
  BY <1>3 DEF CountedByPolicy
<1>8. CountersMatch'
  BY <1>4, <1>5 DEF CountersMatch
<1>9. SharesAreKept'
  <2>1. /\ HeldAs({Containment}) \in SUBSET LeaseIds
        /\ HeldAs({Bootstrap}) \in SUBSET LeaseIds
        /\ HeldAs(Policies) \in SUBSET LeaseIds
    BY DEF HeldAs, Held
  <2>2. ASSUME NEW P \in {Policies, {Containment}, {Bootstrap}}
        PROVE  /\ Cardinality(HeldAs(P)') <= Cardinality(HeldAs(P))
               /\ Cardinality(HeldAs(P)) \in Nat /\ Cardinality(HeldAs(P)') \in Nat
    <3>1. HeldAs(P)' = HeldAs(P) \ S /\ HeldAs(P) \in SUBSET LeaseIds
      BY <1>4, <2>1
    <3>2. HeldAs(P) \ S \in SUBSET LeaseIds
      BY <3>1
    <3>3. Cardinality(HeldAs(P) \ S) <= Cardinality(HeldAs(P))
      BY <1>1, <3>1, DropCounts
    <3> QED
      BY <3>1, <3>2, <3>3, PartsAreFinite
  <2>3. /\ Cardinality(HeldAs(Policies)') <= Cardinality(HeldAs(Policies))
        /\ Cardinality(HeldAs({Containment})') <= Cardinality(HeldAs({Containment}))
        /\ Cardinality(HeldAs({Bootstrap})') <= Cardinality(HeldAs({Bootstrap}))
    BY <2>2
  <2>4. /\ Cardinality(HeldAs(Policies)) \in Nat /\ Cardinality(HeldAs(Policies)') \in Nat
        /\ Cardinality(HeldAs({Containment})) \in Nat /\ Cardinality(HeldAs({Containment})') \in Nat
        /\ Cardinality(HeldAs({Bootstrap})) \in Nat /\ Cardinality(HeldAs({Bootstrap})') \in Nat
    BY <2>2
  <2> QED
    BY <2>3, <2>4, ReservesAreNumbers DEF SharesAreKept
<1> QED
  BY <1>6, <1>7, <1>8, <1>9

-----------------------------------------------------------------------------
(* A lease is admitted, after the expired ones have gone.                   *)

LEMMA AcquireKeeps ==
  ASSUME LInv, NEW l \in LeaseIds, NEW p \in LeasedPolicies, Acquire(l, p)
  PROVE  LInv'
<1> USE DEF LInv
<1> DEFINE E == Expired
           new == [policy |-> p, classes |-> ClassesOf(p), left |-> LeaseDuration]
           count == Without(E).active
<1>1. E \in SUBSET LeaseIds /\ l \notin Held
  BY DEF Expired, Held, Acquire
<1>2. leases' = [k \in LeaseIds |-> IF k = l THEN new ELSE IF k \in E THEN None ELSE leases[k]]
  BY DEF Acquire, Without
<1>3. new \in Lease /\ new # None
  <2>1. ClassesOf(p) \in SUBSET LeaseClasses
    BY DEF ClassesOf, LeaseClasses, LeasedPolicies
  <2> QED
    BY <2>1, LeasesAssumption, NoneIsNoLease DEF Lease
<1>4. /\ Held' = (Held \ E) \cup {l}
      /\ leases'[l] = new
      /\ \A k \in Held \ E : leases'[k] = leases[k]
  BY <1>1, <1>2, <1>3 DEF Held
<1>5. \A c : CountedIn(c)' = IF c \in ClassesOf(p) THEN (CountedIn(c) \ E) \cup {l}
                                                 ELSE CountedIn(c) \ E
  BY <1>1, <1>4 DEF CountedIn
<1>6. ASSUME NEW P \in {Policies, {Containment}, {Bootstrap}}
      PROVE  HeldAs(P)' = IF p \in P THEN (HeldAs(P) \ E) \cup {l} ELSE HeldAs(P) \ E
  BY <1>1, <1>4 DEF HeldAs
<1>7. \A c \in LeaseClasses : count[c] = Cardinality(CountedIn(c) \ E)
  <2> TAKE c \in LeaseClasses
  <2>1. CountedIn(c) \in SUBSET LeaseIds
    BY DEF CountedIn, Held
  <2>2. count[c] = Drop(Cardinality(CountedIn(c)), Cardinality(E \cap CountedIn(c)))
    BY DEF Without, CountersMatch
  <2> QED
    BY <1>1, <2>1, <2>2, DropCounts
<1>8. \A c \in LeaseClasses : active'[c] = count[c] + (IF c \in ClassesOf(p) THEN 1 ELSE 0)
  BY DEF Acquire
<1>9. \A c \in LeaseClasses : /\ CountedIn(c) \ E \in SUBSET LeaseIds
                              /\ l \notin CountedIn(c) \ E
                              /\ Cardinality(CountedIn(c) \ E) \in Nat
  BY <1>1, PartsAreFinite DEF CountedIn, Held
<1> HIDE DEF count, E, new
<1>10. CountersMatch'
  <2> SUFFICES ASSUME NEW c \in LeaseClasses PROVE active'[c] = Cardinality(CountedIn(c)')
    BY DEF CountersMatch
  <2>1. CASE c \in ClassesOf(p)
    <3>1. Cardinality((CountedIn(c) \ E) \cup {l}) = Cardinality(CountedIn(c) \ E) + 1
      BY <1>9, AddCounts
    <3> QED
      BY <1>5, <1>7, <1>8, <2>1, <3>1
  <2>2. CASE c \notin ClassesOf(p)
    BY <1>5, <1>7, <1>8, <1>9, <2>2
  <2> QED
    BY <2>1, <2>2
<1>11. LeasesTypeOK'
  <2>1. leases' \in [LeaseIds -> Lease \cup {None}]
    BY <1>2, <1>3 DEF LeasesTypeOK
  <2>2. active' \in [LeaseClasses -> Nat]
    <3>1. ASSUME NEW c \in LeaseClasses PROVE active'[c] \in Nat
      <4>1. count[c] \in Nat
        BY <1>7, <1>9
      <4> QED
        BY <1>8, <4>1
    <3>2. active' = [c \in LeaseClasses |-> active'[c]]
      BY DEF Acquire
    <3> QED
      BY <3>1, <3>2
  <2>3. working' \subseteq LeaseIds
    BY DEF Acquire, LeasesTypeOK
  <2> QED
    BY <2>1, <2>2, <2>3 DEF LeasesTypeOK
<1>12. CountedByPolicy'
  BY <1>4 DEF CountedByPolicy, new
<1>13. SharesAreKept'
  <2> SUFFICES ASSUME Reserved
               PROVE  /\ Cardinality(HeldAs({Containment})') <= ContainmentReserve
                      /\ Cardinality(HeldAs({Bootstrap})') <= BootstrapReserve
                      /\ Cardinality(HeldAs(Policies)') <= Operational
    BY DEF SharesAreKept, Reserved, Operational, ContainmentReserve, BootstrapReserve
  <2> DEFINE taken == Cardinality(Held \ E)
  <2>1. AdmitsClass(p, count, taken)
    BY DEF Acquire, Admits, count, E
  <2>2. /\ count[Containment] = Cardinality(HeldAs({Containment}) \ E)
        /\ count[Bootstrap] = Cardinality(HeldAs({Bootstrap}) \ E)
    BY <1>7, ReservedCounts DEF LeaseClasses, LeasedPolicies
  <2>3. taken = Cardinality(HeldAs(Policies) \ E) + count[Containment] + count[Bootstrap]
    BY <1>1, <2>2, HeldInParts
  <2>4. ASSUME NEW P \in {Policies, {Containment}, {Bootstrap}}
        PROVE  /\ HeldAs(P) \in SUBSET LeaseIds
               /\ l \notin HeldAs(P) \ E
               /\ Cardinality(HeldAs(P)) \in Nat
               /\ Cardinality(HeldAs(P) \ E) \in Nat
               /\ Cardinality(HeldAs(P) \ E) <= Cardinality(HeldAs(P))
               /\ Cardinality(HeldAs(P)') = Cardinality(HeldAs(P) \ E) + (IF p \in P THEN 1 ELSE 0)
    <3>1. HeldAs(P) \in SUBSET LeaseIds /\ l \notin HeldAs(P) \ E
      BY <1>1 DEF HeldAs, Held
    <3>2. HeldAs(P) \ E \in SUBSET LeaseIds
      BY <3>1
    <3>3. /\ Cardinality(HeldAs(P)) \in Nat
          /\ Cardinality(HeldAs(P) \ E) \in Nat
          /\ Cardinality(HeldAs(P) \ E) <= Cardinality(HeldAs(P))
      BY <1>1, <3>1, <3>2, PartsAreFinite, DropCounts
    <3>4. Cardinality((HeldAs(P) \ E) \cup {l}) = Cardinality(HeldAs(P) \ E) + 1
      BY <3>1, <3>2, AddCounts
    <3>5. CASE p \in P
      <4>1. HeldAs(P)' = (HeldAs(P) \ E) \cup {l}
        BY <1>6, <3>5
      <4> QED
        BY <3>1, <3>3, <3>4, <3>5, <4>1
    <3>6. CASE p \notin P
      <4>1. HeldAs(P)' = HeldAs(P) \ E
        BY <1>6, <3>6
      <4>2. Cardinality(HeldAs(P)') = Cardinality(HeldAs(P) \ E)
        BY <4>1
      <4> QED
        BY <3>1, <3>3, <3>6, <4>2
    <3> QED
      BY <3>5, <3>6
  <2> DEFINE Before(P) == Cardinality(HeldAs(P))
             After(P) == Cardinality(HeldAs(P)')
             Kept(P) == Cardinality(HeldAs(P) \ E)
  <2>5. ASSUME NEW P \in {Policies, {Containment}, {Bootstrap}}
        PROVE  /\ Before(P) \in Nat /\ Kept(P) \in Nat /\ Kept(P) <= Before(P)
               /\ After(P) = Kept(P) + (IF p \in P THEN 1 ELSE 0)
    BY <2>4
  <2>6. /\ Before(Policies) <= Operational
        /\ Before({Containment}) <= ContainmentReserve
        /\ Before({Bootstrap}) <= BootstrapReserve
    BY DEF SharesAreKept
  <2>7. SUFFICES /\ After({Containment}) <= ContainmentReserve
                 /\ After({Bootstrap}) <= BootstrapReserve
                 /\ After(Policies) <= Operational
    OBVIOUS
  <2>8. /\ count[Containment] = Kept({Containment})
        /\ count[Bootstrap] = Kept({Bootstrap})
        /\ taken = Kept(Policies) + Kept({Containment}) + Kept({Bootstrap})
    BY <2>2, <2>3
  <2> HIDE DEF taken, Before, After, Kept
  <2>9. CASE p = Containment
    <3>1. p \notin Policies /\ p \notin {Bootstrap} /\ count[p] < ContainmentReserve
      BY <2>1, <2>9, LeasesAssumption DEF AdmitsClass, Containment, Bootstrap, Reserved
    <3> QED
      BY <2>5, <2>6, <2>8, <2>9, <3>1, ReservesAreNumbers
  <2>10. CASE p = Bootstrap
    <3>1. p \notin Policies /\ p \notin {Containment} /\ count[p] < BootstrapReserve
      BY <2>1, <2>10, LeasesAssumption DEF AdmitsClass, Containment, Bootstrap, Reserved
    <3> QED
      BY <2>5, <2>6, <2>8, <2>10, <3>1, ReservesAreNumbers
  <2>11. CASE p \in Policies
    <3>1. /\ p \notin {Containment} /\ p \notin {Bootstrap}
          /\ taken - count[Containment] - count[Bootstrap] < Operational
      BY <2>1, <2>11, LeasesAssumption DEF AdmitsClass, Operational
    <3> QED
      BY <2>5, <2>6, <2>8, <2>11, <3>1, ReservesAreNumbers
  <2> QED
    BY <2>9, <2>10, <2>11 DEF LeasedPolicies
<1> QED
  BY <1>10, <1>11, <1>12, <1>13

-----------------------------------------------------------------------------
LEMMA TickKeeps ==
  ASSUME LInv, Tick
  PROVE  LInv'
<1> USE DEF LInv
<1>1. /\ Held' = Held
      /\ \A l \in Held : /\ leases'[l].policy = leases[l].policy
                         /\ leases'[l].classes = leases[l].classes
      /\ leases' \in [LeaseIds -> Lease \cup {None}]
  <2>1. \A l \in LeaseIds : leases[l] # None => leases[l] \in Lease
    BY DEF LeasesTypeOK
  <2>2. \A l \in LeaseIds : leases[l] # None =>
          /\ leases'[l] \in Lease
          /\ leases'[l].policy = leases[l].policy
          /\ leases'[l].classes = leases[l].classes
    BY <2>1, LeasesAssumption DEF Tick, Lease
  <2>3. \A l \in LeaseIds : leases[l] = None => leases'[l] = None
    BY DEF Tick
  <2>4. leases' \in [LeaseIds -> Lease \cup {None}]
    BY <2>2, <2>3 DEF Tick
  <2> QED
    BY <2>2, <2>3, <2>4, NoneIsNoLease DEF Held
<1>2. /\ \A c : CountedIn(c)' = CountedIn(c)
      /\ HeldAs({Containment})' = HeldAs({Containment})
      /\ HeldAs({Bootstrap})' = HeldAs({Bootstrap})
      /\ HeldAs(Policies)' = HeldAs(Policies)
  BY <1>1 DEF CountedIn, HeldAs
<1>3. LeasesTypeOK'
  BY <1>1 DEF LeasesTypeOK, Tick
<1>4. CountedByPolicy'
  BY <1>1 DEF CountedByPolicy
<1>5. CountersMatch'
  BY <1>2 DEF CountersMatch, Tick
<1>6. SharesAreKept'
  BY <1>2 DEF SharesAreKept
<1> QED
  BY <1>3, <1>4, <1>5, <1>6

LEMMA StartsWithout == NoLeases => LInv
<1> SUFFICES ASSUME NoLeases PROVE LInv
  OBVIOUS
<1>1. Held = {}
  BY DEF NoLeases, Held
<1>2. LeasesTypeOK /\ CountedByPolicy
  BY <1>1 DEF NoLeases, LeasesTypeOK, CountedByPolicy
<1>3. /\ \A c : CountedIn(c) = {}
      /\ HeldAs({Containment}) = {} /\ HeldAs({Bootstrap}) = {} /\ HeldAs(Policies) = {}
  BY <1>1 DEF CountedIn, HeldAs
<1>4. CountersMatch
  BY <1>3, FS_EmptySet DEF NoLeases, CountersMatch
<1>5. Reserved => Operational >= 0
  BY LeasesAssumption
     DEF Reserved, Operational, ContainmentReserve, BootstrapReserve, Lesser, LeaseClasses, LeasedPolicies
<1>6. SharesAreKept
  BY <1>3, <1>5, FS_EmptySet, ReservesAreNumbers DEF SharesAreKept, Reserved
<1> QED
  BY <1>2, <1>4, <1>6 DEF LInv

LEMMA LInvImpliesReserves == LInv => ReservesAreKept
<1> SUFFICES ASSUME LInv, Reserved
             PROVE  /\ Cardinality(HeldAs(Policies)) <= Operational
                    /\ Cardinality(Held) <= MaxLeases
  BY DEF LInv, ReservesAreKept, Reserved, Operational
<1>1. /\ Held \ {} = Held
      /\ HeldAs(Policies) \ {} = HeldAs(Policies)
      /\ HeldAs({Containment}) \ {} = HeldAs({Containment})
      /\ HeldAs({Bootstrap}) \ {} = HeldAs({Bootstrap})
  OBVIOUS
<1>2. Cardinality(Held) = Cardinality(HeldAs(Policies)) + Cardinality(HeldAs({Containment}))
                            + Cardinality(HeldAs({Bootstrap}))
  BY <1>1, HeldInParts DEF LInv
<1>3. /\ Cardinality(HeldAs(Policies)) \in Nat /\ Cardinality(HeldAs({Containment})) \in Nat
      /\ Cardinality(HeldAs({Bootstrap})) \in Nat
  BY PartsAreFinite DEF HeldAs, Held
<1> QED
  BY <1>2, <1>3, ReservesAreNumbers, LeasesAssumption DEF LInv, SharesAreKept, Operational

\* Whatever order leases are admitted, released and expire in, the counters are
\* right and both reserves are free for those they are kept for (ReservesAreKept).
THEOREM LeasesLeaveTheReserves == LeaseSpec => []ReservesAreKept
<1>1. LInv /\ [LeaseNext]_leaseVars => LInv'
  <2> SUFFICES ASSUME LInv, [LeaseNext]_leaseVars PROVE LInv'
    OBVIOUS
  <2>1. CASE ExpireLeases
    <3>1. Expired \in SUBSET Held /\ working' \subseteq LeaseIds
      BY <2>1 DEF Expired, ExpireLeases, LInv, LeasesTypeOK
    <3> QED
      BY <2>1, <3>1, ReleaseKeeps DEF ExpireLeases
  <2>2. CASE Tick
    BY <2>2, TickKeeps
  <2>3. ASSUME NEW l \in LeaseIds, EndRequest(l) PROVE LInv'
    <3>1. ({l} \cap Held) \in SUBSET Held /\ working' \subseteq LeaseIds
      BY <2>3 DEF EndRequest, LInv, LeasesTypeOK
    <3> QED
      BY <2>3, <3>1, ReleaseKeeps DEF EndRequest
  <2>4. ASSUME NEW l \in LeaseIds, NEW p \in LeasedPolicies, Acquire(l, p) PROVE LInv'
    BY <2>4, AcquireKeeps
  <2>5. CASE UNCHANGED leaseVars
    BY <2>5 DEF leaseVars, LInv, LeasesTypeOK, CountedByPolicy, CountersMatch, SharesAreKept,
                Held, HeldAs, CountedIn
  <2> QED
    BY <2>1, <2>2, <2>3, <2>4, <2>5 DEF LeaseNext
<1> QED
  BY <1>1, StartsWithout, LInvImpliesReserves, PTL DEF LeaseSpec

-----------------------------------------------------------------------------
(* The token buckets.  What a bucket gave, what is in it and what the clock *)
(* may still refill are together no more than its size and the advances of  *)
(* the clock; and since it was last used there was time to fill it again at *)
(* most that much, so that nothing is gained when it is forgotten.          *)

Bucket == [tokens : Nat, refilled : Nat, used : Nat]
Results == {"ALLOW", "THROTTLE", "EXHAUSTED"}
Asking == [route : Routes, source : Sources, user : Users \cup {Unknown}, cost : Costs,
           trusted : BOOLEAN,
           at : Results \cup {"parsed", "admitted", "TURNED_AWAY", "BLOCKED"}]

BucketsTypeOK ==
  /\ now \in Nat /\ forward \in Nat
  /\ buckets \in [Keys -> Bucket \cup {None}]
  /\ spent \in [Keys -> Nat]
  /\ request \in [Requests -> Asking \cup {None}]

Bounded(k, bucket) ==
  IF bucket = None THEN spent[k] <= forward
  ELSE /\ spent[k] + bucket.tokens + Since(bucket.refilled) <= Full(k) + forward
       /\ spent[k] + Since(bucket.used) <= Full(k) + forward

RInv == BucketsTypeOK /\ \A k \in Keys : Bounded(k, buckets[k])

\* What holds of a decision while its descriptors are asked.
Sound(d, cost) ==
  /\ d \in [table : [Keys -> Bucket \cup {None}], asked : SUBSET Keys, result : Results]
  /\ \A k \in Keys : Bounded(k, d.table[k])
  /\ d.result = "ALLOW" => \A k \in d.asked : /\ d.table[k] # None
                                              /\ Price(k, cost) <= Available(d.table[k], k)

-----------------------------------------------------------------------------
LEMMA NoneIsNoBucket == None \notin Bucket
BY AdmissionAssumption DEF Bucket

\* What the keys of a class, a source and a user are made of.
KeyRecords(source, user) ==
  [domain : Domains, class : Classes,
   id : {source, user, Unknown, "containment", "pre-auth", "operational"}]

LEMMA ShortSequences == ASSUME NEW S, NEW x \in S PROVE <<x>> \in Seq(S) /\ <<>> \in Seq(S)
OBVIOUS

LEMMA DescriptorsAreRecords ==
  ASSUME NEW class \in Classes, NEW source, NEW user
  PROVE  Descriptors(class, source, user) \in Seq(KeyRecords(source, user))
<1> DEFINE K == KeyRecords(source, user)
           own == IF class \in {PreAuth, Callback, Bootstrap} THEN <<>>
                  ELSE IF Consumes(class) THEN <<Key("consumer", class, user)>>
                  ELSE <<Key("actor", class, user)>>
           more == IF class \in {"CONSUMER_RESOLVE", "CONSUMER_BATCH_RESOLVE"}
                   THEN <<Key("token", class, user)>>
                   ELSE IF UsesProvider(class) THEN <<Key("provider", class, Unknown)>>
                   ELSE <<>>
           last == IF class = Containment THEN <<Key("containment", class, "containment")>>
                   ELSE IF class \in {PreAuth, Callback, Bootstrap}
                   THEN <<Key("global", Emergency, "pre-auth")>>
                   ELSE <<Key("global", Emergency, "operational")>>
<1>1. /\ Key("source", class, source) \in K /\ Key("consumer", class, user) \in K
      /\ Key("actor", class, user) \in K /\ Key("token", class, user) \in K
      /\ Key("provider", class, Unknown) \in K
      /\ Key("containment", class, "containment") \in K
  BY DEF Key, Domains, KeyRecords
<1>2. Key("global", Emergency, "pre-auth") \in K /\ Key("global", Emergency, "operational") \in K
  <2>1. Emergency \in Classes
    BY DEF Classes
  <2> QED
    BY <2>1 DEF Key, Domains, KeyRecords
<1>3. Descriptors(class, source, user) = ((<<Key("source", class, source)>> \o own) \o more) \o last
  BY DEF Descriptors, OwnKeys
<1> HIDE DEF K
<1>4. <<Key("source", class, source)>> \in Seq(K)
  BY <1>1, ShortSequences
<1>5. own \in Seq(K)
  BY <1>1, ShortSequences
<1>6. more \in Seq(K)
  BY <1>1, ShortSequences
<1>7. last \in Seq(K)
  BY <1>2, <1>1, ShortSequences
<1> HIDE DEF own, more, last
<1>8. Descriptors(class, source, user) \in Seq(K)
  <2>1. <<Key("source", class, source)>> \o own \in Seq(K)
    BY <1>4, <1>5, ConcatProperties
  <2>2. (<<Key("source", class, source)>> \o own) \o more \in Seq(K)
    BY <1>6, <2>1, ConcatProperties
  <2> QED
    BY <1>3, <1>7, <2>2, ConcatProperties
<1> QED
  BY <1>8 DEF K

LEMMA DescriptorsHaveClasses ==
  ASSUME NEW class \in Classes, NEW source, NEW user, NEW i \in 1 .. Len(Descriptors(class, source, user))
  PROVE  Descriptors(class, source, user)[i] \in KeyRecords(source, user)
<1>1. Descriptors(class, source, user) \in Seq(KeyRecords(source, user))
  BY DescriptorsAreRecords
<1> QED
  BY <1>1, ElementOfSeq

LEMMA RoutesHaveClasses ==
  ASSUME NEW route \in Routes
  PROVE  PolicyForRequest(route) \in Classes /\ PreParserPolicyClass(route) \in Classes
<1>1. route \in AllRoutes
  BY AdmissionAssumption DEF Configured
<1>2. "bootstrap" \in AllRoutes /\ PolicyForRequest("bootstrap") = Bootstrap
  BY DEF AllRoutes, OpenRoutes, PolicyForRequest, Containments
<1> QED
  BY <1>1, <1>2 DEF Classes, PreParserPolicyClass

LEMMA KeysHaveSizes ==
  ASSUME NEW k \in Keys, NEW cost \in Nat
  PROVE  Full(k) \in Nat /\ Full(k) <= IdleTtl /\ Price(k, cost) \in Nat
<1>1. PICK route \in Routes, source \in Sources, user \in Users \cup {Unknown} :
        \/ k \in BucketsOf(PreParserPolicyClass(route), source, Unknown)
        \/ k \in BucketsOf(PolicyForRequest(route), source, user)
  BY DEF Keys
<1>2. \A class \in Classes, by \in Users \cup {Unknown} :
         k \in BucketsOf(class, source, by) => k.class \in Classes
  <2> SUFFICES ASSUME NEW class \in Classes, NEW by \in Users \cup {Unknown},
                      k \in BucketsOf(class, source, by)
               PROVE  k.class \in Classes
    OBVIOUS
  <2>1. PICK i \in 1 .. Len(Descriptors(class, source, by)) :
          k \in OwnOrShared(Descriptors(class, source, by)[i])
    BY DEF BucketsOf
  <2>2. Descriptors(class, source, by)[i] \in KeyRecords(source, by)
    BY DescriptorsHaveClasses
  <2> QED
    BY <2>1, <2>2 DEF OwnOrShared, KeyRecords
<1>3. k.class \in Classes
  BY <1>1, <1>2, RoutesHaveClasses
<1>4. PolicyOf(k) \in Classes \cup {ContainmentTotal}
  BY <1>3 DEF PolicyOf
<1>5. Capacity[PolicyOf(k)] \in Nat /\ RefillEvery[PolicyOf(k)] \in Nat
  BY <1>4, AdmissionAssumption DEF Configured
<1> QED
  BY <1>4, <1>5, IdleAssumption DEF Full, Price, ForgottenWhenFull

-----------------------------------------------------------------------------
\* One descriptor is asked: its bucket, or the shared one, is touched or made.
LEMMA AskKeeps ==
  ASSUME RInv, NEW cost \in Nat, NEW d, Sound(d, cost), NEW keys, NEW i \in Nat \ {0},
         Len(keys) \in Nat, \A j \in 1 .. Len(keys) : OwnOrShared(keys[j]) \subseteq Keys
  PROVE  Sound(Ask(d, keys, i, cost), cost)
<1> DEFINE place == Place(d.table, keys[i])
           table == Lookup(d.table, keys[i])
<1>1. CASE i > Len(keys) \/ d.result # "ALLOW"
  BY <1>1 DEF Ask
<1>2. CASE ~ (i > Len(keys) \/ d.result # "ALLOW")
  <2>1. keys[i] \in Keys /\ [keys[i] EXCEPT !.id = Overflow] \in Keys
    BY <1>2 DEF OwnOrShared
  <2>2. place \in Keys
    BY <2>1 DEF Place
  <2>3. d.table \in [Keys -> Bucket \cup {None}] /\ d.asked \subseteq Keys
    BY DEF Sound
  <2>4. \E k \in Keys : \/ table = d.table /\ d.table[place] # None
                        \/ d.table[k] # None /\ place = k /\ table = [d.table EXCEPT ![k].used = now]
                        \/ d.table[k] = None /\ place = k /\ table = [d.table EXCEPT ![k] = NewBucket(k)]
    BY <2>1, <2>2 DEF Lookup, Place
  <2>5. /\ table \in [Keys -> Bucket \cup {None}]
        /\ table[place] # None
        /\ \A k \in Keys : /\ Bounded(k, table[k])
                           /\ d.table[k] # None =>
                                /\ table[k] # None
                                /\ Available(table[k], k) = Available(d.table[k], k)
    <3>1. PICK k \in Keys :
             \/ table = d.table /\ d.table[place] # None
             \/ d.table[k] # None /\ place = k /\ table = [d.table EXCEPT ![k].used = now]
             \/ d.table[k] = None /\ place = k /\ table = [d.table EXCEPT ![k] = NewBucket(k)]
      BY <2>4
    <3> HIDE DEF place, table
    <3>2. /\ now \in Nat /\ forward \in Nat /\ spent[k] \in Nat
          /\ Full(k) \in Nat /\ Bounded(k, d.table[k])
      BY KeysHaveSizes DEF RInv, BucketsTypeOK, Sound
    <3>3. CASE table = d.table /\ d.table[place] # None
      BY <2>3, <3>3 DEF Sound
    <3>4. CASE d.table[k] # None /\ place = k /\ table = [d.table EXCEPT ![k].used = now]
      <4>1. d.table[k] \in Bucket
        BY <2>3, <3>4
      <4>2. /\ table[k] = [d.table[k] EXCEPT !.used = now]
            /\ table[k] \in Bucket
            /\ table[k].tokens = d.table[k].tokens /\ table[k].refilled = d.table[k].refilled
            /\ table[k].used = now
            /\ \A other \in Keys : other # k => table[other] = d.table[other]
        BY <2>3, <3>2, <3>4, <4>1 DEF Bucket
      <4>3. table \in [Keys -> Bucket \cup {None}]
        BY <2>3, <3>4, <4>1, <4>2
      <4>4. table[k] # None
        BY <4>2, NoneIsNoBucket
      <4>5. Bounded(k, table[k])
        <5>1. Since(table[k].refilled) \in Nat /\ Since(table[k].used) = 0 /\ d.table[k].tokens \in Nat
          BY <3>2, <4>1, <4>2 DEF Since, Bucket
        <5>2. spent[k] + table[k].tokens + Since(table[k].refilled) <= Full(k) + forward
          BY <3>2, <3>4, <4>2 DEF Bounded
        <5> QED
          BY <3>2, <4>2, <4>4, <5>1, <5>2 DEF Bounded
      <4> QED
        BY <3>4, <4>2, <4>3, <4>4, <4>5 DEF Available, Sound
    <3>5. CASE d.table[k] = None /\ place = k /\ table = [d.table EXCEPT ![k] = NewBucket(k)]
      <4>1. NewBucket(k) \in Bucket /\ NewBucket(k) # None
        BY <3>2, NoneIsNoBucket DEF NewBucket, Bucket
      <4>2. /\ table[k] = NewBucket(k)
            /\ \A other \in Keys : other # k => table[other] = d.table[other]
        BY <2>3, <3>5
      <4>3. table \in [Keys -> Bucket \cup {None}]
        BY <2>3, <3>5, <4>1
      <4>4. Bounded(k, table[k])
        <5>1. spent[k] <= forward /\ Since(now) = 0
          BY <3>2, <3>5 DEF Bounded, Since
        <5>2. table[k].tokens = Full(k) /\ table[k].refilled = now /\ table[k].used = now
          BY <4>2 DEF NewBucket
        <5> QED
          BY <3>2, <5>1, <5>2 DEF Bounded
      <4> QED
        BY <3>5, <4>1, <4>2, <4>3, <4>4 DEF Sound
    <3> QED
      BY <3>1, <3>3, <3>4, <3>5
  <2> HIDE DEF place, table
  <2> DEFINE answer == Ask(d, keys, i, cost)
             Decisions == [table : [Keys -> Bucket \cup {None}], asked : SUBSET Keys, result : Results]
  <2>6. \/ answer = [d EXCEPT !.result = "EXHAUSTED"]
        \/ answer = [table |-> table, asked |-> d.asked \cup {place},
                     result |-> IF Available(table[place], place) < Price(place, cost)
                                THEN "THROTTLE" ELSE "ALLOW"]
    BY <1>2 DEF Ask, place, table
  <2>7. d \in Decisions /\ \A k \in Keys : Bounded(k, d.table[k])
    BY DEF Sound
  <2> HIDE DEF answer
  <2>8. CASE answer = [d EXCEPT !.result = "EXHAUSTED"]
    <3>1. /\ answer.table = d.table /\ answer.asked = d.asked /\ answer.result = "EXHAUSTED"
          /\ answer = [table |-> d.table, asked |-> d.asked, result |-> "EXHAUSTED"]
      BY <2>7, <2>8
    <3>2. answer \in Decisions
      BY <2>7, <3>1 DEF Results
    <3>3. Sound(answer, cost)
      BY <2>7, <3>1, <3>2 DEF Sound
    <3> QED
      BY <3>3 DEF answer
  <2>9. CASE answer = [table |-> table, asked |-> d.asked \cup {place},
                       result |-> IF Available(table[place], place) < Price(place, cost)
                                  THEN "THROTTLE" ELSE "ALLOW"]
    <3>1. Available(table[place], place) \in Int /\ Price(place, cost) \in Nat
      <4>1. table[place] \in Bucket
        BY <2>2, <2>5
      <4>2. now \in Nat /\ table[place].tokens \in Nat /\ table[place].refilled \in Nat
        BY <4>1 DEF Bucket, RInv, BucketsTypeOK
      <4>3. Full(place) \in Nat /\ Price(place, cost) \in Nat
        BY <2>2, KeysHaveSizes
      <4>4. Since(table[place].refilled) \in Nat
        BY <4>2 DEF Since
      <4> QED
        BY <4>2, <4>3, <4>4 DEF Available, Lesser
    <3>2. /\ answer \in Decisions /\ answer.table = table /\ answer.asked = d.asked \cup {place}
          /\ answer.result = "ALLOW" => Available(table[place], place) >= Price(place, cost)
      <4>1. /\ answer.table = table /\ answer.asked = d.asked \cup {place}
            /\ answer = [table |-> answer.table, asked |-> answer.asked, result |-> answer.result]
            /\ answer.result = IF Available(table[place], place) < Price(place, cost)
                               THEN "THROTTLE" ELSE "ALLOW"
        BY <2>9
      <4>2. answer.result \in Results
        BY <4>1 DEF Results
      <4>3. answer \in Decisions
        BY <2>2, <2>3, <2>5, <4>1, <4>2
      <4> QED
        BY <3>1, <4>1, <4>3
    <3>3. ASSUME answer.result = "ALLOW", NEW k \in d.asked \cup {place}
          PROVE  table[k] # None /\ Price(k, cost) <= Available(table[k], k)
      <4>1. CASE k = place
        BY <2>5, <3>1, <3>2, <3>3, <4>1
      <4>2. CASE k \in d.asked
        BY <1>2, <2>3, <2>5, <4>2 DEF Sound
      <4> QED
        BY <3>3, <4>1, <4>2
    <3>4. Sound(answer, cost)
      BY <2>5, <3>2, <3>3 DEF Sound
    <3> QED
      BY <3>4 DEF answer
  <2> QED
    BY <2>6, <2>8, <2>9
<1> QED
  BY <1>1, <1>2

\* Before its first descriptor is asked, a decision may forget idle buckets.
LEMMA TableKeeps ==
  ASSUME RInv
  PROVE  Table \in [Keys -> Bucket \cup {None}] /\ \A k \in Keys : Bounded(k, Table[k])
<1> USE DEF RInv
<1>1. CASE ~CleanupDue
  BY <1>1 DEF Table, BucketsTypeOK
<1>2. CASE CleanupDue
  <2>1. Table \in [Keys -> Bucket \cup {None}]
    BY <1>2 DEF Table, BucketsTypeOK
  <2>2. ASSUME NEW k \in Keys PROVE Bounded(k, Table[k])
    <3>1. CASE buckets[k] # None /\ now - buckets[k].used > IdleTtl
      <4>1. buckets[k] \in Bucket /\ Table[k] = None
        BY <1>2, <3>1 DEF Table, BucketsTypeOK
      <4>2. spent[k] + Since(buckets[k].used) <= Full(k) + forward
        BY <3>1 DEF Bounded
      <4>3. /\ buckets[k].used \in Nat /\ now \in Nat /\ spent[k] \in Nat /\ forward \in Nat
            /\ IdleTtl \in Nat /\ Full(k) \in Nat /\ Full(k) <= IdleTtl
        BY <4>1, KeysHaveSizes, AdmissionAssumption DEF Bucket, BucketsTypeOK, Configured
      <4>4. spent[k] <= forward
        BY <3>1, <4>2, <4>3 DEF Since
      <4> QED
        BY <4>1, <4>4 DEF Bounded
    <3>2. CASE ~ (buckets[k] # None /\ now - buckets[k].used > IdleTtl)
      BY <1>2, <3>2 DEF Table
    <3> QED
      BY <3>1, <3>2
  <2> QED
    BY <2>1, <2>2
<1> QED
  BY <1>1, <1>2

LEMMA AskedKeeps ==
  ASSUME RInv, NEW cost \in Nat, NEW keys, Len(keys) \in Nat,
         \A j \in 1 .. Len(keys) : OwnOrShared(keys[j]) \subseteq Keys
  PROVE  Sound(Asked(keys, cost), cost)
<1> DEFINE start == [table |-> Table, asked |-> {}, result |-> "ALLOW"]
           first == Ask(start, keys, 1, cost)
           second == Ask(first, keys, 2, cost)
           third == Ask(second, keys, 3, cost)
<1>1. Sound(start, cost)
  BY TableKeeps DEF Sound, Results
<1> HIDE DEF start
<1>2. Sound(first, cost)
  BY <1>1, AskKeeps
<1> HIDE DEF first
<1>3. Sound(second, cost)
  BY <1>2, AskKeeps
<1> HIDE DEF second
<1>4. Sound(third, cost)
  BY <1>3, AskKeeps
<1> HIDE DEF third
<1>5. Sound(Ask(third, keys, 4, cost), cost)
  BY <1>4, AskKeeps
<1> QED
  BY <1>5 DEF Asked, third, second, first, start

\* The descriptors of a request name keys, and so do their shared buckets.
LEMMA DescriptorsAreKeys ==
  ASSUME NEW route \in Routes, NEW source \in Sources, NEW user \in Users \cup {Unknown}
  PROVE  /\ \A j \in 1 .. Len(Descriptors(PreParserPolicyClass(route), source, Unknown)) :
              OwnOrShared(Descriptors(PreParserPolicyClass(route), source, Unknown)[j]) \subseteq Keys
         /\ \A j \in 1 .. Len(Descriptors(PolicyForRequest(route), source, user)) :
              OwnOrShared(Descriptors(PolicyForRequest(route), source, user)[j]) \subseteq Keys
<1>1. /\ BucketsOf(PreParserPolicyClass(route), source, Unknown) \subseteq Keys
      /\ BucketsOf(PolicyForRequest(route), source, user) \subseteq Keys
  <2> DEFINE Pair(to, from, by) == BucketsOf(PreParserPolicyClass(to), from, Unknown)
                                     \cup BucketsOf(PolicyForRequest(to), from, by)
  <2>1. Keys = UNION {Pair(to, from, by) : to \in Routes, from \in Sources,
                                           by \in Users \cup {Unknown}}
    BY DEF Keys
  <2> HIDE DEF Pair
  <2>2. Pair(route, source, user) \subseteq Keys
    BY <2>1
  <2> QED
    BY <2>2 DEF Pair
<1> QED
  BY <1>1 DEF BucketsOf

\* A sound decision is carried out.
LEMMA DecideKeeps ==
  ASSUME RInv, NEW cost \in Nat, NEW d, Sound(d, cost), Decide(d, cost),
         request' \in [Requests -> Asking \cup {None}]
  PROVE  RInv'
<1> USE DEF RInv
<1>1. /\ now' = now /\ forward' = forward /\ now \in Nat /\ forward \in Nat
      /\ d.table \in [Keys -> Bucket \cup {None}] /\ spent \in [Keys -> Nat]
      /\ \A k \in Keys : Bounded(k, d.table[k])
  BY DEF Decide, BucketsTypeOK, Sound
<1>2. ASSUME NEW k \in Keys, d.result = "ALLOW", k \in d.asked
      PROVE  /\ buckets'[k] \in Bucket /\ spent'[k] \in Nat /\ Bounded(k, buckets[k])'
  <2>1. d.table[k] \in Bucket /\ Price(k, cost) <= Available(d.table[k], k)
    BY <1>1, <1>2 DEF Sound
  <2>2. /\ d.table[k] # None
        /\ spent[k] + d.table[k].tokens + Since(d.table[k].refilled) <= Full(k) + forward
    BY <1>1, <1>2, <2>1, NoneIsNoBucket DEF Bounded
  <2> DEFINE paid == [tokens |-> Available(d.table[k], k) - Price(k, cost),
                       refilled |-> now, used |-> now]
  <2>3. buckets'[k] = paid /\ spent'[k] = spent[k] + Price(k, cost)
    BY <1>2 DEF Decide, Pay
  <2>4. /\ Price(k, cost) \in Nat /\ Full(k) \in Nat /\ spent[k] \in Nat
        /\ d.table[k].tokens \in Nat /\ Since(d.table[k].refilled) \in Nat
    <3>1. d.table[k].tokens \in Nat /\ d.table[k].refilled \in Nat
      BY <2>1 DEF Bucket
    <3> QED
      BY <1>1, <3>1, KeysHaveSizes DEF Since
  <2>5. /\ Available(d.table[k], k) \in Nat
        /\ Available(d.table[k], k) <= d.table[k].tokens + Since(d.table[k].refilled)
    BY <2>4 DEF Available, Lesser
  <2>6. paid \in Bucket /\ paid # None
    BY <1>1, <2>1, <2>4, <2>5, NoneIsNoBucket DEF Bucket
  <2>7. /\ spent'[k] + paid.tokens <= Full(k) + forward /\ spent'[k] <= Full(k) + forward
    BY <1>1, <2>1, <2>2, <2>3, <2>4, <2>5
  <2>8. Since(now) = 0
    BY <1>1 DEF Since
  <2>9. Bounded(k, buckets[k])'
    <3>1. Since(now)' = 0 /\ (Full(k) + forward)' = Full(k) + forward
      BY <1>1, <2>8 DEF Since
    <3> QED
      BY <1>1, <2>3, <2>4, <2>5, <2>6, <2>7, <2>8, <3>1 DEF Bounded, Since
  <2> QED
    BY <2>3, <2>4, <2>6, <2>9
<1>3. ASSUME NEW k \in Keys, ~(d.result = "ALLOW" /\ k \in d.asked)
      PROVE  /\ buckets'[k] = d.table[k] /\ spent'[k] = spent[k] /\ Bounded(k, buckets[k])'
  <2>1. buckets'[k] = d.table[k] /\ spent'[k] = spent[k]
    BY <1>3 DEF Decide, Pay
  <2> QED
    BY <1>1, <2>1 DEF Bounded, Since
<1>4. ASSUME NEW k \in Keys
      PROVE  buckets'[k] \in Bucket \cup {None} /\ spent'[k] \in Nat /\ Bounded(k, buckets[k])'
  BY <1>1, <1>2, <1>3
<1>5. /\ buckets' = [k \in Keys |-> buckets'[k]] /\ spent' = [k \in Keys |-> spent'[k]]
  BY <1>1 DEF Decide, Pay
<1>6. BucketsTypeOK'
  BY <1>1, <1>4, <1>5 DEF BucketsTypeOK
<1> QED
  BY <1>4, <1>6

-----------------------------------------------------------------------------
LEMMA ArriveKeeps ==
  ASSUME RInv, NEW r \in Requests, NEW route \in Routes, NEW source \in Sources,
         NEW user \in Users \cup {Unknown}, NEW cost \in Costs,
         Arrive(r, route, source, user, cost)
  PROVE  RInv'
<1> DEFINE keys == Descriptors(PreParserPolicyClass(route), source, Unknown)
           arrived(at) == [route |-> route, source |-> source, user |-> user, cost |-> cost,
                           trusted |-> May(user, Permission(route)), at |-> at]
<1>1. arrived("parsed") \in Asking /\ arrived("TURNED_AWAY") \in Asking
  BY DEF May, Asking
<1>2. request' \in [Requests -> Asking \cup {None}]
  <2>1. \/ request' = [request EXCEPT ![r] = arrived("parsed")]
        \/ request' = [request EXCEPT ![r] = arrived("TURNED_AWAY")]
    BY DEF Arrive
  <2> HIDE DEF arrived
  <2> QED
    BY <1>1, <2>1 DEF RInv, BucketsTypeOK
<1>3. CASE Skips(route, user)
  <2>1. UNCHANGED <<buckets, spent, now, forward>>
    BY <1>3 DEF Arrive
  <2> QED
    BY <1>2, <2>1 DEF RInv, BucketsTypeOK, Bounded, Since
<1>4. CASE ~Skips(route, user)
  <2>1. Decide(Asked(keys, 1), 1)
    BY <1>4 DEF Arrive
  <2>2. Sound(Asked(keys, 1), 1)
    <3>1. Len(keys) \in Nat
      <4>1. keys \in Seq(KeyRecords(source, Unknown))
        BY RoutesHaveClasses, DescriptorsAreRecords
      <4> QED
        BY <4>1, LenProperties
    <3> QED
      BY <3>1, AskedKeeps, DescriptorsAreKeys
  <2> QED
    BY <1>2, <2>1, <2>2, DecideKeeps
<1> QED
  BY <1>3, <1>4

LEMMA AdmitKeeps ==
  ASSUME RInv, NEW r \in Requests, Admit(r)
  PROVE  RInv'
<1> DEFINE q == request[r]
           keys == Descriptors(PolicyForRequest(q.route), q.source, q.user)
           decision == Asked(keys, q.cost)
           class == PolicyForRequest(q.route)
<1>1. q \in Asking
  BY DEF Admit, RInv, BucketsTypeOK
<1>2. /\ q.route \in Routes /\ q.source \in Sources /\ q.user \in Users \cup {Unknown}
      /\ q.cost \in Nat
  BY <1>1, AdmissionAssumption DEF Asking, Configured
<1>3. Sound(decision, q.cost)
  <2>1. Len(keys) \in Nat
    <3>1. keys \in Seq(KeyRecords(q.source, q.user))
      BY <1>2, RoutesHaveClasses, DescriptorsAreRecords
    <3> QED
      BY <3>1, LenProperties
  <2> QED
    BY <1>2, <2>1, AskedKeeps, DescriptorsAreKeys
<1>4. decision.result \in Results
  BY <1>3 DEF Sound
<1>5. PICK lease \in {"admitted", "BLOCKED"} :
        IF PreParserPolicyClass(q.route) = class
        THEN /\ request' = [request EXCEPT ![r].at = lease]
             /\ Cleanup /\ UNCHANGED <<now, forward, held, spent>>
        ELSE /\ request' = [request EXCEPT ![r].at =
                              IF decision.result = "ALLOW" THEN lease ELSE decision.result]
             /\ Decide(decision, q.cost)
  BY DEF Admit, AdmitRequest
<1>6. request' \in [Requests -> Asking \cup {None}]
  <2>1. PICK at \in Results \cup {"admitted", "BLOCKED"} : request' = [request EXCEPT ![r].at = at]
    <3> HIDE DEF decision
    <3> QED
      BY <1>4, <1>5
  <2>2. [q EXCEPT !.at = at] \in Asking
    BY <1>1 DEF Asking
  <2> QED
    BY <2>1, <2>2 DEF RInv, BucketsTypeOK
<1>7. CASE PreParserPolicyClass(q.route) = class
  <2>1. buckets' = Table /\ UNCHANGED <<now, forward, spent>>
    BY <1>5, <1>7 DEF Cleanup
  <2>2. \A k \in Keys : Bounded(k, buckets[k])'
    BY <2>1, TableKeeps DEF Bounded, Since
  <2> QED
    BY <1>6, <2>1, <2>2, TableKeeps DEF RInv, BucketsTypeOK
<1>8. CASE PreParserPolicyClass(q.route) # class
  <2>1. Decide(decision, q.cost)
    BY <1>5, <1>8
  <2> QED
    BY <1>2, <1>3, <1>6, <2>1, DecideKeeps
<1> QED
  BY <1>7, <1>8

\* Time refills at most what it adds to the advances of the clock.
LEMMA ClockKeeps ==
  ASSUME RInv, NEW d \in Nat, Advance(d) \/ SetBack(d)
  PROVE  RInv'
<1>1. /\ now \in Nat /\ forward \in Nat /\ now' \in Nat /\ forward' \in Nat
      /\ UNCHANGED <<buckets, spent, request>>
      /\ \/ now' = now + d /\ forward' = forward + d
         \/ now' = now - d /\ forward' = forward
  BY DEF Advance, SetBack, RInv, BucketsTypeOK
<1> DEFINE Later(time) == IF now' > time THEN now' - time ELSE 0
<1>2. ASSUME NEW time \in Nat
      PROVE  /\ Since(time) \in Nat /\ Later(time) \in Nat
             /\ Later(time) + forward <= Since(time) + forward'
             /\ forward <= forward'
  <2>1. CASE now' = now + d /\ forward' = forward + d
    BY <1>1, <2>1 DEF Since
  <2>2. CASE now' = now - d /\ forward' = forward
    BY <1>1, <2>2 DEF Since
  <2> QED
    BY <1>1, <2>1, <2>2
<1>3. ASSUME NEW k \in Keys PROVE Bounded(k, buckets[k])'
  <2>1. Full(k) \in Nat /\ spent[k] \in Nat /\ Bounded(k, buckets[k]) /\ spent'[k] = spent[k]
        /\ buckets[k] \in Bucket \cup {None} /\ buckets'[k] = buckets[k]
    BY <1>1, KeysHaveSizes DEF RInv, BucketsTypeOK
  <2>2. CASE buckets[k] = None
    <3>1. forward <= forward' /\ spent[k] <= forward
      BY <1>2, <2>1, <2>2 DEF Bounded
    <3> QED
      BY <1>1, <2>1, <2>2, <3>1 DEF Bounded
  <2>3. CASE buckets[k] # None
    <3>1. /\ buckets[k].refilled \in Nat /\ buckets[k].used \in Nat /\ buckets[k].tokens \in Nat
      BY <2>1, <2>3 DEF Bucket
    <3>2. /\ spent[k] + buckets[k].tokens + Since(buckets[k].refilled) <= Full(k) + forward
          /\ spent[k] + Since(buckets[k].used) <= Full(k) + forward
      BY <2>1, <2>3 DEF Bounded
    <3>3. /\ Since(buckets[k].refilled) \in Nat /\ Later(buckets[k].refilled) \in Nat
          /\ Since(buckets[k].used) \in Nat /\ Later(buckets[k].used) \in Nat
          /\ Later(buckets[k].refilled) + forward <= Since(buckets[k].refilled) + forward'
          /\ Later(buckets[k].used) + forward <= Since(buckets[k].used) + forward'
      <4>1. \A time \in Nat : /\ Since(time) \in Nat /\ Later(time) \in Nat
                              /\ Later(time) + forward <= Since(time) + forward'
        BY <1>2
      <4> HIDE DEF Later
      <4> QED
        BY <3>1, <4>1
    <3> HIDE DEF Later
    <3>4. /\ spent[k] + buckets[k].tokens + Later(buckets[k].refilled) <= Full(k) + forward'
          /\ spent[k] + Later(buckets[k].used) <= Full(k) + forward'
      BY <1>1, <2>1, <3>1, <3>2, <3>3
    <3> QED
      BY <2>1, <2>3, <3>4 DEF Bounded, Later, Since
  <2> QED
    BY <2>2, <2>3
<1> QED
  BY <1>1, <1>3 DEF RInv, BucketsTypeOK

LEMMA RestKeeps ==
  ASSUME RInv, UNCHANGED <<buckets, now, spent, forward>>,
         request' \in [Requests -> Asking \cup {None}]
  PROVE  RInv'
BY DEF RInv, BucketsTypeOK, Bounded, Since

LEMMA StartsBounded == Init => RInv
<1>1. IdleTtl \in Nat
  BY AdmissionAssumption DEF Configured
<1> QED
  BY <1>1 DEF Init, RInv, BucketsTypeOK, Bounded

LEMMA StepsKeep == RInv /\ [Next]_vars => RInv'
<1> SUFFICES ASSUME RInv, [Next]_vars PROVE RInv'
  OBVIOUS
<1>1. ASSUME NEW r \in Requests, NEW route \in Routes, NEW s \in Sources,
             NEW u \in Users \cup {Unknown}, NEW c \in Costs, Arrive(r, route, s, u, c)
      PROVE  RInv'
  BY <1>1, ArriveKeeps
<1>2. ASSUME NEW r \in Requests, Deny(r) \/ Finish(r) PROVE RInv'
  <2>1. request' \in [Requests -> Asking \cup {None}]
    BY <1>2 DEF Deny, Finish, RInv, BucketsTypeOK
  <2> QED
    BY <1>2, <2>1, RestKeeps DEF Deny, Finish
<1>3. ASSUME NEW r \in Requests, Admit(r) PROVE RInv'
  BY <1>3, AdmitKeeps
<1>4. ASSUME NEW u \in Users, ChangeUser(u) PROVE RInv'
  BY <1>4, RestKeeps DEF ChangeUser, RInv, BucketsTypeOK
<1>5. ASSUME NEW d \in 1 .. MaxClock, Advance(d) \/ SetBack(d) PROVE RInv'
  <2>1. d \in Nat
    BY AdmissionAssumption DEF Configured
  <2> QED
    BY <1>5, <2>1, ClockKeeps
<1>6. CASE UNCHANGED vars
  BY <1>6, RestKeeps DEF vars, RInv, BucketsTypeOK
<1> QED
  BY <1>1, <1>2, <1>3, <1>4, <1>5, <1>6 DEF Next

\* No bucket ever gives more than its size and the advances of the clock,
\* whatever is forgotten, shared or made anew (#consume, #refill, #cleanup).
THEOREM BucketsGiveNoMore == Spec => []RateBounded
<1>1. Init => RInv
  BY StartsBounded
<1>2. RInv /\ [Next]_vars => RInv'
  BY StepsKeep
<1>3. RInv => RateBounded
  <2> SUFFICES ASSUME RInv, NEW k \in Keys PROVE spent[k] <= Full(k) + forward
    BY DEF RateBounded
  <2>1. /\ Full(k) \in Nat /\ spent[k] \in Nat /\ forward \in Nat /\ now \in Nat
        /\ Bounded(k, buckets[k]) /\ buckets[k] \in Bucket \cup {None}
    BY KeysHaveSizes DEF RInv, BucketsTypeOK
  <2>2. CASE buckets[k] = None
    BY <2>1, <2>2 DEF Bounded
  <2>3. CASE buckets[k] # None
    <3>1. buckets[k].used \in Nat
      BY <2>1, <2>3 DEF Bucket
    <3>2. Since(buckets[k].used) \in Nat
      BY <2>1, <3>1 DEF Since
    <3> QED
      BY <2>1, <2>3, <3>2 DEF Bounded
  <2> QED
    BY <2>2, <2>3
<1> QED
  BY <1>1, <1>2, <1>3, PTL DEF Spec

-----------------------------------------------------------------------------
(* Containment stays open.  A bucket is made full and refilled at no cost:  *)
(* what it holds and what was taken from it are at least its size, so that  *)
(* one that is short was spent.  A containment pays only from buckets of    *)
(* its own class.                                                           *)

Funded(k, bucket) == bucket # None => Full(k) <= spent[k] + bucket.tokens

\* A decision that throttles found a bucket of its keys spent.
Justified(d, keys, cost) ==
  d.result = "THROTTLE" =>
    \E j \in 1 .. Len(keys) : \E k \in OwnOrShared(keys[j]) : k \in Keys /\ Exhausted(k, cost)

\* What ContainmentStaysOpen says of one request.
Open(r) ==
  request[r] # None /\ request[r].route \in Containments =>
    /\ request[r].trusted => request[r].at # "TURNED_AWAY"
    /\ request[r].at = "THROTTLE" =>
         \E k \in Keys : /\ k.class = Containment
                         /\ k.id \in {request[r].source, request[r].user,
                                      "containment", Overflow}
                         /\ Exhausted(k, request[r].cost)

CInv == /\ RInv
        /\ \A k \in Keys : Funded(k, buckets[k])
        /\ \A r \in Requests : Open(r)

LEMMA AskJustifies ==
  ASSUME RInv, NEW cost \in Nat, NEW d, Sound(d, cost), NEW keys, NEW i \in Nat \ {0},
         Len(keys) \in Nat, \A j \in 1 .. Len(keys) : OwnOrShared(keys[j]) \subseteq Keys,
         \A k \in Keys : Funded(k, d.table[k]), Justified(d, keys, cost)
  PROVE  /\ \A k \in Keys : Funded(k, Ask(d, keys, i, cost).table[k])
         /\ Justified(Ask(d, keys, i, cost), keys, cost)
<1> DEFINE place == Place(d.table, keys[i])
           table == Lookup(d.table, keys[i])
           answer == Ask(d, keys, i, cost)
<1>1. CASE i > Len(keys) \/ d.result # "ALLOW"
  BY <1>1 DEF Ask
<1>2. CASE ~ (i > Len(keys) \/ d.result # "ALLOW")
  <2>1. /\ i \in 1 .. Len(keys) /\ place \in OwnOrShared(keys[i]) /\ place \in Keys
        /\ keys[i] \in Keys
    BY <1>2 DEF OwnOrShared, Place
  <2>2. d.table \in [Keys -> Bucket \cup {None}]
    BY DEF Sound
  <2>3. \/ table = d.table
        \/ d.table[keys[i]] # None /\ table = [d.table EXCEPT ![keys[i]].used = now]
        \/ d.table[place] = None /\ table = [d.table EXCEPT ![place] = NewBucket(place)]
    BY DEF Lookup
  <2>4. ASSUME NEW k \in Keys PROVE Funded(k, table[k])
    <3> HIDE DEF table, place
    <3>1. Full(k) \in Nat /\ spent[k] \in Nat
      BY KeysHaveSizes DEF RInv, BucketsTypeOK
    <3>2. CASE table[k] = d.table[k]
      BY <3>2
    <3>3. CASE k = keys[i] /\ d.table[k] # None /\ table = [d.table EXCEPT ![k].used = now]
      <4>1. d.table[k] \in Bucket /\ table[k].tokens = d.table[k].tokens
        BY <2>2, <3>3 DEF Bucket
      <4> QED
        BY <3>3, <4>1 DEF Funded
    <3>4. CASE k = place /\ table = [d.table EXCEPT ![k] = NewBucket(k)]
      <4>1. table[k].tokens = Full(k)
        BY <2>2, <3>4 DEF NewBucket
      <4> QED
        BY <3>1, <4>1 DEF Funded
    <3> QED
      BY <2>2, <2>3, <3>2, <3>3, <3>4
  <2>5. \/ answer = [d EXCEPT !.result = "EXHAUSTED"]
        \/ answer = [table |-> table, asked |-> d.asked \cup {place},
                     result |-> IF Available(table[place], place) < Price(place, cost)
                                THEN "THROTTLE" ELSE "ALLOW"]
    BY <1>2 DEF Ask
  <2>6. Sound(answer, cost)
    BY AskKeeps
  <2> HIDE DEF answer, table, place
  <2>7. CASE answer = [d EXCEPT !.result = "EXHAUSTED"]
    <3>1. answer.table = d.table /\ answer.result = "EXHAUSTED"
      BY <2>7 DEF Sound
    <3> QED
      BY <3>1 DEF Justified, answer
  <2>8. CASE answer = [table |-> table, asked |-> d.asked \cup {place},
                       result |-> IF Available(table[place], place) < Price(place, cost)
                                  THEN "THROTTLE" ELSE "ALLOW"]
    <3>1. /\ answer.table = table
          /\ answer.result = "THROTTLE" => Available(table[place], place) < Price(place, cost)
      BY <2>8
    <3>2. ASSUME Available(table[place], place) < Price(place, cost) PROVE Exhausted(place, cost)
      <4>1. table \in [Keys -> Bucket \cup {None}] /\ now \in Nat /\ spent[place] \in Nat
        BY <2>1, <2>6, <3>1 DEF Sound, RInv, BucketsTypeOK
      <4>2. table[place] # None
        <5>1. \/ table[place] # None
              \/ keys[i] \in Keys /\ place = keys[i] /\ d.table[place] # None
                   /\ table = [d.table EXCEPT ![place].used = now]
              \/ table = [d.table EXCEPT ![place] = NewBucket(place)]
          BY <2>1 DEF table, place, Lookup, Place
        <5>2. NewBucket(place) # None
          <6>1. Full(place) \in Nat
            BY <2>1, KeysHaveSizes
          <6>2. NewBucket(place) \in Bucket
            BY <4>1, <6>1 DEF NewBucket, Bucket
          <6> QED
            BY <6>2, NoneIsNoBucket
        <5>3. CASE d.table[place] # None /\ table = [d.table EXCEPT ![place].used = now]
          <6>1. d.table[place] \in Bucket
            BY <2>1, <2>2, <5>3
          <6>2. [d.table[place] EXCEPT !.used = now] \in Bucket
            BY <4>1, <6>1 DEF Bucket
          <6> QED
            BY <2>1, <2>2, <5>3, <6>2, NoneIsNoBucket
        <5> QED
          BY <2>1, <2>2, <5>1, <5>2, <5>3
      <4>3. table[place] \in Bucket
        BY <2>1, <4>1, <4>2
      <4>4. /\ table[place].tokens \in Nat /\ table[place].refilled \in Nat
            /\ Full(place) <= spent[place] + table[place].tokens
        BY <2>1, <2>4, <4>2, <4>3 DEF Bucket, Funded
      <4>5. Since(table[place].refilled) \in Nat
        BY <4>1, <4>4 DEF Since
      <4>6. Full(place) \in Nat /\ Price(place, cost) \in Nat
        BY <2>1, KeysHaveSizes
      <4>7. Full(place) <= spent[place] + Available(table[place], place)
            /\ Available(table[place], place) \in Nat
        BY <4>1, <4>4, <4>5, <4>6 DEF Available, Lesser
      <4> QED
        BY <3>2, <4>1, <4>6, <4>7 DEF Exhausted
    <3>3. Justified(answer, keys, cost)
      BY <2>1, <3>1, <3>2 DEF Justified
    <3> QED
      BY <2>4, <3>1, <3>3 DEF answer
  <2> QED
    BY <2>5, <2>7, <2>8
<1> QED
  BY <1>1, <1>2

LEMMA AskedJustifies ==
  ASSUME RInv, \A k \in Keys : Funded(k, buckets[k]), NEW cost \in Nat, NEW keys, Len(keys) \in Nat,
         \A j \in 1 .. Len(keys) : OwnOrShared(keys[j]) \subseteq Keys
  PROVE  /\ \A k \in Keys : Funded(k, Asked(keys, cost).table[k])
         /\ Justified(Asked(keys, cost), keys, cost)
<1> DEFINE start == [table |-> Table, asked |-> {}, result |-> "ALLOW"]
           first == Ask(start, keys, 1, cost)
           second == Ask(first, keys, 2, cost)
           third == Ask(second, keys, 3, cost)
           Good(d) == /\ Sound(d, cost) /\ Justified(d, keys, cost)
                      /\ \A k \in Keys : Funded(k, d.table[k])
<1>1. \A k \in Keys : Funded(k, Table[k])
  BY DEF Table, Funded
<1>2. Good(start)
  BY <1>1, TableKeeps DEF Sound, Results, Justified
<1> HIDE DEF start
<1>3. Good(first)
  BY <1>2, AskKeeps, AskJustifies
<1> HIDE DEF first
<1>4. Good(second)
  BY <1>3, AskKeeps, AskJustifies
<1> HIDE DEF second
<1>5. Good(third)
  BY <1>4, AskKeeps, AskJustifies
<1> HIDE DEF third
<1>6. Good(Ask(third, keys, 4, cost))
  BY <1>5, AskKeeps, AskJustifies
<1> QED
  BY <1>6 DEF Asked, third, second, first, start

\* Who pays from a funded bucket leaves it funded; what was spent stays spent.
LEMMA DecideFunds ==
  ASSUME RInv, NEW cost \in Nat, NEW d, Sound(d, cost), Decide(d, cost),
         \A k \in Keys : Funded(k, d.table[k])
  PROVE  \A k \in Keys : Funded(k, buckets[k])' /\ spent[k] <= spent'[k]
<1> SUFFICES ASSUME NEW k \in Keys PROVE Funded(k, buckets[k])' /\ spent[k] <= spent'[k]
  OBVIOUS
<1>1. /\ spent \in [Keys -> Nat] /\ now \in Nat /\ Full(k) \in Nat /\ Price(k, cost) \in Nat
      /\ d.table \in [Keys -> Bucket \cup {None}]
  BY KeysHaveSizes DEF RInv, BucketsTypeOK, Sound
<1>2. CASE d.result = "ALLOW" /\ k \in d.asked
  <2>1. d.table[k] # None /\ d.table[k] \in Bucket /\ Price(k, cost) <= Available(d.table[k], k)
    BY <1>1, <1>2 DEF Sound
  <2>2. /\ buckets'[k].tokens = Available(d.table[k], k) - Price(k, cost)
        /\ spent'[k] = spent[k] + Price(k, cost)
    BY <1>2 DEF Decide, Pay
  <2>3. d.table[k].tokens \in Nat /\ Since(d.table[k].refilled) \in Nat
    BY <1>1, <2>1 DEF Bucket, Since
  <2>4. Full(k) <= spent[k] + Available(d.table[k], k) /\ Available(d.table[k], k) \in Nat
    BY <1>1, <2>1, <2>3 DEF Available, Lesser, Funded
  <2>5. Full(k) <= spent'[k] + buckets'[k].tokens /\ spent[k] <= spent'[k]
    BY <1>1, <2>2, <2>4
  <2> QED
    BY <2>5 DEF Funded
<1>3. CASE ~(d.result = "ALLOW" /\ k \in d.asked)
  <2>1. buckets'[k] = d.table[k] /\ spent'[k] = spent[k]
    BY <1>3 DEF Decide, Pay
  <2> QED
    BY <1>1, <2>1 DEF Funded
<1> QED
  BY <1>2, <1>3

\* A request that stays as it is stays justified.
LEMMA OpenStays ==
  ASSUME RInv, RInv', NEW r \in Requests, Open(r), request'[r] = request[r],
         \A k \in Keys : spent[k] <= spent'[k]
  PROVE  Open(r)'
<1>1. CASE request[r] = None
  BY <1>1 DEF Open
<1>2. CASE request[r] # None
  <2>1. request[r].cost \in Nat
    BY <1>2, AdmissionAssumption DEF RInv, BucketsTypeOK, Asking, Configured
  <2>2. ASSUME NEW k \in Keys, Exhausted(k, request[r].cost) PROVE Exhausted(k, request[r].cost)'
    <3>1. /\ spent[k] \in Nat /\ spent'[k] \in Nat /\ spent[k] <= spent'[k]
          /\ Full(k) \in Nat /\ Price(k, request[r].cost) \in Nat
      BY <2>1, KeysHaveSizes DEF RInv, BucketsTypeOK
    <3> QED
      BY <2>2, <3>1 DEF Exhausted
  <2> QED
    BY <2>2 DEF Open
<1> QED
  BY <1>1, <1>2

\* The buckets a containment pays from are of its own class.
LEMMA ContainmentKeys ==
  ASSUME NEW source, NEW user,
         NEW j \in 1 .. Len(Descriptors(Containment, source, user)),
         NEW k \in OwnOrShared(Descriptors(Containment, source, user)[j])
  PROVE  k.class = Containment /\ k.id \in {source, user, "containment", Overflow}
<1> DEFINE K == [domain : Domains, class : {Containment}, id : {source, user, "containment"}]
           D == Descriptors(Containment, source, user)
<1>1. /\ Key("source", Containment, source) \in K /\ Key("actor", Containment, user) \in K
      /\ Key("containment", Containment, "containment") \in K
  BY DEF Key, Domains
<1>2. D = ((<<Key("source", Containment, source)>> \o <<Key("actor", Containment, user)>>) \o <<>>)
            \o <<Key("containment", Containment, "containment")>>
  BY DEF Descriptors, OwnKeys, PreAuth, Callback, Bootstrap, Containment, Consumes, UsesProvider
<1> HIDE DEF K, D
<1>3. /\ <<Key("source", Containment, source)>> \in Seq(K)
      /\ <<Key("actor", Containment, user)>> \in Seq(K) /\ <<>> \in Seq(K)
      /\ <<Key("containment", Containment, "containment")>> \in Seq(K)
  BY <1>1, ShortSequences
<1>4. D \in Seq(K)
  <2>1. <<Key("source", Containment, source)>> \o <<Key("actor", Containment, user)>> \in Seq(K)
    BY <1>3, ConcatProperties
  <2>2. (<<Key("source", Containment, source)>> \o <<Key("actor", Containment, user)>>) \o <<>> \in Seq(K)
    BY <1>3, <2>1, ConcatProperties
  <2> QED
    BY <1>2, <1>3, <2>2, ConcatProperties
<1>5. D[j] \in K
  BY <1>4, ElementOfSeq DEF D
<1> QED
  BY <1>5 DEF OwnOrShared, K, D

LEMMA ArriveStaysOpen ==
  ASSUME CInv, NEW r \in Requests, NEW route \in Routes, NEW source \in Sources,
         NEW user \in Users \cup {Unknown}, NEW cost \in Costs,
         Arrive(r, route, source, user, cost)
  PROVE  CInv'
<1> DEFINE keys == Descriptors(PreParserPolicyClass(route), source, Unknown)
           arrived(at) == [route |-> route, source |-> source, user |-> user, cost |-> cost,
                           trusted |-> May(user, Permission(route)), at |-> at]
<1>1. RInv /\ RInv' /\ request \in [Requests -> Asking \cup {None}]
  BY ArriveKeeps DEF CInv, RInv, BucketsTypeOK
<1>2. \A k \in Keys : Funded(k, buckets[k])' /\ spent[k] <= spent'[k]
  <2>1. CASE Skips(route, user)
    BY <1>1, <2>1 DEF Arrive, CInv, RInv, BucketsTypeOK, Funded
  <2>2. CASE ~Skips(route, user)
    <3>1. Len(keys) \in Nat
      <4>1. keys \in Seq(KeyRecords(source, Unknown))
        BY RoutesHaveClasses, DescriptorsAreRecords
      <4> QED
        BY <4>1, LenProperties
    <3>2. Decide(Asked(keys, 1), 1)
      BY <2>2 DEF Arrive
    <3>3. \A j \in 1 .. Len(keys) : OwnOrShared(keys[j]) \subseteq Keys
      BY DescriptorsAreKeys
    <3> HIDE DEF keys
    <3>4. Sound(Asked(keys, 1), 1) /\ \A k \in Keys : Funded(k, Asked(keys, 1).table[k])
      BY <1>1, <3>1, <3>3, AskedKeeps, AskedJustifies DEF CInv
    <3> QED
      BY <1>1, <3>2, <3>4, DecideFunds
  <2> QED
    BY <2>1, <2>2
<1>3. Open(r)'
  <2>1. \/ request' = [request EXCEPT ![r] = arrived("parsed")]
        \/ request' = [request EXCEPT ![r] = arrived("TURNED_AWAY")] /\ ~Skips(route, user)
    BY DEF Arrive
  <2>2. ASSUME route \in Containments, May(user, Permission(route)) PROVE Skips(route, user)
    <3>1. Permission(route) = ContainmentPermission(route)
      BY <2>2 DEF Containments, Permission, ContainmentPermission, ManagementPermission,
         CredentialPermission, ProviderPermission
    <3> QED
      BY <2>2, <3>1 DEF Skips
  <2>3. request'[r] \in {arrived("parsed"), arrived("TURNED_AWAY")}
    BY <1>1, <2>1
  <2>4. request'[r] = arrived("TURNED_AWAY") => ~Skips(route, user)
    BY <1>1, <2>1
  <2> QED
    BY <2>2, <2>3, <2>4 DEF Open
<1>4. ASSUME NEW q \in Requests \ {r} PROVE Open(q)'
  <2>1. request'[q] = request[q]
    BY <1>1 DEF Arrive
  <2> QED
    BY <1>1, <1>2, <2>1, OpenStays DEF CInv
<1> QED
  BY <1>1, <1>2, <1>3, <1>4 DEF CInv

LEMMA AdmitStaysOpen ==
  ASSUME CInv, NEW r \in Requests, Admit(r)
  PROVE  CInv'
<1> DEFINE q == request[r]
           keys == Descriptors(PolicyForRequest(q.route), q.source, q.user)
           decision == Asked(keys, q.cost)
           class == PolicyForRequest(q.route)
<1>1. RInv /\ RInv' /\ request \in [Requests -> Asking \cup {None}] /\ q \in Asking /\ q # None
  BY AdmitKeeps DEF CInv, RInv, BucketsTypeOK, Admit
<1>2. /\ q.route \in Routes /\ q.source \in Sources /\ q.user \in Users \cup {Unknown}
      /\ q.cost \in Nat /\ q.at = "parsed"
  BY <1>1, AdmissionAssumption DEF Asking, Configured, Admit
<1>3. PICK lease \in {"admitted", "BLOCKED"} :
        IF PreParserPolicyClass(q.route) = class
        THEN /\ request' = [request EXCEPT ![r].at = lease]
             /\ Cleanup /\ UNCHANGED <<now, forward, held, spent>>
        ELSE /\ request' = [request EXCEPT ![r].at =
                              IF decision.result = "ALLOW" THEN lease ELSE decision.result]
             /\ Decide(decision, q.cost)
  BY DEF Admit, AdmitRequest
<1>4. /\ Sound(decision, q.cost) /\ Justified(decision, keys, q.cost)
      /\ \A k \in Keys : Funded(k, decision.table[k])
  <2>1. Len(keys) \in Nat
    <3>1. keys \in Seq(KeyRecords(q.source, q.user))
      BY <1>2, RoutesHaveClasses, DescriptorsAreRecords
    <3> QED
      BY <3>1, LenProperties
  <2>2. \A j \in 1 .. Len(keys) : OwnOrShared(keys[j]) \subseteq Keys
    BY <1>2, DescriptorsAreKeys
  <2> HIDE DEF keys
  <2> QED
    BY <1>1, <1>2, <2>1, <2>2, AskedKeeps, AskedJustifies DEF CInv
<1>5. \A k \in Keys : Funded(k, buckets[k])' /\ spent[k] <= spent'[k]
  <2> HIDE DEF keys, decision
  <2>1. CASE PreParserPolicyClass(q.route) = class
    <3>1. buckets' = Table /\ spent' = spent
      BY <1>3, <2>1 DEF Cleanup
    <3>2. \A k \in Keys : Funded(k, Table[k])
      BY DEF Table, Funded, CInv
    <3> QED
      BY <1>1, <3>1, <3>2 DEF Funded, RInv, BucketsTypeOK
  <2>2. CASE PreParserPolicyClass(q.route) # class
    <3>1. Decide(decision, q.cost)
      BY <1>3, <2>2
    <3> QED
      BY <1>1, <1>2, <1>4, <3>1, DecideFunds
  <2> QED
    BY <2>1, <2>2
<1>6. PICK at \in Results \cup {"admitted", "BLOCKED"} :
        /\ request' = [request EXCEPT ![r].at = at]
        /\ at = "THROTTLE" => decision.result = "THROTTLE"
  <2>1. decision.result \in Results
    BY <1>4 DEF Sound
  <2> HIDE DEF decision
  <2> QED
    BY <1>3, <2>1 DEF Results
<1>7. Open(r)'
  <2>1. /\ request'[r].at = at /\ request'[r].route = q.route /\ request'[r].trusted = q.trusted
        /\ request'[r].source = q.source /\ request'[r].user = q.user /\ request'[r].cost = q.cost
    BY <1>1, <1>6 DEF Asking
  <2>2. at # "TURNED_AWAY"
    BY DEF Results
  <2>3. ASSUME q.route \in Containments, at = "THROTTLE"
        PROVE  \E k \in Keys : /\ k.class = Containment
                               /\ k.id \in {q.source, q.user, "containment", Overflow}
                               /\ spent'[k] + Price(k, q.cost) > Full(k)
    <3>1. class = Containment
      BY <2>3 DEF PolicyForRequest, Containments
    <3>2. decision.result = "THROTTLE"
      BY <1>6, <2>3
    <3> HIDE DEF decision
    <3>3. PICK j \in 1 .. Len(keys) : \E k \in OwnOrShared(keys[j]) : k \in Keys /\ Exhausted(k, q.cost)
      BY <1>4, <3>2 DEF Justified
    <3>4. PICK k \in OwnOrShared(keys[j]) : k \in Keys /\ Exhausted(k, q.cost)
      BY <3>3
    <3>5. k.class = Containment /\ k.id \in {q.source, q.user, "containment", Overflow}
      BY <3>1, ContainmentKeys
    <3>6. /\ spent[k] \in Nat /\ spent'[k] \in Nat /\ spent[k] <= spent'[k]
          /\ Full(k) \in Nat /\ Price(k, q.cost) \in Nat
      BY <1>1, <1>2, <1>5, <3>4, KeysHaveSizes DEF RInv, BucketsTypeOK
    <3>7. spent'[k] + Price(k, q.cost) > Full(k)
      BY <3>4, <3>6 DEF Exhausted
    <3> QED
      BY <3>4, <3>5, <3>7
  <2> HIDE DEF decision, keys
  <2> QED
    BY <2>1, <2>2, <2>3 DEF Open, Exhausted
<1>8. ASSUME NEW p \in Requests \ {r} PROVE Open(p)'
  <2>1. request'[p] = request[p]
    BY <1>1, <1>6
  <2> QED
    BY <1>1, <1>5, <2>1, OpenStays DEF CInv
<1> QED
  BY <1>1, <1>5, <1>7, <1>8 DEF CInv

\* An authorized containment is not turned away before its body is parsed, and is
\* throttled only by a bucket of its own class that was spent; what anybody else
\* asks for, and how buckets are shared and forgotten, never matters
\* (preParserAdmission, #descriptors, #consume).
THEOREM ContainmentIsNotStarved == Spec => []ContainmentStaysOpen
<1>1. Init => CInv
  BY StartsBounded DEF Init, CInv, Funded, Open
<1>2. CInv /\ [Next]_vars => CInv'
  <2> SUFFICES ASSUME CInv, [Next]_vars PROVE CInv'
    OBVIOUS
  <2>1. RInv /\ RInv'
    BY StepsKeep DEF CInv
  <2>2. ASSUME NEW r \in Requests, NEW route \in Routes, NEW s \in Sources,
               NEW u \in Users \cup {Unknown}, NEW c \in Costs, Arrive(r, route, s, u, c)
        PROVE  CInv'
    BY <2>2, ArriveStaysOpen
  <2>3. ASSUME NEW r \in Requests, Admit(r) PROVE CInv'
    BY <2>3, AdmitStaysOpen
  <2>4. ASSUME UNCHANGED <<buckets, spent>>, \A r \in Requests : request'[r] \in {request[r], None}
        PROVE  CInv'
    <3>1. \A k \in Keys : Funded(k, buckets[k])' /\ spent[k] <= spent'[k]
      BY <2>1, <2>4 DEF CInv, Funded, RInv, BucketsTypeOK
    <3>2. ASSUME NEW r \in Requests PROVE Open(r)'
      <4>1. CASE request'[r] = None
        BY <4>1 DEF Open
      <4>2. CASE request'[r] = request[r]
        BY <2>1, <3>1, <4>2, OpenStays DEF CInv
      <4> QED
        BY <2>4, <4>1, <4>2
    <3> QED
      BY <2>1, <3>1, <3>2 DEF CInv
  <2>5. ASSUME NEW r \in Requests, Deny(r) \/ Finish(r) PROVE CInv'
    <3>1. \A q \in Requests : request'[q] \in {request[q], None}
      BY <2>1, <2>5 DEF Deny, Finish, RInv, BucketsTypeOK
    <3> QED
      BY <2>4, <2>5, <3>1 DEF Deny, Finish
  <2>6. ASSUME UNCHANGED <<buckets, spent, request>> PROVE CInv'
    BY <2>4, <2>6
  <2> QED
    BY <2>2, <2>3, <2>5, <2>6 DEF Next, ChangeUser, Advance, SetBack, vars
<1>3. CInv => ContainmentStaysOpen
  BY DEF CInv, Open, ContainmentStaysOpen
<1> QED
  BY <1>1, <1>2, <1>3, PTL DEF Spec

-----------------------------------------------------------------------------
(* Numbers: induction without operators as parameters.                      *)

LEMMA LeastNumber == ASSUME NEW S \in SUBSET Nat, S # {} PROVE \E n \in S : \A m \in S : n <= m
<1>1. IsWellFoundedOn(OpToRel(<, Nat), Nat)
  BY NatLessThanWellFounded
<1>2. PICK n \in S : \A m \in S : ~(<<m, n>> \in OpToRel(<, Nat))
  BY <1>1, WFMin
<1>3. ASSUME NEW m \in S PROVE n <= m
  <2>1. ~(<<m, n>> \in OpToRel(<, Nat)) /\ m \in Nat /\ n \in Nat
    BY <1>2
  <2> QED
    BY <2>1 DEF OpToRel
<1> QED
  BY <1>3

LEMMA InductiveSet == ASSUME NEW S \in SUBSET Nat, 0 \in S, \A n \in S : n + 1 \in S PROVE S = Nat
<1> SUFFICES ASSUME Nat \ S # {} PROVE FALSE
  OBVIOUS
<1>1. PICK n \in Nat \ S : \A m \in Nat \ S : n <= m
  BY LeastNumber
<1>2. n # 0
  OBVIOUS
<1>3. n - 1 \in Nat /\ ~(n <= n - 1)
  BY <1>2
<1>4. n - 1 \in S /\ n = (n - 1) + 1
  BY <1>1, <1>3
<1> QED
  BY <1>4

LEMMA FirstIsLeast ==
  ASSUME NEW S \in SUBSET Nat, S # {} PROVE FirstOf(S) \in S /\ \A j \in S : FirstOf(S) <= j
BY LeastNumber DEF FirstOf

LEMMA GreatestNumber ==
  ASSUME NEW n \in Nat, NEW S \in SUBSET (1 .. n), S # {} PROVE \E m \in S : \A j \in S : j <= m
<1> DEFINE U == {u \in Nat : \A j \in S : j <= u}
<1>1. n \in U
  OBVIOUS
<1>2. PICK u \in U : \A w \in U : u <= w
  BY <1>1, LeastNumber
<1>3. SUFFICES ASSUME u \notin S PROVE FALSE
  BY <1>2
<1>4. PICK s \in S : TRUE
  OBVIOUS
<1>5. u - 1 \in Nat /\ ~(u <= u - 1)
  BY <1>4
<1>6. ASSUME NEW j \in S PROVE j <= u - 1
  <2>1. j <= u /\ j # u /\ j \in Nat
    BY <1>3
  <2> QED
    BY <2>1
<1>7. u - 1 \in U
  BY <1>5, <1>6
<1> QED
  BY <1>2, <1>5, <1>7

-----------------------------------------------------------------------------
(* The columns of a table.                                                  *)

\* Among the columns that mean a field there is one that all others come before.
LEMMA LastColumnIsLast ==
  ASSUME NEW h, h \in Seq(ToSet(h)), NEW f, ColumnsOf(h, f) # {}
  PROVE  /\ LastColumn(h, f) \in ColumnsOf(h, f)
         /\ \A c \in ColumnsOf(h, f) \ {LastColumn(h, f)} : Ahead(h, f, c, LastColumn(h, f))
<1> DEFINE D == ColumnsOf(h, f) \ {f.key}  places == {PlaceIn(h, c) : c \in D}
<1>1. \A c \in ColumnsOf(h, f) : PlaceIn(h, c) \in 1 .. Len(h) /\ h[PlaceIn(h, c)] = c
  BY DEF ColumnsOf, PlaceIn, ToSet
<1>2. SUFFICES \E d \in ColumnsOf(h, f) : \A c \in ColumnsOf(h, f) \ {d} : Ahead(h, f, c, d)
  BY DEF LastColumn
<1>3. CASE D = {}
  BY <1>3
<1>4. CASE D # {}
  <2>1. Len(h) \in Nat /\ places \subseteq 1 .. Len(h) /\ places # {}
    BY <1>1, <1>4
  <2>2. PICK m \in places : \A j \in places : j <= m
    BY <2>1, GreatestNumber
  <2>3. PICK d \in D : m = PlaceIn(h, d)
    OBVIOUS
  <2>4. ASSUME NEW c \in ColumnsOf(h, f) \ {d} PROVE Ahead(h, f, c, d)
    <3>1. CASE c = f.key
      BY <3>1 DEF Ahead
    <3>2. CASE c # f.key
      <4>1. PlaceIn(h, c) <= PlaceIn(h, d)
        BY <2>2, <2>3, <3>2
      <4>2. PlaceIn(h, c) # PlaceIn(h, d)
        BY <1>1
      <4>3. PlaceIn(h, c) < PlaceIn(h, d)
        BY <1>1, <4>1, <4>2
      <4> QED
        BY <4>3 DEF Ahead
    <3> QED
      BY <3>1, <3>2
  <2> QED
    BY <2>4
<1> QED
  BY <1>3, <1>4

LEMMA HeaderIsSequence ==
  ASSUME NEW sheet \in Sheets, Parsed(sheet)
  PROVE  Header(sheet) \in Seq(ToSet(Header(sheet)))
<1> DEFINE filled == FilledLines(sheet)
<1>1. filled # {}
  BY FS_EmptySet DEF Parsed
<1>2. filled \in SUBSET Nat /\ filled \subseteq DOMAIN sheet.table
  BY TablesAssumption DEF FilledLines
<1>3. HeaderLine(sheet) \in DOMAIN sheet.table
  BY <1>1, <1>2, FirstIsLeast DEF HeaderLine
<1>4. Header(sheet) \in ToSet(sheet.table)
  BY <1>3 DEF Header, ToSet
<1> QED
  BY <1>4, TablesAssumption

LEMMA FieldsAreOfTables == ASSUME NEW row, FieldsKnown(row) PROVE FieldsOf(row) \in FieldSets
<1> DEFINE p == Cell(row, "providerKey")  m == Cell(row, "credentialMethodKey")
<1>1. p \in DOMAIN Providers
  BY DEF FieldsKnown
<1>2. CASE Methodical(p)
  <2>1. m \in DOMAIN Providers[p].methods
    BY <1>2 DEF FieldsKnown, MethodKnown
  <2> QED
    BY <1>1, <1>2, <2>1 DEF FieldsOf, FieldSets
<1>3. CASE ~Methodical(p)
  BY <1>1, <1>3 DEF FieldsOf, FieldSets
<1> QED
  BY <1>2, <1>3

\* A renamed row: a field is what its last column says, and a column that no field is
\* called like is what it was.
LEMMA NormalizedRow ==
  ASSUME NEW h, h \in Seq(ToSet(h)), NEW row, DOMAIN row = ToSet(h), NEW fields \in FieldSets
  PROVE  LET r == Normalized(h, row, fields)
         IN  /\ \A f \in fields : ColumnsOf(h, f) # {} =>
                  f.key \in DOMAIN r /\ r[f.key] = row[LastColumn(h, f)]
             /\ \A f \in fields : f.key \in DOMAIN r => ColumnsOf(h, f) # {}
             /\ \A c \in ToSet(h) : (\A f \in fields : c \notin NamesOf(f)) =>
                  c \in DOMAIN r /\ r[c] = row[c]
<1> DEFINE other == UNION {f.aliases \ {f.key} : f \in fields}
           named == {f \in fields : ColumnsOf(h, f) # {}}
           r == Normalized(h, row, fields)
<1>1. r = [c \in (DOMAIN row \ other) \cup {f.key : f \in named} |->
             IF \E f \in named : f.key = c
             THEN row[LastColumn(h, CHOOSE f \in named : f.key = c)]
             ELSE row[c]]
  BY DEF Normalized
<1> HIDE DEF r
<1>2. ASSUME NEW f \in fields, ColumnsOf(h, f) # {}
      PROVE  f.key \in DOMAIN r /\ r[f.key] = row[LastColumn(h, f)]
  <2>1. f \in named
    BY <1>2
  <2>2. f.key \in DOMAIN r
    BY <1>1, <2>1
  <2>3. \A g \in named : g.key = f.key => g = f
    BY TablesAssumption
  <2>4. (CHOOSE g \in named : g.key = f.key) = f
    BY <2>1, <2>3
  <2> QED
    BY <1>1, <2>1, <2>2, <2>4
<1>3. ASSUME NEW f \in fields, f.key \in DOMAIN r PROVE ColumnsOf(h, f) # {}
  <2>1. CASE f.key \in DOMAIN row
    BY <2>1 DEF ColumnsOf, NamesOf
  <2>2. CASE f.key \notin DOMAIN row
    <3>1. PICK g \in named : g.key = f.key
      BY <1>1, <1>3, <2>2
    <3>2. g = f
      BY <3>1, TablesAssumption
    <3> QED
      BY <3>2
  <2> QED
    BY <2>1, <2>2
<1>4. ASSUME NEW c \in ToSet(h), \A f \in fields : c \notin NamesOf(f)
      PROVE  c \in DOMAIN r /\ r[c] = row[c]
  <2>1. c \notin other /\ ~\E f \in named : f.key = c
    BY <1>4 DEF NamesOf
  <2> QED
    BY <1>1, <2>1
<1> QED
  BY <1>2, <1>3, <1>4 DEF r

\* What a secret column holds becomes a Secret.
LEMMA SecretsAreKept ==
  ASSUME NEW row, NEW fields, SecretsSound(row, fields), NEW c \in SecretColumns(row, fields)
  PROVE  row[c] \in Range(Secrets(row, fields))
<1> DEFINE cs == SecretColumns(row, fields)  n == SecretName(c)
<1>1. \A d \in cs : SecretName(d) = n => d = c
  BY DEF SecretsSound
<1>2. (CHOOSE d \in cs : SecretName(d) = n) = c
  BY <1>1
<1>3. n \in DOMAIN Secrets(row, fields) /\ Secrets(row, fields)[n] = row[c]
  BY <1>2 DEF Secrets
<1> QED
  BY <1>3 DEF Range

LEMMA RowKeepsSecrets ==
  ASSUME NEW h, h \in Seq(ToSet(h)), NEW row, DOMAIN row = ToSet(h), RowSound(h, row)
  PROVE  LET rec == CsvCredential(h, row)
             secret == SecretHeaders(row, FieldsOf(row))
         IN  /\ CellsOf(row, secret) \subseteq Range(rec.secrets)
             /\ {v[2] : v \in rec.custom}
                  \cap (CellsOf(row, secret) \ CellsOf(row, DOMAIN row \ secret)) = {}
<1> DEFINE fields == FieldsOf(row)  r == Normalized(h, row, fields)
           secret == SecretHeaders(row, fields)
<1>1. /\ fields \in FieldSets /\ Unambiguous(fields) /\ SecretsSound(r, fields)
      /\ \A f \in fields : Mergeable(h, row, f)
  BY FieldsAreOfTables DEF RowSound
<1>2. /\ \A f \in fields : ColumnsOf(h, f) # {} =>
           f.key \in DOMAIN r /\ r[f.key] = row[LastColumn(h, f)]
      /\ \A f \in fields : f.key \in DOMAIN r => ColumnsOf(h, f) # {}
      /\ \A c \in ToSet(h) : (\A f \in fields : c \notin NamesOf(f)) => c \in DOMAIN r /\ r[c] = row[c]
  BY <1>1, NormalizedRow
<1>3. CsvCredential(h, row).secrets = Secrets(r, fields) /\ CsvCredential(h, row).custom = Custom(r, fields)
  BY DEF CsvCredential
<1>4. \A f \in fields : NamesOf(f) \cap DOMAIN SecretColumn = {}
  BY <1>1, TablesAssumption DEF NamesOf
<1> HIDE DEF r, fields
<1>5. ASSUME NEW c \in secret, row[c] # Blank PROVE row[c] \in Range(Secrets(r, fields))
  <2>0. c \in ToSet(h)
    BY DEF SecretHeaders
  <2>1. CASE c \in DOMAIN SecretColumn
    <3>1. c \in DOMAIN r /\ r[c] = row[c]
      BY <1>2, <1>4, <2>0, <2>1
    <3>2. c \in SecretColumns(r, fields)
      BY <1>5, <2>1, <3>1 DEF SecretColumns
    <3> QED
      BY <1>1, <3>1, <3>2, SecretsAreKept
  <2>2. CASE \E f \in fields : f.secret /\ c \in NamesOf(f)
    <3>1. PICK f \in fields : f.secret /\ c \in NamesOf(f)
      BY <2>2
    <3>2. c \in ColumnsOf(h, f)
      BY <2>0, <3>1 DEF ColumnsOf
    <3> DEFINE last == LastColumn(h, f)
    <3>3. row[last] = row[c]
      <4>1. last \in ColumnsOf(h, f) /\ (c = last \/ Ahead(h, f, c, last))
        BY <3>2, LastColumnIsLast
      <4> QED
        BY <1>1, <1>5, <3>2, <4>1 DEF Mergeable
    <3>4. f.key \in DOMAIN r /\ r[f.key] = row[c]
      BY <1>2, <3>2, <3>3
    <3>5. f.key \in SecretKeys(fields) /\ fields # {}
      BY <3>1 DEF SecretKeys
    <3>6. f.key \in SecretColumns(r, fields)
      BY <1>5, <3>4, <3>5 DEF SecretColumns
    <3> QED
      BY <1>1, <3>4, <3>6, SecretsAreKept
  <2> QED
    BY <2>1, <2>2 DEF SecretHeaders
<1>6. ASSUME NEW v \in Custom(r, fields) PROVE v[2] \in CellsOf(row, DOMAIN row \ secret)
  <2>1. PICK f \in fields : ~f.secret /\ Cell(r, f.key) # Blank /\ v = <<f.key, r[f.key]>>
    BY DEF Custom
  <2>2. f.key \in DOMAIN r /\ r[f.key] # Blank /\ v[2] = r[f.key]
    BY <2>1 DEF Cell
  <2> DEFINE last == LastColumn(h, f)
  <2>3. last \in ColumnsOf(h, f) /\ r[f.key] = row[last]
    BY <1>2, <2>2, LastColumnIsLast
  <2>4. last \in DOMAIN row /\ last \in NamesOf(f)
    BY <2>3 DEF ColumnsOf
  <2>5. last \notin DOMAIN SecretColumn
    BY <1>4, <2>4
  <2>6. ASSUME NEW g \in fields, g.secret, last \in NamesOf(g) PROVE FALSE
    <3>1. CASE g.key = f.key
      <4>1. g = f
        BY <1>1, <3>1, TablesAssumption
      <4> QED
        BY <2>1, <2>6, <4>1
    <3>2. CASE g.key # f.key
      BY <1>1, <2>4, <2>6, <3>2 DEF Unambiguous
    <3> QED
      BY <3>1, <3>2
  <2>7. last \notin secret
    BY <2>5, <2>6 DEF SecretHeaders
  <2> QED
    BY <2>2, <2>3, <2>4, <2>7 DEF CellsOf
<1>7. CellsOf(row, secret) \subseteq Range(Secrets(r, fields))
  BY <1>5 DEF CellsOf
<1> QED
  BY <1>3, <1>6, <1>7 DEF r, fields

LEMMA CsvTablesKeepSecrets == CsvSecretsStaySecret
<1> SUFFICES ASSUME NEW sheet \in Sheets, CsvSound(sheet), NEW k \in Lines(sheet)
             PROVE  LET row == Row(sheet, k)
                        rec == CsvCredentials(sheet)[k]
                        secret == SecretHeaders(row, FieldsOf(row))
                    IN  /\ CellsOf(row, secret) \subseteq Range(rec.secrets)
                        /\ {v[2] : v \in rec.custom}
                             \cap (CellsOf(row, secret) \ CellsOf(row, DOMAIN row \ secret)) = {}
  BY DEF CsvSecretsStaySecret
<1> DEFINE h == Header(sheet)  row == Row(sheet, k)
<1>1. h \in Seq(ToSet(h)) /\ DOMAIN row = ToSet(h) /\ RowSound(h, row)
  BY HeaderIsSequence DEF CsvSound, Row
<1>2. CsvCredentials(sheet)[k] = CsvCredential(h, row)
  BY DEF CsvCredentials
<1> HIDE DEF h, row
<1>3. LET rec == CsvCredential(h, row)
          secret == SecretHeaders(row, FieldsOf(row))
      IN  /\ CellsOf(row, secret) \subseteq Range(rec.secrets)
          /\ {v[2] : v \in rec.custom}
               \cap (CellsOf(row, secret) \ CellsOf(row, DOMAIN row \ secret)) = {}
  BY <1>1, RowKeepsSecrets
<1> QED
  BY <1>2, <1>3 DEF h, row

-----------------------------------------------------------------------------
(* The requests.  *)

CollectionOK(c) == c = [i \in Ids |-> c[i]] /\ \A i \in Ids : c[i] # Absent => DOMAIN c[i] = Fields
FileOK(t) == IF t.form = "csv" THEN t.sheet.table \in Seq(ToSet(t.sheet.table))
             ELSE t.records \in Seq(ToSet(t.records))
RequestOK(q) ==
  /\ DOMAIN q = DOMAIN NoRequest
  /\ q.strategy \in {"skip", "overwrite", "rename"} /\ Len(q.file) \in Nat
  /\ CollectionOK(q.read) /\ CollectionOK(q.before)
TransferTypeOK ==
  /\ CollectionOK(store)
  /\ req = [r \in TransferRequests |-> req[r]]
  /\ \A r \in TransferRequests : RequestOK(req[r])
  /\ exported # Nil => FileOK(exported)
  /\ kdf \in Nat
Saving == {"record", "undo"}
Kept == {"imported", "stuck"}
InBoundary == {"prepare", "commit"} \cup Saving
LocksFit ==
  /\ boundary # Nil => boundary \in TransferRequests /\ req[boundary].at \in InBoundary
  /\ queue # Nil => queue \in TransferRequests /\ req[queue].at \in Saving
  /\ \A r \in TransferRequests : req[r].at \in Saving => queue = r
WritersFit ==
  \A i \in Present(store) : store[i].by \in TransferRequests =>
    req[store[i].by].at \in Saving \cup Kept
BeforeFits ==
  \A r \in TransferRequests : req[r].at \in Saving =>
    \A i \in Present(req[r].before) : req[r].before[i].by \in TransferRequests =>
       req[req[r].before[i].by].at \in Kept
Deriving == {r \in TransferRequests : At(r, "derive")}
TInv == TransferTypeOK /\ LocksFit /\ WritersFit /\ BeforeFits /\ kdf = Cardinality(Deriving)

\* One request changes, the others do not.
Only(r) == req' = [q \in TransferRequests |-> IF q = r THEN req'[r] ELSE req[q]]

LEMMA EndShape ==
  ASSUME TransferTypeOK, NEW r \in TransferRequests, NEW how, End(r, how)
  PROVE  /\ Only(r) /\ RequestOK(req'[r]) /\ req'[r].at = how
         /\ req'[r].strategy = req[r].strategy
<1>1. /\ req = [q \in TransferRequests |-> req[q]] /\ DOMAIN req[r] = DOMAIN NoRequest
      /\ req[r].strategy \in {"skip", "overwrite", "rename"}
  BY DEF TransferTypeOK, RequestOK
<1>2. req' = [q \in TransferRequests |-> IF q = r
                THEN [NoRequest EXCEPT !.at = how, !.strategy = req[r].strategy]
                ELSE req[q]]
  BY <1>1 DEF End
<1>3. req'[r] = [NoRequest EXCEPT !.at = how, !.strategy = req[r].strategy]
  BY <1>2
<1>4. Only(r)
  BY <1>2, <1>3 DEF Only
<1>5. /\ DOMAIN req'[r] = DOMAIN NoRequest /\ req'[r].at = how /\ req'[r].strategy = req[r].strategy
      /\ req'[r].file = <<>> /\ req'[r].read = Nothing /\ req'[r].before = Nothing
  BY <1>3 DEF NoRequest
<1>6. CollectionOK(Nothing) /\ Len(<<>>) \in Nat
  BY DEF CollectionOK, Nothing
<1> QED
  BY <1>1, <1>4, <1>5, <1>6 DEF RequestOK

LEMMA GotoShape ==
  ASSUME TransferTypeOK, NEW r \in TransferRequests, NEW stage, Goto(r, stage)
  PROVE  /\ Only(r) /\ RequestOK(req'[r]) /\ req'[r].at = stage
         /\ req'[r].strategy = req[r].strategy /\ req'[r].read = req[r].read
         /\ req'[r].before = req[r].before /\ req'[r].ops = req[r].ops
<1>1. /\ req = [q \in TransferRequests |-> req[q]] /\ RequestOK(req[r])
  BY DEF TransferTypeOK
<1>2. req' = [q \in TransferRequests |-> IF q = r THEN [req[r] EXCEPT !.at = stage] ELSE req[q]]
  BY <1>1 DEF Goto
<1>3. req'[r] = [req[r] EXCEPT !.at = stage]
  BY <1>2
<1>4. Only(r)
  BY <1>2, <1>3 DEF Only
<1>5. /\ DOMAIN req'[r] = DOMAIN NoRequest /\ req'[r].at = stage /\ req'[r].strategy = req[r].strategy
      /\ req'[r].file = req[r].file /\ req'[r].read = req[r].read /\ req'[r].before = req[r].before
      /\ req'[r].ops = req[r].ops
  BY <1>1, <1>3 DEF RequestOK, NoRequest
<1> QED
  BY <1>1, <1>4, <1>5 DEF RequestOK

\* A step of a request that saves nothing and holds no queue.
Early(r) ==
  /\ Only(r) /\ RequestOK(req'[r])
  /\ req[r].at \notin Saving \cup Kept /\ req'[r].at \notin Saving
  /\ store' = store /\ queue' = queue
  /\ \/ boundary' = Nil
     \/ boundary' = boundary /\ boundary # r
     \/ boundary' \in {r, boundary} /\ req'[r].at \in InBoundary

LEMMA EarlyKeepsLocks ==
  ASSUME TInv, NEW r \in TransferRequests, Early(r)
  PROVE  LocksFit' /\ WritersFit' /\ BeforeFits'
<1>0. /\ r # Nil /\ req'[r].at \notin Saving /\ req[r].at \notin Saving \cup Kept
      /\ store' = store /\ queue' = queue
      /\ \A q \in TransferRequests : q # r => req'[q] = req[q]
      /\ Present(store)' = Present(store)
  BY TransferAssumption DEF Early, Only, Present
<1>1. queue # r /\ (queue # Nil => queue \in TransferRequests /\ req'[queue].at \in Saving)
  BY <1>0 DEF TInv, LocksFit
<1>2. \A q \in TransferRequests : req'[q].at \in Saving => queue = q /\ req'[q] = req[q]
  BY <1>0 DEF TInv, LocksFit
<1>3. boundary' # Nil => boundary' \in TransferRequests /\ req'[boundary'].at \in InBoundary
  BY <1>0 DEF TInv, LocksFit, Early
<1>4. LocksFit'
  BY <1>0, <1>1, <1>2, <1>3 DEF LocksFit
<1>5. WritersFit'
  <2>1. ASSUME NEW i \in Present(store), store[i].by \in TransferRequests
        PROVE  req'[store[i].by].at \in Saving \cup Kept
    <3>1. req[store[i].by].at \in Saving \cup Kept
      BY <2>1 DEF TInv, WritersFit
    <3> QED
      BY <1>0, <2>1, <3>1
  <2> QED
    BY <1>0, <2>1 DEF WritersFit
<1>6. BeforeFits'
  <2>1. ASSUME NEW q \in TransferRequests, req'[q].at \in Saving,
               NEW i \in Present(req[q].before), req[q].before[i].by \in TransferRequests
        PROVE  req'[req[q].before[i].by].at \in Kept
    <3>1. req[q].at \in Saving
      BY <1>2, <2>1
    <3>2. req[req[q].before[i].by].at \in Kept
      BY <2>1, <3>1 DEF TInv, BeforeFits
    <3> QED
      BY <1>0, <2>1, <3>2
  <2>2. \A q \in TransferRequests : req'[q].at \in Saving => req'[q] = req[q]
    BY <1>2
  <2> QED
    BY <2>1, <2>2 DEF BeforeFits, Present
<1> QED
  BY <1>4, <1>5, <1>6

\* The place of a key derivation.
LEMMA DerivingFinite == IsFiniteSet(Deriving) /\ Cardinality(Deriving) \in Nat
<1>1. IsFiniteSet(TransferRequests) /\ Deriving \subseteq TransferRequests
  BY TransferAssumption DEF Deriving
<1>2. IsFiniteSet(Deriving)
  BY <1>1, FS_Subset
<1> QED
  BY <1>2, FS_CardinalityType

LEMMA SameDeriving ==
  ASSUME NEW r \in TransferRequests, Only(r), req[r].at # "derive", req'[r].at # "derive"
  PROVE  Deriving' = Deriving
BY DEF Only, Deriving, At

LEMMA EarlyKeepsInvariant ==
  ASSUME TInv, NEW r \in TransferRequests, Early(r), exported' = exported,
         kdf' = kdf, req[r].at # "derive", req'[r].at # "derive"
  PROVE  TInv'
<1>1. TransferTypeOK'
  <2>1. \A q \in TransferRequests : RequestOK(req'[q])
    BY DEF TInv, TransferTypeOK, Early, Only
  <2>2. req' = [q \in TransferRequests |-> req'[q]]
    BY DEF Early, Only
  <2>3. CollectionOK(store') /\ (exported' # Nil => FileOK(exported')) /\ kdf' \in Nat
    BY DEF TInv, TransferTypeOK, Early
  <2> QED
    BY <2>1, <2>2, <2>3 DEF TransferTypeOK, CollectionOK, RequestOK, FileOK
<1>2. kdf' = Cardinality(Deriving')
  BY SameDeriving DEF TInv, Early
<1> QED
  BY <1>1, <1>2, EarlyKeepsLocks DEF TInv

-----------------------------------------------------------------------------
(* The files: what a request may be given.                                  *)

LEMMA InOrderIsSequence ==
  ASSUME NEW S, IsFiniteSet(S)
  PROVE  Cardinality(S) \in Nat /\ DOMAIN InOrder(S) = 1 .. Cardinality(S)
BY FS_CardinalityType DEF InOrder

LEMMA FunctionIsSequence ==
  ASSUME NEW s, NEW n \in Nat, s = [k \in 1 .. n |-> s[k]] PROVE s \in Seq(ToSet(s)) /\ Len(s) = n
<1>1. s \in [1 .. n -> ToSet(s)]
  BY DEF ToSet
<1>2. s \in Seq(ToSet(s))
  BY <1>1, SeqDef
<1>3. Len(s) \in Nat /\ DOMAIN s = 1 .. Len(s) /\ DOMAIN s = 1 .. n
  BY <1>1, <1>2, LenProperties
<1> QED
  BY <1>2, <1>3

LEMMA NumbersUpTo == IsFiniteSet(Ids) /\ Named \in Nat /\ Ids = 1 .. Named + MaxCreated
<1>1. Len(Initial) \in Nat /\ Foreign \in Nat /\ MaxCreated \in Nat
  BY TransferAssumption, LenProperties
<1>2. Named \in Nat /\ Named + MaxCreated \in Nat
  BY <1>1 DEF Named
<1> QED
  BY <1>2, FS_Interval DEF Ids

LEMMA PresentIsFinite == ASSUME NEW c PROVE IsFiniteSet(Present(c)) /\ Present(c) \subseteq Ids
BY NumbersUpTo, FS_Subset DEF Present

LEMMA RecordsOfCsv ==
  ASSUME NEW sheet, sheet.table \in Seq(ToSet(sheet.table))
  PROVE  FromCsv(sheet) \in Seq(ToSet(FromCsv(sheet)))
<1>1. IsFiniteSet(1 .. Len(sheet.table)) /\ DOMAIN sheet.table = 1 .. Len(sheet.table)
  <2>1. Len(sheet.table) \in Nat /\ DOMAIN sheet.table = 1 .. Len(sheet.table)
    BY LenProperties
  <2> QED
    BY <2>1, FS_Interval
<1>2. Lines(sheet) \subseteq 1 .. Len(sheet.table)
  BY <1>1 DEF Lines, FilledLines
<1>3. IsFiniteSet(Lines(sheet))
  BY <1>1, <1>2, FS_Subset
<1> DEFINE n == Cardinality(Lines(sheet))
<1>4. n \in Nat /\ DOMAIN InOrder(Lines(sheet)) = 1 .. n
  BY <1>3, InOrderIsSequence
<1>5. FromCsv(sheet) = [k \in 1 .. n |-> FromCsv(sheet)[k]]
  BY <1>4 DEF FromCsv
<1> QED
  BY <1>4, <1>5, FunctionIsSequence

LEMMA IdentifiedIsSequence ==
  ASSUME NEW file, file \in Seq(ToSet(file)) PROVE Len(Identified(file)) \in Nat
<1>1. Len(file) \in Nat /\ DOMAIN file = 1 .. Len(file)
  BY LenProperties
<1>2. Identified(file) = [k \in 1 .. Len(file) |-> Identified(file)[k]]
  BY <1>1 DEF Identified
<1> QED
  BY <1>1, <1>2, FunctionIsSequence

-----------------------------------------------------------------------------
(* What each step does to the invariant.                                    *)

LEMMA InitHolds == ASSUME TransferInit PROVE TInv
<1>1. NoRequest.at = "idle" /\ RequestOK(NoRequest)
  <2>1. CollectionOK(Nothing) /\ Len(<<>>) \in Nat
    BY DEF CollectionOK, Nothing
  <2> QED
    BY <2>1 DEF RequestOK, NoRequest
<1>2. req = [r \in TransferRequests |-> NoRequest] /\ \A r \in TransferRequests : req[r] = NoRequest
  BY DEF TransferInit
<1>3. ASSUME NEW i \in Present(store) PROVE store[i] \in ToSet(Initial)
  <2>1. Len(Initial) \in Nat /\ DOMAIN Initial = 1 .. Len(Initial)
    BY TransferAssumption, LenProperties
  <2>2. i \in 1 .. Len(Initial) /\ store[i] = Initial[i]
    BY <2>1, NumbersUpTo DEF Present, TransferInit
  <2> QED
    BY <2>1, <2>2 DEF ToSet
<1>4. CollectionOK(store)
  <2>1. store = [i \in Ids |-> store[i]]
    BY DEF TransferInit
  <2>2. \A i \in Ids : store[i] # Absent => DOMAIN store[i] = Fields
    BY <1>3, TransferAssumption DEF Present
  <2> QED
    BY <2>1, <2>2 DEF CollectionOK
<1>5. TransferTypeOK
  <2>1. exported = Nil /\ kdf \in Nat
    BY DEF TransferInit
  <2> QED
    BY <1>1, <1>2, <1>4, <2>1 DEF TransferTypeOK
<1>6. LocksFit /\ BeforeFits
  BY <1>1, <1>2 DEF LocksFit, BeforeFits, TransferInit, Saving
<1>7. WritersFit
  BY <1>3, TransferAssumption DEF WritersFit
<1>8. Deriving = {} /\ Cardinality({}) = 0
  BY <1>1, <1>2, FS_EmptySet DEF Deriving, At
<1>9. kdf = 0
  BY DEF TransferInit
<1> QED
  BY <1>5, <1>6, <1>7, <1>8, <1>9 DEF TInv

LEMMA ExportKeeps == ASSUME TInv, NEW r \in TransferRequests, Export(r) PROVE TInv'
<1>1. TransferTypeOK /\ req[r].at = "idle" /\ End(r, "answered") /\ boundary # r
  BY TransferAssumption DEF TInv, Export, At, LocksFit, InBoundary, Saving
<1>2. Only(r) /\ RequestOK(req'[r]) /\ req'[r].at = "answered"
  BY <1>1, EndShape
<1>3. Early(r)
  BY <1>1, <1>2 DEF Early, Export, Saving, Kept
<1>4. FileOK(exported')
  <2> DEFINE n == Cardinality(Present(store))  rs == exported'.records
  <2>1. n \in Nat /\ DOMAIN Listed(store) = 1 .. n
    BY PresentIsFinite, InOrderIsSequence DEF Listed
  <2>2. rs = [k \in DOMAIN Listed(store) |-> Exported(Listed(store)[k])] /\ exported'.form = "encrypted"
    BY DEF Export
  <2> HIDE DEF rs, n
  <2>3. rs = [k \in 1 .. n |-> rs[k]]
    BY <2>1, <2>2
  <2>4. rs \in Seq(ToSet(rs))
    BY <2>1, <2>3, FunctionIsSequence
  <2> QED
    BY <2>2, <2>4 DEF FileOK, rs
<1>5. TransferTypeOK'
  <2>1. \A q \in TransferRequests : RequestOK(req'[q])
    BY <1>2 DEF TInv, TransferTypeOK, Only
  <2>2. req' = [q \in TransferRequests |-> req'[q]]
    BY <1>2 DEF Only
  <2>3. CollectionOK(store') /\ kdf' \in Nat
    BY DEF TInv, TransferTypeOK, Export
  <2> QED
    BY <1>4, <2>1, <2>2, <2>3 DEF TransferTypeOK, CollectionOK, RequestOK, FileOK
<1>6. kdf' = Cardinality(Deriving')
  BY <1>1, <1>2, SameDeriving DEF TInv, Export
<1> QED
  BY <1>3, <1>5, <1>6, EarlyKeepsLocks DEF TInv

LEMMA FilesAreSound == ASSUME TInv, NEW t \in Files PROVE FileOK(t)
BY TransferAssumption DEF Files, FileOK, TInv, TransferTypeOK

LEMMA SubmitKeeps ==
  ASSUME TInv, NEW r \in TransferRequests, NEW kind, NEW t \in Files, NEW strategy \in Strategies,
         Submit(r, kind, t, strategy)
  PROVE  TInv'
<1> DEFINE records == CASE t.form # "csv" -> t.records
                        [] t.form = "csv" /\ Acceptable(t) -> FromCsv(t.sheet)
                        [] OTHER -> <<>>
           begun == [NoRequest EXCEPT !.kind = kind, !.strategy = strategy, !.base = minted,
                                      !.file = Identified(records)]
<1>1. Len(Identified(records)) \in Nat
  <2>1. records \in Seq(ToSet(records))
    <3>1. CASE t.form # "csv"
      BY <3>1, FilesAreSound DEF FileOK
    <3>2. CASE t.form = "csv" /\ Acceptable(t)
      <4>1. records = FromCsv(t.sheet) /\ t.sheet.table \in Seq(ToSet(t.sheet.table))
        BY <3>2, FilesAreSound DEF FileOK
      <4> QED
        BY <4>1, RecordsOfCsv
    <3>3. CASE t.form = "csv" /\ ~Acceptable(t)
      <4>1. records = <<>>
        BY <3>3
      <4>2. <<>> \in Seq(ToSet(<<>>))
        OBVIOUS
      <4> HIDE DEF records
      <4> QED
        BY <4>1, <4>2
    <3> QED
      BY <3>1, <3>2, <3>3
  <2> HIDE DEF records
  <2> QED
    BY <2>1, IdentifiedIsSequence
<1>2. req[r].at = "idle" /\ store' = store /\ queue' = queue /\ boundary' = boundary /\ exported' = exported
  BY DEF Submit, At
<1>3. PICK begin :
        /\ req' = [req EXCEPT ![r] = begin]
        /\ \/ /\ kdf' = kdf + 1 /\ begin = [begun EXCEPT !.at = "derive", !.sealed = t.right]
           \/ /\ kdf' = kdf /\ begin = [begun EXCEPT !.at = "list"]
           \/ /\ kdf' = kdf /\ begin = [NoRequest EXCEPT !.kind = kind, !.at = "refused"]
  BY Zenon DEF Submit
<1> HIDE DEF records
<1>4. /\ RequestOK(begin)
      /\ \/ kdf' = kdf + 1 /\ begin.at = "derive"
         \/ kdf' = kdf /\ begin.at \in {"list", "refused"}
  <2>1. CollectionOK(Nothing) /\ Len(<<>>) \in Nat /\ strategy \in {"skip", "overwrite", "rename"}
    BY TransferAssumption DEF CollectionOK, Nothing
  <2>2. /\ DOMAIN begin = DOMAIN NoRequest /\ begin.read = Nothing /\ begin.before = Nothing
        /\ begin.strategy \in {"skip", strategy} /\ begin.file \in {<<>>, Identified(records)}
        /\ \/ kdf' = kdf + 1 /\ begin.at = "derive"
           \/ kdf' = kdf /\ begin.at \in {"list", "refused"}
    BY <1>3 DEF NoRequest
  <2> QED
    BY <1>1, <2>1, <2>2 DEF RequestOK
<1>5. /\ req = [q \in TransferRequests |-> req[q]] /\ \A q \in TransferRequests : RequestOK(req[q])
      /\ CollectionOK(store) /\ kdf \in Nat /\ (exported # Nil => FileOK(exported)) /\ boundary # r
  BY <1>2, TransferAssumption DEF TInv, TransferTypeOK, LocksFit, InBoundary, Saving
<1>6. Only(r) /\ req'[r] = begin
  BY <1>3, <1>5 DEF Only
<1>7. Early(r)
  BY <1>2, <1>4, <1>5, <1>6 DEF Early, Saving, Kept
<1>8. TransferTypeOK'
  <2>1. \A q \in TransferRequests : RequestOK(req'[q])
    BY <1>4, <1>5, <1>6 DEF Only
  <2>2. req' = [q \in TransferRequests |-> req'[q]]
    BY <1>6 DEF Only
  <2>3. CollectionOK(store') /\ kdf' \in Nat /\ (exported' # Nil => FileOK(exported'))
    BY <1>2, <1>4, <1>5
  <2> QED
    BY <2>1, <2>2, <2>3 DEF TransferTypeOK, CollectionOK, RequestOK, FileOK
<1>9. kdf' = Cardinality(Deriving')
  <2>1. CASE kdf' = kdf + 1 /\ begin.at = "derive"
    <3>1. Deriving' = Deriving \cup {r} /\ r \notin Deriving
      BY <1>2, <1>6, <2>1 DEF Deriving, Only, At
    <3>2. Cardinality(Deriving \cup {r}) = Cardinality(Deriving) + 1
      BY <3>1, DerivingFinite, FS_AddElement
    <3> QED
      BY <2>1, <3>1, <3>2 DEF TInv
  <2>2. CASE kdf' = kdf /\ begin.at \in {"list", "refused"}
    BY <1>2, <1>6, <2>2, SameDeriving DEF TInv
  <2> QED
    BY <1>4, <2>1, <2>2
<1> QED
  BY <1>7, <1>8, <1>9, EarlyKeepsLocks DEF TInv

LEMMA DeriveKeeps == ASSUME TInv, NEW r \in TransferRequests, Derive(r) PROVE TInv'
<1>1. /\ TransferTypeOK /\ req[r].at = "derive" /\ kdf' = kdf - 1 /\ kdf \in Nat /\ boundary # r
      /\ store' = store /\ queue' = queue /\ boundary' = boundary /\ exported' = exported
  BY TransferAssumption DEF TInv, TransferTypeOK, Derive, At, GivenBack, LocksFit, InBoundary, Saving
<1>2. Only(r) /\ RequestOK(req'[r]) /\ req'[r].at \in {"list", "refused"}
  BY <1>1, EndShape, GotoShape DEF Derive
<1>3. Early(r)
  BY <1>1, <1>2 DEF Early, Saving, Kept
<1>4. r \in Deriving /\ Deriving' = Deriving \ {r}
  BY <1>1, <1>2 DEF Deriving, Only, At
<1>5. Cardinality(Deriving \ {r}) = Cardinality(Deriving) - 1 /\ Cardinality(Deriving \ {r}) \in Nat
  <2>1. IsFiniteSet(Deriving \ {r})
    BY DerivingFinite, FS_RemoveElement
  <2> QED
    BY <1>4, <2>1, DerivingFinite, FS_RemoveElement, FS_CardinalityType
<1>6. kdf' = Cardinality(Deriving') /\ kdf' \in Nat
  BY <1>1, <1>4, <1>5 DEF TInv
<1>7. TransferTypeOK'
  <2>1. \A q \in TransferRequests : RequestOK(req'[q])
    BY <1>2 DEF TInv, TransferTypeOK, Only
  <2>2. req' = [q \in TransferRequests |-> req'[q]]
    BY <1>2 DEF Only
  <2>3. CollectionOK(store') /\ (exported' # Nil => FileOK(exported'))
    BY <1>1 DEF TransferTypeOK
  <2> QED
    BY <1>6, <2>1, <2>2, <2>3 DEF TransferTypeOK, CollectionOK, RequestOK, FileOK
<1> QED
  BY <1>3, <1>6, <1>7, EarlyKeepsLocks DEF TInv

LEMMA ListKeeps == ASSUME TInv, NEW r \in TransferRequests, List(r) PROVE TInv'
<1>1. /\ TransferTypeOK /\ req[r].at = "list" /\ boundary # r /\ RequestOK(req[r]) /\ CollectionOK(store)
      /\ req = [q \in TransferRequests |-> req[q]]
      /\ store' = store /\ queue' = queue /\ boundary' = boundary /\ exported' = exported /\ kdf' = kdf
  BY TransferAssumption DEF TInv, TransferTypeOK, List, At, LocksFit, InBoundary, Saving
<1>2. req' = [q \in TransferRequests |-> IF q = r THEN [req[r] EXCEPT !.read = store, !.at = "tombs"] ELSE req[q]]
  BY <1>1 DEF List
<1>3. req'[r] = [req[r] EXCEPT !.read = store, !.at = "tombs"]
  BY <1>2
<1>4. Only(r)
  BY <1>2, <1>3 DEF Only
<1>5. /\ DOMAIN req'[r] = DOMAIN NoRequest /\ req'[r].at = "tombs" /\ req'[r].read = store
      /\ req'[r].strategy = req[r].strategy /\ req'[r].file = req[r].file /\ req'[r].before = req[r].before
  BY <1>1, <1>3 DEF RequestOK, NoRequest
<1>6. Early(r)
  BY <1>1, <1>4, <1>5 DEF Early, Saving, Kept, RequestOK
<1> QED
  BY <1>1, <1>5, <1>6, EarlyKeepsInvariant

LEMMA ReadTombstonesKeeps == ASSUME TInv, NEW r \in TransferRequests, ReadTombstones(r) PROVE TInv'
<1>1. /\ TransferTypeOK /\ req[r].at = "tombs" /\ boundary # r /\ RequestOK(req[r])
      /\ req = [q \in TransferRequests |-> req[q]]
      /\ store' = store /\ queue' = queue /\ boundary' = boundary /\ exported' = exported /\ kdf' = kdf
  BY TransferAssumption DEF TInv, TransferTypeOK, ReadTombstones, At, LocksFit, InBoundary, Saving
<1>2. CASE End(r, "answered") \/ End(r, "refused") \/ End(r, "imported")
  <2>1. Only(r) /\ RequestOK(req'[r]) /\ req'[r].at \in {"answered", "refused", "imported"}
    BY <1>1, <1>2, EndShape
  <2>2. Early(r)
    BY <1>1, <2>1 DEF Early, Saving, Kept
  <2> QED
    BY <1>1, <2>1, <2>2, EarlyKeepsInvariant
<1>3. CASE req' = [req EXCEPT ![r].barred = tombs, ![r].ops = Plan(r).ops, ![r].at = "enter"]
  <2>1. req'[r] = [req[r] EXCEPT !.barred = tombs, !.ops = Plan(r).ops, !.at = "enter"] /\ Only(r)
    BY <1>1, <1>3 DEF Only
  <2>2. /\ DOMAIN req'[r] = DOMAIN NoRequest /\ req'[r].at = "enter" /\ req'[r].read = req[r].read
        /\ req'[r].strategy = req[r].strategy /\ req'[r].file = req[r].file /\ req'[r].before = req[r].before
    BY <1>1, <2>1 DEF RequestOK, NoRequest
  <2>3. Early(r)
    BY <1>1, <2>1, <2>2 DEF Early, Saving, Kept, RequestOK
  <2> QED
    BY <1>1, <2>2, <2>3, EarlyKeepsInvariant
<1> QED
  BY <1>2, <1>3 DEF ReadTombstones

LEMMA EnterKeeps == ASSUME TInv, NEW r \in TransferRequests, EnterBoundary(r) PROVE TInv'
<1>1. /\ TransferTypeOK /\ req[r].at = "enter" /\ Goto(r, "prepare") /\ boundary' = r
      /\ store' = store /\ queue' = queue /\ exported' = exported /\ kdf' = kdf
  BY DEF TInv, EnterBoundary, At
<1>2. Only(r) /\ RequestOK(req'[r]) /\ req'[r].at = "prepare"
  BY <1>1, GotoShape
<1>3. Early(r)
  BY <1>1, <1>2 DEF Early, Saving, Kept, InBoundary
<1> QED
  BY <1>1, <1>2, <1>3, EarlyKeepsInvariant

LEMMA RefuseKeeps ==
  ASSUME TInv, NEW r \in TransferRequests, Refuse(r), req[r].at \in {"prepare", "commit"},
         UNCHANGED <<store, queue, exported, kdf>>
  PROVE  TInv'
<1>1. TransferTypeOK /\ End(r, "refused") /\ boundary' = Nil
  BY DEF TInv, Refuse
<1>2. Only(r) /\ RequestOK(req'[r]) /\ req'[r].at = "refused"
  BY <1>1, EndShape
<1>3. Early(r)
  BY <1>1, <1>2 DEF Early, Saving, Kept
<1> QED
  BY <1>2, <1>3, EarlyKeepsInvariant

LEMMA PrepareKeeps == ASSUME TInv, NEW r \in TransferRequests, Prepare(r) PROVE TInv'
<1>1. /\ TransferTypeOK /\ req[r].at = "prepare"
      /\ store' = store /\ queue' = queue /\ exported' = exported /\ kdf' = kdf
  BY DEF TInv, Prepare, At
<1>2. CASE Goto(r, "commit") /\ boundary' = boundary
  <2>1. Only(r) /\ RequestOK(req'[r]) /\ req'[r].at = "commit"
    BY <1>1, <1>2, GotoShape
  <2>2. Early(r)
    BY <1>1, <1>2, <2>1 DEF Early, Saving, Kept, InBoundary
  <2> QED
    BY <1>1, <2>1, <2>2, EarlyKeepsInvariant
<1>3. CASE Refuse(r)
  BY <1>1, <1>3, RefuseKeeps
<1> QED
  BY <1>2, <1>3 DEF Prepare

\* A Credential that a batch writes is the request's.
LEMMA WrittenByBatch ==
  ASSUME NEW r, NEW c, c # Absent => DOMAIN c = Fields, NEW o, o.do # "create" => c # Absent
  PROVE  DOMAIN Apply(r, c, o) = Fields /\ Apply(r, c, o).by = r
<1>1. CASE o.do = "create"
  BY <1>1 DEF Apply, Insertion, Fields
<1>2. CASE o.do # "create"
  <2>1. Apply(r, c, o) = [c EXCEPT !.state = o.rec.state, !.version = o.version + 1, !.by = r]
    BY <1>2 DEF Apply
  <2> QED
    BY <1>2, <2>1 DEF Fields
<1> QED
  BY <1>1, <1>2

LEMMA AppliedIsCollection ==
  ASSUME NEW r \in TransferRequests, CollectionOK(store), Applicable(r)
  PROVE  /\ CollectionOK(Applied(r))
         /\ \A i \in Ids : Applied(r)[i] = store[i] \/ Applied(r)[i].by = r
<1> DEFINE ops == ToSet(req[r].ops)
<1>1. Applied(r) = [i \in Ids |-> IF \E o \in ops : o.id = i THEN Apply(r, store[i], CHOOSE o \in ops : o.id = i)
                                 ELSE store[i]]
  BY DEF Applied
<1>2. \A o \in ops : o.do # "create" => store[o.id] # Absent
  BY DEF Applicable
<1> HIDE DEF ops
<1>3. ASSUME NEW i \in Ids
      PROVE  /\ Applied(r)[i] # Absent => DOMAIN Applied(r)[i] = Fields
             /\ Applied(r)[i] = store[i] \/ Applied(r)[i].by = r
  <2>1. CASE \E o \in ops : o.id = i
    <3> DEFINE o == CHOOSE o \in ops : o.id = i
    <3>1. o \in ops /\ o.id = i
      BY <2>1
    <3>2. Applied(r)[i] = Apply(r, store[i], o)
      BY <1>1, <2>1
    <3>3. (store[i] # Absent => DOMAIN store[i] = Fields) /\ (o.do # "create" => store[i] # Absent)
      BY <1>2, <3>1 DEF CollectionOK
    <3> HIDE DEF o
    <3> QED
      BY <3>2, <3>3, WrittenByBatch
  <2>2. CASE ~\E o \in ops : o.id = i
    BY <1>1, <2>2 DEF CollectionOK
  <2> QED
    BY <2>1, <2>2
<1> QED
  BY <1>1, <1>3 DEF CollectionOK

LEMMA CommitKeeps == ASSUME TInv, NEW r \in TransferRequests, Commit(r) PROVE TInv'
<1>1. /\ TransferTypeOK /\ req[r].at = "commit" /\ queue = Nil /\ exported' = exported /\ kdf' = kdf
      /\ RequestOK(req[r]) /\ CollectionOK(store) /\ req = [q \in TransferRequests |-> req[q]]
  BY DEF TInv, TransferTypeOK, Commit, At
<1>2. CASE Refuse(r) /\ UNCHANGED <<store, queue>>
  BY <1>1, <1>2, RefuseKeeps
<1>3. CASE /\ Applicable(r) /\ store' = Applied(r) /\ queue' = r /\ boundary' = boundary
           /\ req' = [req EXCEPT ![r].before = store, ![r].at = "record"]
  <2>1. Only(r) /\ req'[r] = [req[r] EXCEPT !.before = store, !.at = "record"]
    BY <1>1, <1>3 DEF Only
  <2>2. /\ DOMAIN req'[r] = DOMAIN NoRequest /\ req'[r].at = "record" /\ req'[r].before = store
        /\ req'[r].strategy = req[r].strategy /\ req'[r].file = req[r].file /\ req'[r].read = req[r].read
    BY <1>1, <2>1 DEF RequestOK, NoRequest
  <2>3. RequestOK(req'[r])
    BY <1>1, <2>2 DEF RequestOK
  <2>4. /\ CollectionOK(store')
        /\ \A i \in Ids : store'[i] = store[i] \/ store'[i].by = r
    BY <1>1, <1>3, AppliedIsCollection
  <2>5. \A q \in TransferRequests : req[q].at \notin Saving
    BY <1>1, TransferAssumption DEF TInv, LocksFit
  <2>6. TransferTypeOK'
    <3>1. \A q \in TransferRequests : RequestOK(req'[q])
      BY <2>1, <2>3 DEF TInv, TransferTypeOK, Only
    <3>2. req' = [q \in TransferRequests |-> req'[q]]
      BY <2>1 DEF Only
    <3>3. (exported' # Nil => FileOK(exported')) /\ kdf' \in Nat
      BY <1>1 DEF TransferTypeOK
    <3> QED
      BY <2>4, <3>1, <3>2, <3>3 DEF TransferTypeOK, CollectionOK, RequestOK, FileOK
  <2>7. LocksFit'
    <3>1. \A q \in TransferRequests : q # r => req'[q] = req[q]
      BY <2>1 DEF Only
    <3>2. boundary # Nil => boundary \in TransferRequests /\ req'[boundary].at \in InBoundary
      BY <2>2, <3>1 DEF TInv, LocksFit, InBoundary, Saving
    <3> QED
      BY <1>3, <2>2, <2>5, <3>1, <3>2 DEF LocksFit, Saving
  <2>8. ASSUME NEW i \in Present(store), store[i].by \in TransferRequests
        PROVE  req[store[i].by].at \in Kept
    BY <2>5, <2>8 DEF TInv, WritersFit
  <2>9. \A q \in TransferRequests : q # r => req'[q] = req[q]
    BY <2>1 DEF Only
  <2>10. WritersFit'
    <3>1. ASSUME NEW i \in Ids, store'[i] # Absent, store'[i].by \in TransferRequests
          PROVE  req'[store'[i].by].at \in Saving \cup Kept
      <4>1. CASE store'[i].by = r
        BY <2>2, <4>1 DEF Saving
      <4>2. CASE store'[i].by # r
        <5>1. store'[i] = store[i] /\ i \in Present(store)
          BY <2>4, <3>1, <4>2 DEF Present
        <5>2. req[store[i].by].at \in Kept
          BY <2>8, <3>1, <5>1
        <5> QED
          BY <2>9, <3>1, <4>2, <5>1, <5>2
      <4> QED
        BY <4>1, <4>2
    <3> QED
      BY <3>1 DEF WritersFit, Present
  <2>11. BeforeFits'
    <3>1. ASSUME NEW q \in TransferRequests, req'[q].at \in Saving,
                 NEW i \in Ids, req'[q].before[i] # Absent, req'[q].before[i].by \in TransferRequests
          PROVE  req'[req'[q].before[i].by].at \in Kept
      <4>1. q = r /\ req'[q].before = store
        BY <2>2, <2>5, <2>9, <3>1
      <4>2. i \in Present(store) /\ req[store[i].by].at \in Kept
        BY <2>8, <3>1, <4>1 DEF Present
      <4>3. store[i].by # r
        BY <1>1, <4>2 DEF Kept
      <4> QED
        BY <2>9, <3>1, <4>1, <4>2, <4>3
    <3> QED
      BY <3>1 DEF BeforeFits, Present
  <2>12. kdf' = Cardinality(Deriving')
    BY <1>1, <2>1, <2>2, SameDeriving DEF TInv
  <2> QED
    BY <2>6, <2>7, <2>10, <2>11, <2>12 DEF TInv
<1> QED
  BY <1>2, <1>3, Zenon DEF Commit

\* The request that holds the queue ends: what it held is free, and what is stored is what
\* it wrote, if it is kept, or what was there before.
LEMMA LastStepKeeps ==
  ASSUME TInv, NEW r \in TransferRequests, req[r].at \in Saving, queue' = Nil, boundary' = Nil,
         NEW how \in {"imported", "refused", "stuck"}, End(r, how),
         IF how = "refused" THEN store' = req[r].before ELSE store' = store,
         UNCHANGED <<exported, kdf>>
  PROVE  TInv'
<1>1. /\ TransferTypeOK /\ RequestOK(req[r]) /\ CollectionOK(store) /\ queue = r
  BY DEF TInv, TransferTypeOK, LocksFit
<1>2. Only(r) /\ RequestOK(req'[r]) /\ req'[r].at = how
  BY <1>1, EndShape
<1>3. \A q \in TransferRequests : q # r => req'[q] = req[q] /\ req[q].at \notin Saving
  BY <1>1, <1>2 DEF Only, TInv, LocksFit
<1>4. \A q \in TransferRequests : req'[q].at \notin Saving
  BY <1>2, <1>3 DEF Saving
<1>5. TransferTypeOK'
  <2>1. \A q \in TransferRequests : RequestOK(req'[q])
    BY <1>2 DEF TInv, TransferTypeOK, Only
  <2>2. req' = [q \in TransferRequests |-> req'[q]]
    BY <1>2 DEF Only
  <2>3. CollectionOK(store') /\ (exported' # Nil => FileOK(exported')) /\ kdf' \in Nat
    BY <1>1 DEF TransferTypeOK, RequestOK
  <2> QED
    BY <2>1, <2>2, <2>3 DEF TransferTypeOK, CollectionOK, RequestOK, FileOK
<1>6. LocksFit' /\ BeforeFits'
  BY <1>4 DEF LocksFit, BeforeFits
<1>7. WritersFit'
  <2>1. ASSUME NEW i \in Ids, store'[i] # Absent, store'[i].by \in TransferRequests
        PROVE  req'[store'[i].by].at \in Saving \cup Kept
    <3>1. CASE how = "refused"
      <4>1. store'[i] = req[r].before[i] /\ i \in Present(req[r].before)
        BY <2>1, <3>1 DEF Present
      <4>2. req[store'[i].by].at \in Kept
        BY <2>1, <4>1 DEF TInv, BeforeFits
      <4>3. store'[i].by # r
        BY <4>2 DEF Kept, Saving
      <4> QED
        BY <1>3, <2>1, <4>2, <4>3
    <3>2. CASE how # "refused"
      <4>1. store'[i] = store[i] /\ i \in Present(store)
        BY <2>1, <3>2 DEF Present
      <4>2. req[store'[i].by].at \in Saving \cup Kept
        BY <2>1, <4>1 DEF TInv, WritersFit
      <4> QED
        BY <1>2, <1>3, <2>1, <3>2, <4>2 DEF Kept
    <3> QED
      BY <3>1, <3>2
  <2> QED
    BY <2>1 DEF WritersFit, Present
<1>8. kdf' = Cardinality(Deriving')
  BY <1>2, SameDeriving DEF TInv, Saving
<1> QED
  BY <1>5, <1>6, <1>7, <1>8 DEF TInv

LEMMA RecordKeeps == ASSUME TInv, NEW r \in TransferRequests, Record(r) PROVE TInv'
<1>1. /\ TransferTypeOK /\ req[r].at = "record" /\ req[r].at \in Saving /\ queue = r
      /\ store' = store /\ exported' = exported /\ kdf' = kdf
  BY DEF TInv, Record, At, Saving, LocksFit
<1>2. CASE End(r, "imported") /\ queue' = Nil /\ boundary' = Nil
  BY <1>1, <1>2, LastStepKeeps
<1>3. CASE Goto(r, "undo") /\ queue' = queue /\ boundary' = boundary
  <2>1. Only(r) /\ RequestOK(req'[r]) /\ req'[r].at = "undo" /\ req'[r].before = req[r].before
    BY <1>1, <1>3, GotoShape
  <2>2. \A q \in TransferRequests : q # r => req'[q] = req[q]
    BY <2>1 DEF Only
  <2>3. TransferTypeOK'
    <3>1. \A q \in TransferRequests : RequestOK(req'[q])
      BY <2>1 DEF TInv, TransferTypeOK, Only
    <3>2. req' = [q \in TransferRequests |-> req'[q]]
      BY <2>1 DEF Only
    <3>3. CollectionOK(store') /\ (exported' # Nil => FileOK(exported')) /\ kdf' \in Nat
      BY <1>1 DEF TransferTypeOK
    <3> QED
      BY <3>1, <3>2, <3>3 DEF TransferTypeOK, CollectionOK, RequestOK, FileOK
  <2>4. \A q \in TransferRequests : req'[q].at = req[q].at \/ (q = r /\ req'[q].at \in Saving)
    BY <2>1, <2>2 DEF Saving
  <2>5. \A q \in TransferRequests : req'[q].before = req[q].before
    BY <2>1, <2>2
  <2>6. LocksFit'
    BY <1>1, <1>3, <2>4 DEF TInv, LocksFit, InBoundary
  <2>7. WritersFit'
    <3>1. ASSUME NEW i \in Ids, store[i] # Absent, store[i].by \in TransferRequests
          PROVE  req'[store[i].by].at \in Saving \cup Kept
      BY <2>4, <3>1 DEF TInv, WritersFit, Present
    <3> QED
      BY <1>1, <3>1 DEF WritersFit, Present
  <2>8. BeforeFits'
    <3>1. ASSUME NEW q \in TransferRequests, req'[q].at \in Saving,
                 NEW i \in Ids, req[q].before[i] # Absent, req[q].before[i].by \in TransferRequests
          PROVE  req'[req[q].before[i].by].at \in Kept
      <4>1. req[q].at \in Saving
        BY <1>1, <2>4, <3>1
      <4>2. req[req[q].before[i].by].at \in Kept
        BY <3>1, <4>1 DEF TInv, BeforeFits, Present
      <4>3. req[q].before[i].by # r
        BY <1>1, <4>2 DEF Kept
      <4> QED
        BY <2>2, <3>1, <4>2, <4>3
    <3> QED
      BY <2>5, <3>1 DEF BeforeFits, Present
  <2>9. kdf' = Cardinality(Deriving')
    BY <1>1, <2>1, SameDeriving DEF TInv
  <2> QED
    BY <2>3, <2>6, <2>7, <2>8, <2>9 DEF TInv
<1> QED
  BY <1>2, <1>3 DEF Record

LEMMA UndoKeeps == ASSUME TInv, NEW r \in TransferRequests, UndoBatch(r) PROVE TInv'
<1>1. /\ req[r].at \in Saving /\ queue' = Nil /\ boundary' = Nil /\ exported' = exported /\ kdf' = kdf
  BY DEF UndoBatch, At, Saving
<1>2. CASE store' = req[r].before /\ End(r, "refused")
  BY <1>1, <1>2, LastStepKeeps
<1>3. CASE End(r, "stuck") /\ store' = store
  BY <1>1, <1>3, LastStepKeeps
<1> QED
  BY <1>2, <1>3 DEF UndoBatch, BeforeBatch

\* Other changes have no request as their writer.
LEMMA ChangeKeeps ==
  ASSUME TInv, UNCHANGED <<exported, req, kdf, boundary, queue>>, CollectionOK(store'),
         \A i \in Ids : store'[i] \in {store[i], Absent} \/ store'[i].by = NoOne
  PROVE  TInv'
<1>1. TransferTypeOK' /\ LocksFit' /\ BeforeFits'
  BY DEF TInv, TransferTypeOK, LocksFit, BeforeFits, CollectionOK, RequestOK, FileOK, Present
<1>2. ASSUME NEW i \in Ids, store'[i] # Absent, store'[i].by \in TransferRequests
      PROVE  req[store'[i].by].at \in Saving \cup Kept
  <2>1. store'[i] = store[i]
    BY <1>2, TransferAssumption
  <2> QED
    BY <1>2, <2>1 DEF TInv, WritersFit, Present
<1>3. WritersFit'
  BY <1>2 DEF WritersFit, Present
<1>4. kdf' = Cardinality(Deriving')
  BY DEF TInv, Deriving, At
<1> QED
  BY <1>1, <1>3, <1>4 DEF TInv

LEMMA OthersKeep ==
  ASSUME TInv,
         \/ \E i \in Ids : Edit(i) \/ Delete(i)
         \/ \E acct : Register(acct)
  PROVE  TInv'
<1>1. CollectionOK(store)
  BY DEF TInv, TransferTypeOK
<1>2. ASSUME NEW i \in Ids, Edit(i) PROVE TInv'
  <2>1. PICK state \in {"live", "revoked"} :
          store' = [store EXCEPT ![i].version = @ + 1, ![i].state = state, ![i].by = NoOne]
    BY <1>2 DEF Edit
  <2>2. store[i] # Absent /\ UNCHANGED <<exported, req, kdf, boundary, queue>>
    BY <1>2 DEF Edit, Others
  <2>3. DOMAIN store[i] = Fields /\ store = [j \in Ids |-> store[j]]
    BY <1>1, <2>2 DEF CollectionOK
  <2>4. store' = [store EXCEPT ![i] = [store[i] EXCEPT !.version = @ + 1, !.state = state, !.by = NoOne]]
    BY <2>1, <2>3
  <2>5. DOMAIN store'[i] = Fields /\ store'[i].by = NoOne
    BY <2>3, <2>4 DEF Fields
  <2>6. \A j \in Ids : j # i => store'[j] = store[j]
    BY <2>3, <2>4
  <2>7. CollectionOK(store')
    <3>1. store' = [j \in Ids |-> store'[j]]
      BY <2>3, <2>4
    <3> QED
      BY <1>1, <2>5, <2>6, <3>1 DEF CollectionOK
  <2> QED
    BY <2>2, <2>5, <2>6, <2>7, ChangeKeeps
<1>3. ASSUME NEW i \in Ids, Delete(i) PROVE TInv'
  <2>1. store' = [store EXCEPT ![i] = Absent] /\ UNCHANGED <<exported, req, kdf, boundary, queue>>
    BY <1>3 DEF Delete, Others
  <2>2. CollectionOK(store') /\ \A j \in Ids : store'[j] \in {store[j], Absent}
    BY <1>1, <2>1 DEF CollectionOK
  <2> QED
    BY <2>1, <2>2, ChangeKeeps
<1>4. ASSUME NEW acct, Register(acct) PROVE TInv'
  <2> DEFINE new == [acct |-> acct, link |-> Nil, gen |-> 0, state |-> "live", version |-> 1,
                     key |-> minted + 1, by |-> NoOne]
  <2>1. /\ store' = [store EXCEPT ![minted + 1] = new] /\ minted + 1 \in Ids
        /\ UNCHANGED <<exported, req, kdf, boundary, queue>>
    BY <1>4 DEF Register, Others
  <2>2. DOMAIN new = Fields /\ new.by = NoOne
    BY DEF Fields
  <2> HIDE DEF new
  <2>3. CollectionOK(store') /\ \A j \in Ids : store'[j] = store[j] \/ store'[j].by = NoOne
    BY <1>1, <2>1, <2>2 DEF CollectionOK
  <2> QED
    BY <2>1, <2>3, ChangeKeeps
<1> QED
  BY <1>2, <1>3, <1>4

LEMMA StutterKeeps == ASSUME TInv, UNCHANGED transferVars PROVE TInv'
BY DEF TInv, TransferTypeOK, LocksFit, WritersFit, BeforeFits, CollectionOK, RequestOK, FileOK, Present,
       Deriving, At, transferVars

LEMMA NextKeeps == ASSUME TInv, [TransferNext]_transferVars PROVE TInv'
<1>1. ASSUME NEW r \in TransferRequests, Step(r) PROVE TInv'
  BY <1>1, DeriveKeeps, ListKeeps, ReadTombstonesKeeps, EnterKeeps, PrepareKeeps, CommitKeeps, RecordKeeps,
     UndoKeeps DEF Step
<1>2. ASSUME NEW r \in TransferRequests, NEW kind, NEW t \in Files, NEW s \in Strategies, Submit(r, kind, t, s)
      PROVE  TInv'
  BY <1>2, SubmitKeeps
<1>3. CASE TransferNext
  BY <1>1, <1>2, <1>3, ExportKeeps, OthersKeep DEF TransferNext
<1>4. CASE UNCHANGED transferVars
  BY <1>4, StutterKeeps
<1> QED
  BY <1>3, <1>4

LEMMA InvariantHolds == TransferSpec => []TInv
<1>1. TransferInit => TInv
  BY InitHolds
<1>2. TInv /\ [TransferNext]_transferVars => TInv'
  BY NextKeeps
<1> QED
  BY <1>1, <1>2, PTL DEF TransferSpec

\* The requests, their plans and the locks they hold keep their types, through every
\* interleaving of previews, imports, exports and what others change.
THEOREM RequestsStayTyped == TransferSpec => []TransferTypeOK
<1>1. TInv => TransferTypeOK
  BY DEF TInv
<1> QED
  BY <1>1, InvariantHolds, PTL

\* Whoever has been answered holds no lock and no slot of key derivations, and what a
\* refused import had written is gone again, whatever failed and whoever came between.
THEOREM AnswersHoldNothing == TransferSpec => []AnsweredHoldsNothing
<1>1. ASSUME TInv PROVE AnsweredHoldsNothing
  <2>1. ASSUME NEW r \in TransferRequests, req[r].at \in Resting PROVE r \notin {boundary, queue}
    BY <1>1, <2>1, TransferAssumption DEF TInv, LocksFit, Resting, InBoundary, Saving
  <2>2. ASSUME NEW r \in TransferRequests, At(r, "refused"), NEW i \in Present(store) PROVE store[i].by # r
    BY <1>1, <2>2 DEF TInv, WritersFit, At, Saving, Kept
  <2>3. kdf = Cardinality({r \in TransferRequests : At(r, "derive")})
    BY <1>1 DEF TInv, Deriving
  <2> QED
    BY <2>1, <2>2, <2>3 DEF AnsweredHoldsNothing
<1> QED
  BY <1>1, InvariantHolds, PTL

\* No column of a table makes a Secret a custom value that is shown in the clear, for
\* every table, whatever its header and its cells, and every set of provider fields.
THEOREM CsvKeepsSecrets == TransferSpec => []CsvSecretsStaySecret
<1>1. CsvSecretsStaySecret
  BY CsvTablesKeepSecrets
<1> QED
  BY <1>1, PTL

-----------------------------------------------------------------------------
\* One recursive function after the other: it exists, so it is what its recursion says.
PlanOf(r, k, before) ==
  IF k = 0 THEN [ops |-> <<>>, seen |-> req[r].read, next |-> req[r].base + Len(req[r].file) + 1]
  ELSE Planned(r, before, req[r].file[k], req[r].strategy)

LEMMA PlanExists ==
  ASSUME NEW r, NEW n \in Nat PROVE \E f : f = [k \in 0 .. n |-> PlanOf(r, k, f[k - 1])]
<1> DEFINE S == {m \in Nat : \E f : f = [k \in 0 .. m |-> PlanOf(r, k, f[k - 1])]}
<1>1. 0 \in S
  <2> DEFINE f == [k \in 0 .. 0 |-> PlanOf(r, 0, 0)]
  <2>1. f = [k \in 0 .. 0 |-> PlanOf(r, k, f[k - 1])]
    BY DEF PlanOf
  <2> QED
    BY <2>1
<1>2. ASSUME NEW m \in S PROVE m + 1 \in S
  <2>1. m \in Nat /\ \E f : f = [k \in 0 .. m |-> PlanOf(r, k, f[k - 1])]
    OBVIOUS
  <2>2. PICK f : f = [k \in 0 .. m |-> PlanOf(r, k, f[k - 1])]
    BY <2>1
  <2> DEFINE g == [k \in 0 .. m + 1 |-> IF k = m + 1 THEN PlanOf(r, k, f[m]) ELSE f[k]]
  <2>3. ASSUME NEW k \in 0 .. m + 1 PROVE g[k] = PlanOf(r, k, g[k - 1])
    <3>1. CASE k = m + 1
      <4>1. g[m] = f[m] /\ k - 1 = m
        BY <2>1, <3>1
      <4> QED
        BY <3>1, <4>1
    <3>2. CASE k # m + 1
      <4>1. k \in 0 .. m /\ g[k] = f[k] /\ f[k] = PlanOf(r, k, f[k - 1])
        BY <2>1, <2>2, <3>2
      <4>2. k # 0 => g[k - 1] = f[k - 1]
        BY <2>1, <4>1
      <4> QED
        BY <4>1, <4>2 DEF PlanOf
    <3> QED
      BY <3>1, <3>2
  <2>4. DOMAIN g = 0 .. m + 1 /\ g = [k \in 0 .. m + 1 |-> g[k]]
    OBVIOUS
  <2> HIDE DEF g
  <2>5. g = [k \in 0 .. m + 1 |-> PlanOf(r, k, g[k - 1])]
    BY <2>3, <2>4
  <2> QED
    BY <2>1, <2>5
<1>3. S = Nat
  BY <1>1, <1>2, InductiveSet
<1> QED
  BY <1>3

LEMMA PlanRecursion ==
  ASSUME NEW r, Len(req[r].file) \in Nat, NEW k \in 0 .. Len(req[r].file)
  PROVE  PlanUpTo(r)[k] = PlanOf(r, k, PlanUpTo(r)[k - 1])
<1> DEFINE n == Len(req[r].file)
<1>1. \E f : f = [i \in 0 .. n |-> PlanOf(r, i, f[i - 1])]
  BY PlanExists
<1>2. PlanUpTo(r) = CHOOSE f : f = [i \in 0 .. n |-> PlanOf(r, i, f[i - 1])]
  BY DEF PlanUpTo, PlanOf
<1>3. PlanUpTo(r) = [i \in 0 .. n |-> PlanOf(r, i, PlanUpTo(r)[i - 1])]
  BY <1>1, <1>2
<1> QED
  BY <1>3

-----------------------------------------------------------------------------
(* What a plan does to accounts.                                            *)

Creates(o) == o.do = "create" /\ o.id \in Ids /\ o.rec.acct # Unnamed
\* A plan that renames only creates; another creates a Credential for an account only
\* when none had it, and once.
PlanIsLawful(c, ops, strategy) ==
  IF strategy = "rename" THEN \A o \in ops : o.do = "create"
  ELSE \A o \in ops : Creates(o) =>
         /\ \A i \in Present(c) : c[i].acct # o.rec.acct
         /\ \A p \in ops : Creates(p) /\ p.rec.acct = o.rec.acct => p.id = o.id

\* The plan so far, and that what it has seen is what was read and what it creates.
SeesItsOwn(c, plan) ==
  /\ \A i \in Present(c) : i \in Present(plan.seen) /\ plan.seen[i].acct = c[i].acct
  /\ \A o \in ToSet(plan.ops) : Creates(o) => o.id \in Present(plan.seen) /\ plan.seen[o.id].acct = o.rec.acct
SoundPlan(c, plan, strategy) ==
  /\ plan = [ops |-> plan.ops, seen |-> plan.seen, next |-> plan.next]
  /\ plan.ops \in Seq(ToSet(plan.ops)) /\ plan.seen = [i \in Ids |-> plan.seen[i]]
  /\ strategy # "rename" => SeesItsOwn(c, plan)
  /\ PlanIsLawful(c, ToSet(plan.ops), strategy)

LEMMA AppendedSet ==
  ASSUME NEW s, s \in Seq(ToSet(s)), NEW e
  PROVE  ToSet(Append(s, e)) = ToSet(s) \cup {e} /\ Append(s, e) \in Seq(ToSet(Append(s, e)))
<1> DEFINE S == ToSet(s) \cup {e}  n == Len(s)  t == Append(s, e)
<1>1. n \in Nat /\ DOMAIN s = 1 .. n /\ s \in Seq(S)
  <2>1. n \in Nat /\ DOMAIN s = 1 .. n /\ s \in [1 .. n -> ToSet(s)]
    BY LenProperties
  <2>2. s \in [1 .. n -> S]
    BY <2>1
  <2> QED
    BY <2>1, <2>2, SeqDef
<1>2. /\ t \in Seq(S) /\ Len(t) = n + 1 /\ \A i \in 1 .. n : t[i] = s[i]
      /\ t[n + 1] = e
  BY <1>1, AppendProperties
<1>3. DOMAIN t = 1 .. n + 1
  BY <1>2, LenProperties
<1>4. ToSet(t) = S
  <2>1. \A i \in 1 .. n + 1 : i \in 1 .. n \/ i = n + 1
    BY <1>1
  <2>2. ToSet(t) = {t[i] : i \in 1 .. n + 1}
    BY <1>3 DEF ToSet
  <2>3. ToSet(s) = {s[i] : i \in 1 .. n}
    BY <1>1 DEF ToSet
  <2>4. 1 .. n \subseteq 1 .. n + 1 /\ n + 1 \in 1 .. n + 1
    BY <1>1
  <2> QED
    BY <1>2, <2>1, <2>2, <2>3, <2>4
<1> QED
  BY <1>2, <1>4

\* What no conflict means: neither the identity nor the account is taken.
LEMMA NoConflict ==
  ASSUME NEW c, NEW rec, ConflictWith(c, rec) = Nil
  PROVE  /\ rec.id \notin Present(c)
         /\ rec.acct # Unnamed => \A i \in Present(c) : c[i].acct # rec.acct
<1>1. Present(c) \subseteq Nat /\ Nil \notin Nat
  BY NumbersUpTo, TransferAssumption DEF Present
<1>2. rec.id \notin Present(c)
  BY <1>1 DEF ConflictWith
<1>3. ASSUME rec.acct # Unnamed PROVE Matching(c, rec) = {}
  <2>1. Counterpart(c, rec) = Nil
    BY <1>2, <1>3 DEF ConflictWith
  <2>2. Matching(c, rec) \in SUBSET Nat
    BY <1>1 DEF Matching
  <2>3. Matching(c, rec) # {} => FirstOf(Matching(c, rec)) \in Nat
    BY <2>2, FirstIsLeast
  <2> QED
    BY <1>1, <1>2, <2>1, <2>3 DEF Counterpart
<1> QED
  BY <1>2, <1>3 DEF Matching, SameAccount

LEMMA OverwriteStaysSound ==
  ASSUME NEW c, NEW plan, NEW strategy, strategy # "rename", SoundPlan(c, plan, strategy),
         NEW o, o.do # "create"
  PROVE  SoundPlan(c, [plan EXCEPT !.ops = Append(@, o)], strategy)
<1> DEFINE new == [plan EXCEPT !.ops = Append(@, o)]
<1>1. new.ops = Append(plan.ops, o) /\ new.seen = plan.seen /\ new = [ops |-> new.ops, seen |-> new.seen, next |-> new.next]
  BY DEF SoundPlan
<1>2. ToSet(new.ops) = ToSet(plan.ops) \cup {o} /\ new.ops \in Seq(ToSet(new.ops))
  BY <1>1, AppendedSet DEF SoundPlan
<1> HIDE DEF new
<1>3. SeesItsOwn(c, new)
  BY <1>1, <1>2 DEF SoundPlan, SeesItsOwn, Creates
<1>4. PlanIsLawful(c, ToSet(new.ops), strategy)
  BY <1>2 DEF SoundPlan, PlanIsLawful, Creates
<1> QED
  BY <1>1, <1>2, <1>3, <1>4 DEF SoundPlan, new

LEMMA CreateStaysSound ==
  ASSUME NEW r, NEW c, NEW plan, NEW strategy, SoundPlan(c, plan, strategy), NEW rec, NEW next,
         strategy # "rename" => ConflictWith(plan.seen, rec) = Nil
  PROVE  SoundPlan(c, [ops |-> Append(plan.ops, [do |-> "create", id |-> rec.id, rec |-> rec, version |-> 0]),
                       seen |-> [plan.seen EXCEPT ![rec.id] = Insertion(r, rec)],
                       next |-> next], strategy)
<1> DEFINE o == [do |-> "create", id |-> rec.id, rec |-> rec, version |-> 0]
           new == [ops |-> Append(plan.ops, o), seen |-> [plan.seen EXCEPT ![rec.id] = Insertion(r, rec)],
                   next |-> next]
<1>1. /\ new.ops = Append(plan.ops, o) /\ new = [ops |-> new.ops, seen |-> new.seen, next |-> new.next]
      /\ new.seen = [plan.seen EXCEPT ![rec.id] = Insertion(r, rec)]
      /\ o.do = "create" /\ o.id = rec.id /\ o.rec = rec
  OBVIOUS
<1>2. ToSet(new.ops) = ToSet(plan.ops) \cup {o} /\ new.ops \in Seq(ToSet(new.ops))
  BY <1>1, AppendedSet DEF SoundPlan
<1>3. Insertion(r, rec).acct = rec.acct /\ Insertion(r, rec) # Absent
  <2>1. DOMAIN Insertion(r, rec) # {} /\ Insertion(r, rec).acct = rec.acct
    BY DEF Insertion
  <2>2. DOMAIN Absent = {}
    BY DEF Absent
  <2> QED
    BY <2>1, <2>2
<1> HIDE DEF new, o
<1>4. /\ new.seen = [i \in Ids |-> new.seen[i]]
      /\ \A i \in Ids : i # rec.id => new.seen[i] = plan.seen[i]
      /\ rec.id \in Ids => rec.id \in Present(new.seen) /\ new.seen[rec.id].acct = rec.acct
  BY <1>1, <1>3 DEF SoundPlan, Present
<1>5. CASE strategy = "rename"
  <2>1. PlanIsLawful(c, ToSet(new.ops), strategy)
    BY <1>1, <1>2, <1>5 DEF SoundPlan, PlanIsLawful
  <2> QED
    BY <1>1, <1>2, <1>4, <1>5, <2>1 DEF SoundPlan, new, o
<1>6. CASE strategy # "rename"
  <2>1. /\ rec.id \notin Present(plan.seen)
        /\ rec.acct # Unnamed => \A i \in Present(plan.seen) : plan.seen[i].acct # rec.acct
    BY <1>6, NoConflict
  <2>2. \A i \in Present(plan.seen) : i \in Present(new.seen) /\ new.seen[i] = plan.seen[i]
    BY <1>4, <2>1 DEF Present
  <2>3. SeesItsOwn(c, plan) /\ PlanIsLawful(c, ToSet(plan.ops), strategy)
    BY <1>6 DEF SoundPlan
  <2>4. SeesItsOwn(c, new)
    <3>1. \A i \in Present(c) : i \in Present(new.seen) /\ new.seen[i].acct = c[i].acct
      BY <2>2, <2>3 DEF SeesItsOwn
    <3>2. ASSUME NEW p \in ToSet(new.ops), Creates(p)
          PROVE  p.id \in Present(new.seen) /\ new.seen[p.id].acct = p.rec.acct
      <4>1. CASE p = o
        BY <1>1, <1>4, <3>2, <4>1 DEF Creates
      <4>2. CASE p \in ToSet(plan.ops)
        BY <2>2, <2>3, <3>2, <4>2 DEF SeesItsOwn
      <4> QED
        BY <1>2, <4>1, <4>2
    <3> QED
      BY <3>1, <3>2 DEF SeesItsOwn
  <2>5. ASSUME Creates(o), NEW p \in ToSet(plan.ops), Creates(p) PROVE p.rec.acct # o.rec.acct
    <3>1. p.id \in Present(plan.seen) /\ plan.seen[p.id].acct = p.rec.acct
      BY <2>3, <2>5 DEF SeesItsOwn
    <3> QED
      BY <1>1, <2>1, <2>5, <3>1 DEF Creates
  <2>6. ASSUME Creates(o), NEW i \in Present(c) PROVE c[i].acct # o.rec.acct
    BY <1>1, <2>1, <2>3, <2>6 DEF Creates, SeesItsOwn
  <2>7. PlanIsLawful(c, ToSet(new.ops), strategy)
    <3>1. ASSUME NEW p \in ToSet(new.ops), Creates(p), NEW i \in Present(c) PROVE c[i].acct # p.rec.acct
      BY <1>2, <1>6, <2>3, <2>6, <3>1 DEF PlanIsLawful
    <3>2. ASSUME NEW p \in ToSet(new.ops), Creates(p), NEW q \in ToSet(new.ops), Creates(q), q.rec.acct = p.rec.acct
          PROVE  q.id = p.id
      BY <1>2, <1>6, <2>3, <2>5, <3>2 DEF PlanIsLawful
    <3> QED
      BY <1>6, <3>1, <3>2 DEF PlanIsLawful
  <2> QED
    BY <1>1, <1>2, <1>4, <2>4, <2>7 DEF SoundPlan, new, o
<1> QED
  BY <1>5, <1>6

LEMMA PlannedStaysSound ==
  ASSUME NEW r, NEW c, NEW plan, NEW strategy \in {"skip", "overwrite", "rename"},
         SoundPlan(c, plan, strategy), NEW rec
  PROVE  SoundPlan(c, Planned(r, plan, rec, strategy), strategy)
<1> DEFINE conflict == ConflictWith(plan.seen, rec)
           created == IF conflict = Nil THEN rec ELSE Renamed(plan.seen, rec, plan.next, req[r].base)
           next == IF conflict = Nil THEN plan.next ELSE plan.next + 1
           over == [do |-> "overwrite", id |-> conflict, rec |-> rec, version |-> plan.seen[conflict].version]
           made == [ops |-> Append(plan.ops, [do |-> "create", id |-> created.id, rec |-> created, version |-> 0]),
                    seen |-> [plan.seen EXCEPT ![created.id] = Insertion(r, created)],
                    next |-> next]
<1>1. Planned(r, plan, rec, strategy) =
        CASE conflict # Nil /\ strategy = "skip" -> plan
          [] conflict # Nil /\ strategy = "overwrite" -> [plan EXCEPT !.ops = Append(@, over)]
          [] OTHER -> made
  BY DEF Planned
<1>2. SoundPlan(c, [plan EXCEPT !.ops = Append(@, over)], "overwrite") \/ strategy # "overwrite"
  <2>1. over.do # "create"
    OBVIOUS
  <2> HIDE DEF over
  <2> QED
    BY <2>1, OverwriteStaysSound
<1>3. (strategy # "rename" /\ conflict # Nil) \/ SoundPlan(c, made, strategy)
  <2>1. conflict = Nil => created = rec
    OBVIOUS
  <2>2. ASSUME strategy # "rename" => conflict = Nil PROVE SoundPlan(c, made, strategy)
    <3>1. strategy # "rename" => ConflictWith(plan.seen, created) = Nil
      BY <2>1, <2>2
    <3> HIDE DEF created, next
    <3> QED
      BY <3>1, CreateStaysSound
  <2> HIDE DEF made, conflict
  <2> QED
    BY <2>2
<1> HIDE DEF conflict, made, over
<1>4. CASE conflict # Nil /\ strategy = "skip"
  BY <1>1, <1>4
<1>5. CASE conflict # Nil /\ strategy = "overwrite"
  <2>1. Planned(r, plan, rec, strategy) = [plan EXCEPT !.ops = Append(@, over)]
    BY <1>1, <1>5
  <2> QED
    BY <1>2, <1>5, <2>1
<1>6. CASE conflict = Nil \/ strategy = "rename"
  BY <1>1, <1>3, <1>6
<1> QED
  BY <1>4, <1>5, <1>6

LEMMA PlanIsSound ==
  ASSUME NEW r, RequestOK(req[r])
  PROVE  PlanIsLawful(req[r].read, ToSet(Plan(r).ops), req[r].strategy)
<1> DEFINE n == Len(req[r].file)  c == req[r].read  strategy == req[r].strategy
           S == {k \in Nat : k <= n => SoundPlan(c, PlanUpTo(r)[k], strategy)}
<1>1. n \in Nat /\ strategy \in {"skip", "overwrite", "rename"} /\ CollectionOK(c)
  BY DEF RequestOK
<1>2. 0 \in S
  <2> DEFINE first == [ops |-> <<>>, seen |-> c, next |-> req[r].base + n + 1]
  <2>1. PlanUpTo(r)[0] = first
    BY <1>1, PlanRecursion DEF PlanOf
  <2>2. ToSet(<<>>) = {} /\ <<>> \in Seq(ToSet(<<>>))
    BY DEF ToSet
  <2>3. first.ops = <<>> /\ first.seen = c /\ first = [ops |-> first.ops, seen |-> first.seen, next |-> first.next]
    OBVIOUS
  <2> HIDE DEF first, c
  <2>4. SeesItsOwn(c, first) /\ PlanIsLawful(c, ToSet(first.ops), strategy)
    BY <2>2, <2>3 DEF SeesItsOwn, PlanIsLawful
  <2>5. SoundPlan(c, first, strategy)
    BY <1>1, <2>2, <2>3, <2>4 DEF SoundPlan, CollectionOK
  <2> QED
    BY <2>1, <2>5
<1>3. ASSUME NEW k \in S PROVE k + 1 \in S
  <2>1. SUFFICES ASSUME k + 1 <= n PROVE SoundPlan(c, PlanUpTo(r)[k + 1], strategy)
    OBVIOUS
  <2>2. k <= n /\ k + 1 \in 0 .. n /\ k + 1 # 0 /\ (k + 1) - 1 = k
    BY <1>1, <2>1
  <2>3. PlanUpTo(r)[k + 1] = Planned(r, PlanUpTo(r)[k], req[r].file[k + 1], strategy)
    <3>1. PlanUpTo(r)[k + 1] = PlanOf(r, k + 1, PlanUpTo(r)[(k + 1) - 1])
      BY <1>1, <2>2, PlanRecursion
    <3> QED
      BY <2>2, <3>1 DEF PlanOf
  <2>4. SoundPlan(c, PlanUpTo(r)[k], strategy)
    BY <2>2
  <2> HIDE DEF c, strategy, S
  <2> QED
    BY <1>1, <2>3, <2>4, PlannedStaysSound
<1>4. S = Nat
  <2> HIDE DEF S
  <2>1. S \subseteq Nat
    BY DEF S
  <2> QED
    BY <1>2, <1>3, <2>1, InductiveSet
<1>5. SoundPlan(c, Plan(r), strategy)
  BY <1>1, <1>4 DEF Plan
<1> QED
  BY <1>5 DEF SoundPlan

-----------------------------------------------------------------------------
(* The plans of the requests under way, and what a commit does with one.    *)

Planning == {"enter", "prepare", "commit"}
PlansFit ==
  \A r \in TransferRequests : req[r].at \in Planning =>
    PlanIsLawful(req[r].read, ToSet(req[r].ops), req[r].strategy)

\* A request that has a plan after a step had the same before it, or has just made it.
LEMMA PlansStay ==
  ASSUME TInv, PlansFit, NEW r \in TransferRequests, Only(r),
         req'[r].at \in Planning => PlanIsLawful(req'[r].read, ToSet(req'[r].ops), req'[r].strategy)
  PROVE  PlansFit'
<1>1. ASSUME NEW q \in TransferRequests, req'[q].at \in Planning
      PROVE  PlanIsLawful(req'[q].read, ToSet(req'[q].ops), req'[q].strategy)
  <2>1. CASE q # r
    <3>1. req'[q] = req[q]
      BY <2>1 DEF Only
    <3> QED
      BY <1>1, <3>1 DEF PlansFit
  <2>2. CASE q = r
    BY <1>1, <2>2
  <2> QED
    BY <2>1, <2>2
<1> QED
  BY <1>1 DEF PlansFit, PlanIsLawful, Creates, Present

LEMMA EndKeepsPlans ==
  ASSUME TInv, PlansFit, NEW r \in TransferRequests, NEW how, how \notin Planning, End(r, how) PROVE PlansFit'
<1>1. Only(r) /\ req'[r].at = how
  BY EndShape DEF TInv
<1> QED
  BY <1>1, PlansStay

LEMMA GotoKeepsPlans ==
  ASSUME TInv, PlansFit, NEW r \in TransferRequests, NEW stage, Goto(r, stage),
         stage \in Planning => req[r].at \in Planning
  PROVE  PlansFit'
<1>1. /\ Only(r) /\ req'[r].at = stage /\ req'[r].strategy = req[r].strategy
      /\ req'[r].read = req[r].read /\ req'[r].ops = req[r].ops
  BY GotoShape DEF TInv
<1> QED
  BY <1>1, PlansStay DEF PlansFit

LEMMA NextKeepsPlans == ASSUME TInv, PlansFit, [TransferNext]_transferVars PROVE PlansFit'
<1>0. /\ TransferTypeOK /\ req = [q \in TransferRequests |-> req[q]]
      /\ \A q \in TransferRequests : RequestOK(req[q])
  BY DEF TInv, TransferTypeOK
<1>1. ASSUME NEW r \in TransferRequests, Derive(r) PROVE PlansFit'
  BY <1>1, EndKeepsPlans, GotoKeepsPlans DEF Derive, Planning
<1>2. ASSUME NEW r \in TransferRequests, List(r) PROVE PlansFit'
  <2>1. Only(r) /\ req'[r] = [req[r] EXCEPT !.read = store, !.at = "tombs"]
    BY <1>0, <1>2 DEF List, Only
  <2>2. req'[r].at = "tombs"
    BY <1>0, <2>1 DEF RequestOK, NoRequest
  <2> QED
    BY <2>1, <2>2, PlansStay DEF Planning
<1>3. ASSUME NEW r \in TransferRequests, ReadTombstones(r) PROVE PlansFit'
  <2>1. CASE End(r, "answered") \/ End(r, "refused") \/ End(r, "imported")
    BY <2>1, EndKeepsPlans DEF Planning
  <2>2. CASE req' = [req EXCEPT ![r].barred = tombs, ![r].ops = Plan(r).ops, ![r].at = "enter"]
    <3>1. Only(r) /\ req'[r] = [req[r] EXCEPT !.barred = tombs, !.ops = Plan(r).ops, !.at = "enter"]
      BY <1>0, <2>2 DEF Only
    <3>2. req'[r].read = req[r].read /\ req'[r].ops = Plan(r).ops /\ req'[r].strategy = req[r].strategy
      BY <1>0, <3>1 DEF RequestOK, NoRequest
    <3> QED
      BY <1>0, <3>1, <3>2, PlanIsSound, PlansStay
  <2> QED
    BY <1>3, <2>1, <2>2 DEF ReadTombstones
<1>4. ASSUME NEW r \in TransferRequests, EnterBoundary(r) PROVE PlansFit'
  BY <1>4, GotoKeepsPlans DEF EnterBoundary, At, Planning
<1>5. ASSUME NEW r \in TransferRequests, Prepare(r) PROVE PlansFit'
  BY <1>5, GotoKeepsPlans, EndKeepsPlans DEF Prepare, Refuse, At, Planning
<1>6. ASSUME NEW r \in TransferRequests, Commit(r) PROVE PlansFit'
  <2>1. CASE Refuse(r)
    BY <2>1, EndKeepsPlans DEF Refuse, Planning
  <2>2. CASE req' = [req EXCEPT ![r].before = store, ![r].at = "record"]
    <3>1. Only(r) /\ req'[r] = [req[r] EXCEPT !.before = store, !.at = "record"]
      BY <1>0, <2>2 DEF Only
    <3>2. req'[r].at = "record"
      BY <1>0, <3>1 DEF RequestOK, NoRequest
    <3> QED
      BY <3>1, <3>2, PlansStay DEF Planning
  <2> QED
    BY <1>6, <2>1, <2>2, Zenon DEF Commit
<1>7. ASSUME NEW r \in TransferRequests, Record(r) \/ UndoBatch(r) \/ Export(r) PROVE PlansFit'
  BY <1>7, EndKeepsPlans, GotoKeepsPlans DEF Record, UndoBatch, Export, Planning
<1>8. ASSUME NEW r \in TransferRequests, NEW kind, NEW t \in Files, NEW s \in Strategies, Submit(r, kind, t, s)
      PROVE  PlansFit'
  <2>1. PICK begin : req' = [req EXCEPT ![r] = begin] /\ begin.at \in {"derive", "list", "refused"}
    <3> DEFINE records == CASE t.form # "csv" -> t.records
                            [] t.form = "csv" /\ Acceptable(t) -> FromCsv(t.sheet)
                            [] OTHER -> <<>>
               begun == [NoRequest EXCEPT !.kind = kind, !.strategy = s, !.base = minted,
                                          !.file = Identified(records)]
    <3>1. PICK begin :
            /\ req' = [req EXCEPT ![r] = begin]
            /\ \/ begin = [begun EXCEPT !.at = "derive", !.sealed = t.right]
               \/ begin = [begun EXCEPT !.at = "list"]
               \/ begin = [NoRequest EXCEPT !.kind = kind, !.at = "refused"]
      BY <1>8, Zenon DEF Submit
    <3> HIDE DEF records
    <3>2. begin.at \in {"derive", "list", "refused"}
      BY <3>1 DEF NoRequest
    <3> QED
      BY <3>1, <3>2
  <2>2. Only(r) /\ req'[r] = begin
    BY <1>0, <2>1 DEF Only
  <2> QED
    BY <2>1, <2>2, PlansStay DEF Planning
<1>9. CASE UNCHANGED req
  BY <1>9 DEF PlansFit, PlanIsLawful, Creates, Present
<1>10. CASE TransferNext
  <2>1. ASSUME NEW r \in TransferRequests, Step(r) PROVE PlansFit'
    BY <2>1, <1>1, <1>2, <1>3, <1>4, <1>5, <1>6, <1>7 DEF Step
  <2>2. ASSUME NEW i, NEW acct, Edit(i) \/ Delete(i) \/ Register(acct) PROVE PlansFit'
    BY <1>9, <2>2 DEF Edit, Delete, Register, Others
  <2> QED
    BY <1>7, <1>8, <1>10, <2>1, <2>2 DEF TransferNext
<1> QED
  BY <1>9, <1>10 DEF transferVars

\* A commit that does not rename stores a second Credential for no account that had one.
LEMMA CommitAddsNoAmbiguity ==
  ASSUME NEW r \in TransferRequests, CollectionOK(store), Applicable(r), store' = Applied(r),
         req[r].strategy # "rename", PlanIsLawful(store, ToSet(req[r].ops), req[r].strategy)
  PROVE  Ambiguous(store') \subseteq Ambiguous(store)
<1> DEFINE ops == ToSet(req[r].ops)
<1>1. /\ \A o \in ops : Creates(o) => \A i \in Present(store) : store[i].acct # o.rec.acct
      /\ \A o, p \in ops : Creates(o) /\ Creates(p) /\ p.rec.acct = o.rec.acct => p.id = o.id
      /\ \A o \in ops : o.do # "create" => store[o.id] # Absent
  BY DEF PlanIsLawful, Applicable
\* What is stored afterwards for an account was stored for it or is created for it.
<1>2. ASSUME NEW i \in Present(store'), store'[i].acct # Unnamed
      PROVE  \/ i \in Present(store) /\ store[i].acct = store'[i].acct
             \/ \E o \in ops : Creates(o) /\ o.id = i /\ o.rec.acct = store'[i].acct
  <2>0. i \in Ids /\ store'[i] # Absent
    BY DEF Present
  <2>1. CASE \E o \in ops : o.id = i
    <3> DEFINE o == CHOOSE o \in ops : o.id = i
    <3>1. o \in ops /\ o.id = i
      BY <2>1
    <3>2. store'[i] = Apply(r, store[i], o)
      BY <2>0, <2>1 DEF Applied
    <3> HIDE DEF o, ops
    <3>3. CASE o.do = "create"
      BY <1>2, <2>0, <3>1, <3>2, <3>3 DEF Apply, Insertion, Creates
    <3>4. CASE o.do # "create"
      <4>1. i \in Present(store) /\ DOMAIN store[i] = Fields
        BY <1>1, <2>0, <3>1, <3>4 DEF Present, CollectionOK
      <4>2. store'[i].acct = store[i].acct
        BY <3>2, <3>4, <4>1 DEF Apply, Fields
      <4> QED
        BY <4>1, <4>2
    <3> QED
      BY <3>3, <3>4
  <2>2. CASE ~\E o \in ops : o.id = i
    BY <2>0, <2>2 DEF Applied, Present
  <2> QED
    BY <2>1, <2>2
<1> HIDE DEF ops
<1>3. ASSUME NEW a \in Ambiguous(store') PROVE a \in Ambiguous(store)
  <2> DEFINE X == {i \in Present(store) : store[i].acct = a}
             Y == {i \in Present(store') : store'[i].acct = a}
  <2>1. a # Unnamed /\ Cardinality(Y) > 1
    BY DEF Ambiguous
  <2>2. IsFiniteSet(X) /\ IsFiniteSet(Y)
    BY PresentIsFinite, FS_Subset
  <2>3. ASSUME NEW o \in ops, Creates(o), o.rec.acct = a PROVE FALSE
    <3>1. \A i \in Y : i = o.id
      BY <1>1, <1>2, <2>1, <2>3
    <3>2. Y \subseteq {o.id}
      BY <3>1
    <3>3. IsFiniteSet({o.id}) /\ Cardinality({o.id}) = 1
      BY FS_Singleton
    <3>4. Cardinality(Y) <= 1 /\ Cardinality(Y) \in Nat
      BY <2>2, <3>2, <3>3, FS_Subset, FS_CardinalityType
    <3> QED
      BY <2>1, <3>4
  <2>4. Y \subseteq X
    BY <1>2, <2>1, <2>3
  <2>5. Cardinality(Y) <= Cardinality(X) /\ Cardinality(Y) \in Nat /\ Cardinality(X) \in Nat
    BY <2>2, <2>4, FS_Subset, FS_CardinalityType
  <2>6. Cardinality(X) > 1
    BY <2>1, <2>5
  <2>7. X # {}
    <3>1. Cardinality({}) = 0 /\ ~(0 > 1)
      BY FS_EmptySet
    <3> HIDE DEF X
    <3> QED
      BY <2>6, <3>1
  <2>8. a \in {store[i].acct : i \in Present(store)} \ {Unnamed}
    BY <2>1, <2>7
  <2> QED
    BY <2>6, <2>8 DEF Ambiguous
<1> QED
  BY <1>3

LEMMA OnlyCommitRecords ==
  ASSUME TInv, NEW r \in TransferRequests, At(r, "commit"), req'[r].at = "record", [TransferNext]_transferVars
  PROVE  Applicable(r) /\ AdmittedAsReviewed(r, store, tombs) /\ store' = Applied(r)
<1>0. TransferTypeOK /\ req[r].at = "commit" /\ req = [q \in TransferRequests |-> req[q]]
  BY DEF TInv, TransferTypeOK, At
<1>1. ASSUME NEW q \in TransferRequests, q # r, Only(q) PROVE FALSE
  BY <1>0, <1>1 DEF Only
<1>2. ASSUME NEW q \in TransferRequests, NEW how, how # "record", End(q, how) \/ Goto(q, how) PROVE FALSE
  BY <1>0, <1>1, <1>2, EndShape, GotoShape
<1>3. ASSUME NEW q \in TransferRequests, NEW begin, q # r, req' = [req EXCEPT ![q] = begin] PROVE FALSE
  BY <1>0, <1>3
<1>4. ~UNCHANGED req
  BY <1>0
<1>5. PICK q \in TransferRequests :
        Step(q) \/ Export(q) \/ \E kind, t, s : Submit(q, kind, t, s)
  BY <1>4, Zenon DEF TransferNext, transferVars, Edit, Delete, Register, Others
<1>6. Commit(q)
  <2>1. ~(Derive(q) \/ EnterBoundary(q) \/ Prepare(q) \/ Record(q) \/ UndoBatch(q) \/ Export(q))
    BY <1>2 DEF Derive, EnterBoundary, Prepare, Refuse, Record, UndoBatch, Export
  <2>2. ASSUME List(q) PROVE FALSE
    <3>1. q # r
      BY <1>0, <2>2 DEF List, At
    <3>2. Only(q)
      BY <1>0, <2>2 DEF List, Only
    <3> QED
      BY <1>1, <3>1, <3>2
  <2>3. ASSUME ReadTombstones(q) PROVE FALSE
    <3>1. q # r
      BY <1>0, <2>3 DEF ReadTombstones, At
    <3>2. End(q, "answered") \/ End(q, "refused") \/ End(q, "imported") \/ Only(q)
      BY <1>0, <2>3 DEF ReadTombstones, Only
    <3> QED
      BY <1>1, <1>2, <3>1, <3>2
  <2>4. ASSUME NEW kind, NEW t, NEW s, Submit(q, kind, t, s) PROVE FALSE
    <3>1. q # r
      BY <1>0, <2>4 DEF Submit, At
    <3>2. PICK begin : req' = [req EXCEPT ![q] = begin]
      BY <2>4, Zenon DEF Submit
    <3> QED
      BY <1>3, <3>1, <3>2
  <2> QED
    BY <1>5, <2>1, <2>2, <2>3, <2>4 DEF Step
<1>7. ~Refuse(q)
  BY <1>2 DEF Refuse
<1>8. /\ Applicable(q) /\ AdmittedAsReviewed(q, store, tombs) /\ store' = Applied(q)
      /\ req' = [req EXCEPT ![q].before = store, ![q].at = "record"]
  BY <1>6, <1>7 DEF Commit
<1>9. q = r
  BY <1>0, <1>8
<1> QED
  BY <1>8, <1>9

\* An import adds no Credential to an account that has one, for every file, strategy and
\* order of registrations, deletions and other imports before its commit.
THEOREM ImportsKeepAccountsApart == TransferSpec => AccountsStayDistinct
<1>1. TransferInit => PlansFit
  BY DEF TransferInit, PlansFit, NoRequest, Planning
<1>2. TInv /\ PlansFit /\ [TransferNext]_transferVars => PlansFit'
  BY NextKeepsPlans
<1>3. ASSUME TInv, PlansFit, [TransferNext]_transferVars,
             NEW r \in TransferRequests, At(r, "commit"), req'[r].at = "record"
      PROVE  IF req[r].strategy = "rename"
             THEN \A i \in Present(store) : store'[i] = store[i]
             ELSE Ambiguous(store') \subseteq Ambiguous(store)
  <2>1. Applicable(r) /\ store = req[r].read /\ store' = Applied(r) /\ CollectionOK(store)
    BY <1>3, OnlyCommitRecords DEF AdmittedAsReviewed, TInv, TransferTypeOK
  <2>2. PlanIsLawful(store, ToSet(req[r].ops), req[r].strategy)
    BY <1>3, <2>1 DEF PlansFit, At, Planning
  <2>3. ASSUME req[r].strategy = "rename", NEW i \in Present(store) PROVE store'[i] = store[i]
    <3>1. ~\E o \in ToSet(req[r].ops) : o.id = i
      BY <2>1, <2>2, <2>3 DEF PlanIsLawful, Applicable, Present
    <3> QED
      BY <2>1, <2>3, <3>1 DEF Applied, Present
  <2> QED
    BY <2>1, <2>2, <2>3, CommitAddsNoAmbiguity
<1>4. TInv /\ PlansFit /\ [TransferNext]_transferVars =>
        [\A r \in TransferRequests : (At(r, "commit") /\ req'[r].at = "record") =>
           IF req[r].strategy = "rename"
           THEN \A i \in Present(store) : store'[i] = store[i]
           ELSE Ambiguous(store') \subseteq Ambiguous(store)]_transferVars
  BY <1>3
<1> QED
  BY <1>1, <1>2, <1>4, InvariantHolds, PTL DEF TransferSpec, AccountsStayDistinct

=============================================================================
