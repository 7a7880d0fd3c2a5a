--------------------------- MODULE MCAbuseAdmission ---------------------------
(***************************************************************************)
(* Both halves of AbuseAdmission.decide: the token buckets a request pays  *)
(* from and the leases it takes afterwards.  They share no state, and each *)
(* module leaves the answer of the other half open (RequestAdmission: any  *)
(* lease may be refused; AdmissionLeases: any request may come), so what   *)
(* holds of either half with the other at rest holds of both together.     *)
(*                                                                         *)
(* The buckets: one source and one user ask for containment, a change and  *)
(* Bootstrap.  Two buckets of a domain are made before late comers share   *)
(* one, and six in all, so shared buckets and a full table both happen.    *)
(* The leases: two operational classes, one limited, one that only the     *)
(* global class counts.                                                    *)
(***************************************************************************)
EXTENDS RequestAdmission

VARIABLE half            \* the half that moves: "buckets" or "leases"

AdmissionInit == Init /\ NoLeases /\ half \in {"buckets", "leases"}

AdmissionNext ==
  /\ UNCHANGED half
  /\ \/ half = "buckets" /\ Next /\ UNCHANGED leaseVars
     \/ half = "leases" /\ LeaseNext /\ UNCHANGED vars

Passing == half = "leases" /\ Tick /\ UNCHANGED <<vars, half>>
Cleaning == half = "leases" /\ ExpireLeases /\ UNCHANGED <<vars, half>>

\* Time passes and requests keep coming; a handler need not return.
AdmissionSpec == /\ AdmissionInit /\ [][AdmissionNext]_<<vars, leaseVars, half>>
                 /\ WF_leaseVars(Passing) /\ WF_leaseVars(Cleaning)

-----------------------------------------------------------------------------
All == Classes \cup {ContainmentTotal}

MCCapacity == [p \in All |-> 1]
MCRefillEvery == [p \in All |-> 1]
MCQuota == [d \in Domains |-> IF d = "actor" THEN 1 ELSE 2]

\* An administrator, and a user without rights.
MCRoles == {{}, {"api-tokens:manage", "credentials:manage"}}

CONSTANTS MutationLimit, ContainmentLimit, BootstrapLimit, GlobalLimit

Limits == [c \in LeaseClasses |->
            CASE c = "MANAGEMENT_MUTATION" -> MutationLimit
              [] c = Containment -> ContainmentLimit
              [] c = Bootstrap -> BootstrapLimit
              [] c = Emergency -> GlobalLimit
              [] OTHER -> 0]
=============================================================================
