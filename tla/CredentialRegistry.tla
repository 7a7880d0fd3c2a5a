------------------------- MODULE CredentialRegistry -------------------------
(***************************************************************************)
(* What the Credential collection promises its callers, without files,     *)
(* locks or failures: a registry of Credentials by identity, and the set   *)
(* of identities that were deleted and may never return.  A step changes   *)
(* any number of Credentials at once (a save touches one, a transfer       *)
(* import many) or retires one identity for good.                          *)
(*                                                                         *)
(* CredentialStore is shown to implement this registry through every       *)
(* failed write, failed rollback and crash.                                *)
(***************************************************************************)

EXTENDS CredentialData

VARIABLES reg,        \* the Credential stored under each identity, or None
          dead        \* deleted identities: the deletion tombstones

registryVars == <<reg, dead>>

-----------------------------------------------------------------------------
Init == /\ reg \in Collection
        /\ UniqueKeys(reg)
        /\ dead \in SUBSET (Ids \ Stored(reg))

Amend == /\ reg' \in Collection
         /\ Lawful(reg, reg', dead)
         /\ UniqueKeys(reg')
         /\ UNCHANGED dead

Retire(i) == /\ reg[i] # None
             /\ reg' = [reg EXCEPT ![i] = None]
             /\ dead' = dead \cup {i}

Next == Amend \/ \E i \in Ids : Retire(i)

Spec == Init /\ [][Next]_registryVars
=============================================================================
