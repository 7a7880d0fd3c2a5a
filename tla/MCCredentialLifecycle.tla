------------------------- MODULE MCCredentialLifecycle -------------------------
(* CredentialLifecycle with operations that TLC may exchange, and the        *)
(* scenarios of its runs.  A rollback and an import never share one: their   *)
(* locks are taken in opposite orders (CommitLocks).                         *)
EXTENDS CredentialLifecycle, TLC

CONSTANTS WithHistoryFaults, WithAllFaults, WithoutFaults   \* sets of kinds

Every == {"store", "history", "audit", "crash"}

MCScenarios ==
  {[kinds |-> k, starts |-> 3, faults |-> {"history"}] : k \in WithHistoryFaults}
    \cup {[kinds |-> k, starts |-> 2, faults |-> Every] : k \in WithAllFaults}
    \cup {[kinds |-> k, starts |-> 3, faults |-> {}] : k \in WithoutFaults}

MCSecrets == Ops \cup {InitialSecret}
Symmetry == Permutations(Ops)
=============================================================================
