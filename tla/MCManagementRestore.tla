------------------------- MODULE MCManagementRestore -------------------------
(* ManagementRestore with two identities, in three scenarios: one restore    *)
(* that may have to be undone; one beside users whose roles change; two.     *)
EXTENDS ManagementRestore

CONSTANTS admin, viewer, r1, r2

Scenario(roles, restores, faults) ==
  [roles |-> roles, restores |-> restores, faults |-> faults]

MCRoles == {admin, viewer}
MCRestores == {r1, r2}
MCScenarios == {Scenario({admin}, {r1}, {"write", "audit", "crash"}),
                Scenario({admin, viewer}, {r1}, {}),
                Scenario({admin}, {r1, r2}, {"write", "crash"})}
=============================================================================
