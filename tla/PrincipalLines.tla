---------------------------- MODULE PrincipalLines ----------------------------
(***************************************************************************)
(* What the access management promises of a user identity: it is admitted  *)
(* once, under one generation, and a removed identity never comes back.    *)
(* The promise ends where a restore is undone, which puts the users of an  *)
(* earlier moment back, whatever became of them since.                     *)
(***************************************************************************)
CONSTANT UserIds

VARIABLES line,      \* the state of each identity's line
          undone     \* a restore has been undone

LineStates == {"unused", "current", "removed"}

Init == line = [u \in UserIds |-> "unused"] /\ undone = FALSE

\* Identities are admitted, or removed, possibly several at a time (a restore
\* removes every user that its backup does not have).
Change(S, from, to) ==
  /\ \A u \in S : line[u] = from
  /\ line' = [u \in UserIds |-> IF u \in S THEN to ELSE line[u]]
  /\ UNCHANGED undone

Undo == /\ undone' = TRUE
        /\ IF undone THEN line' \in [UserIds -> LineStates] ELSE UNCHANGED line

Next == \/ \E S \in SUBSET UserIds : \/ Change(S, "unused", "current")
                                   \/ Change(S, "current", "removed")
        \/ Undo

Spec == Init /\ [][Next]_<<line, undone>>
=============================================================================
