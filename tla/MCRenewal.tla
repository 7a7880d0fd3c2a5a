------------------------------ MODULE MCRenewal ------------------------------
(* Two Credentials of which the second cannot be refreshed.                  *)
EXTENDS Renewal

Fit == [method |-> "bound", scopes |-> TRUE,
        capabilities |-> {"refresh", "validation"}, profile |-> "current"]
MCTraits == <<Fit, [Fit EXCEPT !.capabilities = {"validation"}]>>
=============================================================================
