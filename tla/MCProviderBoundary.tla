-------------------------- MODULE MCProviderBoundary --------------------------
(***************************************************************************)
(* Both sides of the provider framework: the definitions of a custom       *)
(* provider (CustomProviders), and the calls of the built-in ones          *)
(* (ProviderCalls).  A custom provider has no adapter to call, so the      *)
(* sides share no state, and one of them moves.                            *)
(***************************************************************************)
EXTENDS CustomProviders, ProviderCalls, TLC

VARIABLE side              \* "definitions" or "calls"

Private == <<10, 0, 0, 5>>
Public == <<93, 184, 216, 34>>
Public6 == <<\h2606, \h2800, 0, 0, 0, 0, 0, 1>>
\* The same private address behind NAT64.
Translated == <<\h64, \hFF9B, 0, 0, 0, 0, 10 * 256, 5>>

\* A public name, in both families; one that is also, or only, private; none.
MCLookups == {<<Public6, Public>>, <<Public, Private>>, <<Private>>, <<Public, Translated>>, <<>>}

\* Connection tests of the stored FTP host may go to 10.0.0.0/8.
MCPolicy ==
  [allowPrivateNetworks |-> TRUE,
   exceptions |-> {[request |-> [protocol |-> "ftp", host |-> "stored",
                                 purpose |-> "CREDENTIAL_CONNECTION_TEST"],
                    blocks |-> {[network |-> <<10, 0, 0, 0>>, bits |-> 8]}]}]

BoundaryInit ==
  /\ Init /\ CallsInit
  /\ side \in {"definitions", "calls"}
  /\ side = "definitions" =>
       account.provider = "openai" /\ account.profile = "verified" /\ account.method # "unbound" /\ account.bound

BoundaryNext ==
  /\ UNCHANGED side
  /\ \/ side = "definitions" /\ Next /\ UNCHANGED callVars
     \/ side = "calls" /\ CallsNext /\ UNCHANGED vars

BoundarySpec == BoundaryInit /\ [][BoundaryNext]_<<side, vars, callVars>>

Symmetry == Permutations(Calls)
=============================================================================
