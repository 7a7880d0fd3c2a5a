------------------------------ MODULE MCOAuthFlow ------------------------------
EXTENDS OAuthFlow

CONSTANTS f1, f2, c1, c2, ann

StarterDef == [f \in Flows |-> ann]
Same2 == Permutations({c1, c2}) \cup Permutations({f1, f2})
=============================================================================
