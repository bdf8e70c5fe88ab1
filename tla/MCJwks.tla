------------------------------- MODULE MCJwks -------------------------------
\* Jwks with two keys and two concurrent verifications.
EXTENDS Jwks, TLC

CONSTANTS c1, c2, k1, k2

MCKids == {k1, k2}
MCPair == {c1, c2}

KidSymmetry == Permutations(MCKids) \cup Permutations(MCPair)
=============================================================================
