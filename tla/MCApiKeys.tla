----------------------------- MODULE MCApiKeys -----------------------------
(* ApiKeys on small instances: keys and callers are interchangeable.       *)
EXTENDS ApiKeys, TLC

Symmetry == Permutations(Keys) \cup Permutations(Calls)
=============================================================================
