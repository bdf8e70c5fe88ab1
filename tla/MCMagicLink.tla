---------------------------- MODULE MCMagicLink ----------------------------
(* MagicLink on small instances: tokens and callers are interchangeable.   *)
EXTENDS MagicLink, TLC

Symmetry == Permutations(Tokens) \cup Permutations(Calls)
=============================================================================
