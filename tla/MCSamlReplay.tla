---------------------------- MODULE MCSamlReplay ----------------------------
(* SamlReplay on small instances: assertions and calls are                 *)
(* interchangeable.                                                        *)
EXTENDS SamlReplay, TLC

MCSigned == [idpInitiated |-> FALSE, unsigned |-> FALSE, certificate |-> TRUE]
MCUnsigned == [idpInitiated |-> FALSE, unsigned |-> TRUE, certificate |-> FALSE]
MCConfigs == {MCSigned, MCUnsigned, [MCSigned EXCEPT !.idpInitiated = TRUE]}

Symmetry == Permutations(Ids) \cup Permutations(Calls)
=============================================================================
