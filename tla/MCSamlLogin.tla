---------------------------- MODULE MCSamlLogin ----------------------------
(* SamlLogin on small instances.  Deployments differ from the usual one in what *)
(* their logins depend on; responses are good or have one flaw.             *)
EXTENDS SamlLogin, TLC

MCUsual ==
    [entityId |-> TRUE, acsUrl |-> TRUE, metadata |-> "xml", endpoint |-> TRUE,
     certificate |-> TRUE, keys |-> "pair", unsigned |-> FALSE, idpInitiated |-> FALSE,
     required |-> Attributes, relay |-> FALSE, keeps |-> FALSE, cache |-> "memory"]

MCDeployments ==
    {MCUsual,
     [MCUsual EXCEPT !.keeps = TRUE, !.cache = "shared", !.keys = "none"],
     [MCUsual EXCEPT !.idpInitiated = TRUE, !.relay = TRUE, !.cache = "shared"],
     [MCUsual EXCEPT !.idpInitiated = TRUE, !.keeps = TRUE],
     [MCUsual EXCEPT !.unsigned = TRUE, !.certificate = FALSE, !.required = {}],
     [MCUsual EXCEPT !.certificate = FALSE],
     [MCUsual EXCEPT !.keys = "certificate", !.idpInitiated = TRUE],
     [MCUsual EXCEPT !.keys = "unreadable"],
     [MCUsual EXCEPT !.endpoint = FALSE, !.idpInitiated = TRUE],
     [MCUsual EXCEPT !.metadata = "url"],
     [MCUsual EXCEPT !.metadata = "unparsable"],
     [MCUsual EXCEPT !.acsUrl = FALSE]}

MCGood == [signed |-> TRUE, ours |-> TRUE, named |-> {}, nicknamed |-> Attributes,
           nameId |-> TRUE, id |-> TRUE]
MCForms ==
    {MCGood, [MCGood EXCEPT !.signed = FALSE], [MCGood EXCEPT !.ours = FALSE],
     [MCGood EXCEPT !.nicknamed = {}], [MCGood EXCEPT !.nameId = FALSE],
     [MCGood EXCEPT !.id = FALSE]}

Symmetry ==
    Permutations(Sessions) \cup Permutations(Requests) \cup Permutations(Assertions)
        \cup Permutations(Processes) \cup Permutations(Calls)
=============================================================================
