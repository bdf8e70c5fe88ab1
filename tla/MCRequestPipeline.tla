------------------------- MODULE MCRequestPipeline -------------------------
(* Chains of up to three layers, two token managers, and tokens that are right *)
(* or wrong in one thing.                                                      *)
EXTENDS RequestPipeline

Jwt(m, required, subject, names, permissions) ==
    [kind |-> "jwt", manager |-> m, required |-> required, subject |-> subject, names |-> names,
     permissions |-> permissions]
Strategy(required) ==
    [kind |-> "strategy", manager |-> "m1", required |-> required, subject |-> "sub",
     names |-> "roles", permissions |-> "permissions"]
Guard(kind, need, all) == [kind |-> kind, need |-> need, all |-> all]

MCMiddlewares == {Jwt("m1", TRUE, "sub", "roles", "permissions"),
                  Jwt("m1", FALSE, "sub", "roles", "permissions"),
                  Jwt("m1", FALSE, "uid", "groups", "scope"),
                  Jwt("m2", FALSE, "sub", "roles", "permissions")}
MCGuards == {Guard("auth", {}, TRUE), Guard("role", {}, FALSE), Guard("role", {"a"}, FALSE),
             Guard("role", {"a", "b"}, TRUE), Guard("permission", {}, TRUE),
             Guard("permission", {"a", "b"}, FALSE), Guard("core_auth", {}, TRUE),
             Guard("core_roles", {"a"}, FALSE)}
MCLayers == MCMiddlewares \cup MCGuards \cup {Strategy(TRUE), Strategy(FALSE)}
                \cup {[kind |-> "roles", roles |-> {"b"}]}

MCChains == UNION {[1 .. n -> MCLayers] : n \in 0 .. 3}

T(scheme, key, use, exp, sub, r, p) ==
    [scheme |-> scheme, key |-> key, use |-> use, exp |-> exp, sub |-> sub, uid |-> "v",
     roles |-> r, groups |-> {"a"}, permissions |-> p, scope |-> {"b"}]
MCTokens == {T("Bearer", "m1", "access", 1, "u", {"a", NotAString}, {"b"}),
             T("bearer", "m1", "access", 0, "u", {"a", "b"}, {}),
             T("Bearer", "m1", "refresh", 1, "u", {"a"}, {"a"}),
             T("Bearer", "m2", "access", 1, "u", {"b"}, {NotAString}),
             T("Bearer", "m1", "access", 1, "", {"a"}, {}),
             T("Bearer", "m1", "access", 1, None, {}, {"a"})}
=============================================================================
