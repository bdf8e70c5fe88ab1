---------------------------- MODULE MCOAuthFlow ----------------------------
\* OAuthFlow with two flows of a session, two users, and exchanges that interleave.
EXTENDS OAuthFlow, TLC

CONSTANTS f1, f2, s1, u1, u2, c1, c2

Form(signed, iss, tid, aud, azp) ==
    [signed |-> signed, iss |-> iss, tid |-> tid, aud |-> aud, azp |-> azp]

\* Tokens as they should be, and each with one thing wrong.
MCForms == {
    Form(TRUE, "tenant", "tenant", {"us"}, None),
    Form(TRUE, "tenant", "tenant", {"us", "them"}, "us"),
    Form(FALSE, "tenant", "tenant", {"us"}, None),
    Form(TRUE, "tenant", "other", {"us"}, None),
    Form(TRUE, "other", "tenant", {"us"}, None),
    Form(TRUE, "tenant", None, {"us"}, None),
    Form(TRUE, "tenant", "tenant", {"them"}, None),
    Form(TRUE, "tenant", "tenant", {"us", "them"}, "them")}

World(pkce, mixed, crossed, atOnce) ==
    [pkce |-> pkce, mixed |-> mixed, crossed |-> crossed, atOnce |-> atOnce]

\* One protection at a time: the states, PKCE, the nonce.
MCWorlds == {World(FALSE, FALSE, FALSE, 2), World(TRUE, TRUE, FALSE, 2),
             World(FALSE, TRUE, TRUE, 1)}

Symmetric == Permutations({f1, f2}) \cup Permutations({u1, u2}) \cup Permutations({c1, c2})
=============================================================================
