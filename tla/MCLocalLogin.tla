---------------------------- MODULE MCLocalLogin ----------------------------
\* LocalLogin with two concurrent logins of a user on two strategies, each with
\* the default hasher or an older one, and a password that bcrypt would cut to
\* another one.  The parameters 19456, 2, 1 are those of the earlier default.
EXTENDS LocalLogin, TLC

CONSTANTS c1, c2, s1, s2, u1, long, cut

MCCalls == {c1, c2}
MCStrategies == {s1, s2}
MCUsers == {u1}
MCPasswords == {long, cut}
MCLong == {long}
MCFirst72 == [p \in MCPasswords |-> IF p = long THEN cut ELSE p]
MCHashers ==
    {Default("Argon2")} \cup WithBcryptCost(Default("Bcrypt"), 10)
        \cup WithBcryptCost(Default("Bcrypt"), 3)
        \cup WithArgon2Params(Default("Argon2"), 19456, 2, 1)
        \cup WithArgon2Params(Default("Argon2"), 7, 1, 1)
MCLegacy == {[format |-> "bcrypt", cost |-> <<4>>],
             [format |-> "argon2i", cost |-> <<65536, 3, 1>>],
             [format |-> "foreign", cost |-> <<>>]}

Symmetry == Permutations(MCCalls) \cup Permutations(MCStrategies)
=============================================================================
