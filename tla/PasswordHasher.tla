--------------------------- MODULE PasswordHasher ---------------------------
(***************************************************************************)
(* PasswordHasher (src/password.rs): its settings, what it makes of a      *)
(* password, which stored hashes it verifies and which it asks to replace. *)
(*                                                                         *)
(* A hash is kept as the password it commits to and the settings it was    *)
(* made with; salts and encodings are left out.  bcrypt and argon2 are     *)
(* external.  A hash that some older, truncating bcrypt made of a longer   *)
(* password commits to the first 72 bytes of it.                           *)
(***************************************************************************)
EXTENDS Naturals, Sequences

CONSTANTS
    Passwords,
    Long,      \* the passwords of more than BCRYPT_MAX_PASSWORD_BYTES
    First72,   \* what bcrypt would read of each password
    Hashers    \* the hashers the application builds

Algorithms == {"Bcrypt", "Argon2"}
Formats == {"bcrypt", "argon2id", "argon2i", "foreign"}

\* PasswordHasher::new; argon2 is the triple of memory, iterations, parallelism.
Default(a) == [algorithm |-> a, argon2 |-> <<65536, 3, 1>>, bcrypt |-> 12]

\* The builders refuse a cost outside the range of the algorithm.
BcryptCostOk(cost) == cost \in 4..31
Argon2ParamsOk(m, t, p) == p >= 1 /\ t >= 1 /\ m >= 8 * p

WithBcryptCost(h, cost) == IF BcryptCostOk(cost) THEN {[h EXCEPT !.bcrypt = cost]} ELSE {}
WithArgon2Params(h, m, t, p) ==
    IF Argon2ParamsOk(m, t, p) THEN {[h EXCEPT !.argon2 = <<m, t, p>>]} ELSE {}

ASSUME HasherAssumption ==
    /\ Long \subseteq Passwords
    /\ First72 \in [Passwords -> Passwords \ Long]
    /\ \A p \in Passwords \ Long : First72[p] = p
    /\ \A h \in Hashers :
          /\ h.algorithm \in Algorithms
          /\ BcryptCostOk(h.bcrypt)
          /\ Argon2ParamsOk(h.argon2[1], h.argon2[2], h.argon2[3])

\* The settings a hasher gives to what it hashes.
SettingsOf(h) ==
    IF h.algorithm = "Bcrypt" THEN [format |-> "bcrypt", cost |-> <<h.bcrypt>>]
    ELSE [format |-> "argon2id", cost |-> h.argon2]

\* Hashing: no hash (an error) of a password bcrypt would truncate.
HashTruncating(h, p) ==
    {[password |-> IF h.algorithm = "Bcrypt" THEN First72[p] ELSE p, made |-> SettingsOf(h)]}
HashOrEmpty(h, p) ==
    {[password |-> IF h.algorithm = "Bcrypt" /\ p \in Long THEN "" ELSE p,
      made |-> SettingsOf(h)]}
Hash(h, p) ==
    IF h.algorithm = "Bcrypt" /\ p \in Long THEN {}
    ELSE {[password |-> p, made |-> SettingsOf(h)]}

\* Verification goes by the format of the hash, whatever the hasher is set to;
\* a foreign hash is an error and a long password is never bcrypt's.
Readable(hash) == hash.made.format # "foreign"

VerifiesTruncating(p, hash) ==
    (IF hash.made.format = "bcrypt" THEN First72[p] ELSE p) = hash.password
Verifies(p, hash) ==
    /\ hash.made.format = "bcrypt" => p \notin Long
    /\ p = hash.password

\* The hash computations that verifying p takes.
Work(p, made) == IF made.format = "bcrypt" /\ p \in Long THEN <<>> ELSE <<made>>

NeedsRehash(h, made) ==
    IF h.algorithm = "Bcrypt" THEN made.format # "bcrypt" \/ made.cost[1] < h.bcrypt
    ELSE \/ made.format # "argon2id"
         \/ made.cost[1] < h.argon2[1]
         \/ made.cost[2] < h.argon2[2]
         \/ made.cost[3] # h.argon2[3]
=============================================================================
