----------------------------- MODULE LocalLogin -----------------------------
(***************************************************************************)
(* LocalStrategy::authenticate (src/strategy.rs) over a LocalUserStore and *)
(* the password hasher, followed by AuthService::validate (src/lib.rs) on  *)
(* the user it returns: lookup, verification, transparent rehash on login, *)
(* and the dummy hash that equalizes the time an unknown user takes.       *)
(*                                                                         *)
(* Several strategies, whose hashers may differ (old and new servers of    *)
(* one application), share a store.  Logins run concurrently with each     *)
(* other and with what the application does to its users, split where they *)
(* await the store or the blocking pool.  The store is external.           *)
(***************************************************************************)
EXTENDS PasswordHasher, FiniteSets

CONSTANTS
    Strategies,  \* LocalStrategy values
    Users,       \* usernames that may be presented
    Calls,       \* concurrent logins
    Legacy,      \* settings of the hashes the store begins with
    MaxChanges,  \* bound on what the application changes
    Empty,       \* the empty string, kept for a dummy hash that failed
    None

Settings == Legacy \cup {SettingsOf(h) : h \in Hashers}
Hashes == [password : Passwords, made : Settings]
UserRecords == [hash : Hashes, active : BOOLEAN]

ASSUME LocalLoginAssumption ==
    /\ None \notin Settings \cup UserRecords
    /\ Empty \notin Settings
    /\ MaxChanges \in Nat

VARIABLES
    attached,  \* the strategies with a user store
    hasher,    \* the hasher of each strategy
    stored,    \* the hash and the active flag of each user, None if unknown
    dummy,     \* the OnceLock dummy_hash of each strategy: None until set
    call,      \* what each login is running
    answer,    \* history: what the last step answered to a login, None if nothing
    had,       \* history: password and active flag of the user while the login runs
    spent,     \* history: the settings of each hash the login has computed
    cold,      \* history: running logins that began before their strategy had a dummy hash
    failed,    \* history: running logins for which the hasher failed
    changes    \* history: changes the application made

vars == <<attached, hasher, stored, dummy, call, answer, had, spent, cold, failed, changes>>

Steps == {"find", "verify", "rehash", "update", "equalize", "fill", "burn", "validate"}
Results == {"ok", "refused", "inactive", "error"}
CallState == [pc : Steps \cup {"idle"}, by : Strategies \cup {None},
              user : Users \cup {None}, password : Passwords \cup {None},
              seen : UserRecords \cup {None}]
Idle == [pc |-> "idle", by |-> None, user |-> None, password |-> None, seen |-> None]
Answers == [to : Calls, result : Results, spent : Seq(Settings), failed : BOOLEAN]

\* No bcrypt hash commits to more than 72 bytes.
Stored == {r \in UserRecords : /\ r.hash.made \in Legacy
                               /\ r.hash.made.format = "bcrypt" => r.hash.password \notin Long}

Init ==
    /\ attached \in SUBSET Strategies
    /\ hasher \in [Strategies -> Hashers]
    /\ stored \in [Users -> Stored \cup {None}]
    /\ dummy = [s \in Strategies |-> None]
    /\ call = [c \in Calls |-> Idle]
    /\ answer = None
    /\ had = [c \in Calls |-> {}]
    /\ spent = [c \in Calls |-> <<>>]
    /\ cold = {}
    /\ failed = {}
    /\ changes = 0

-----------------------------------------------------------------------------
Standing(r) == IF r = None THEN {} ELSE {[password |-> r.hash.password, active |-> r.active]}

Using(c) == hasher[call[c].by]

\* Login c computes hashes of the settings in work, or the hasher or the blocking
\* pool fails a hashing or a verification for it; it goes on or is answered.
Goto(c, pc) == call' = [call EXCEPT ![c].pc = pc] /\ answer' = None

GoesOn(c, pc, work, fails) ==
    /\ Goto(c, pc)
    /\ spent' = [spent EXCEPT ![c] = @ \o work]
    /\ failed' = IF fails THEN failed \cup {c} ELSE failed
    /\ UNCHANGED <<had, cold>>

Return(c, r, work, fails) ==
    /\ call' = [call EXCEPT ![c] = Idle]
    /\ answer' = [to |-> c, result |-> r, spent |-> spent[c] \o work,
                  failed |-> fails \/ c \in failed]
    /\ had' = [had EXCEPT ![c] = {}]
    /\ spent' = [spent EXCEPT ![c] = <<>>]
    /\ cold' = cold \ {c}
    /\ failed' = failed \ {c}

\* A login is asked for; without a store it goes straight to equalize_timing.
Begin(c) ==
    /\ call[c].pc = "idle"
    /\ \E s \in Strategies, u \in Users, p \in Passwords :
          /\ call' = [call EXCEPT ![c] =
                        [pc |-> IF s \in attached THEN "find" ELSE "equalize", by |-> s,
                         user |-> u, password |-> p, seen |-> None]]
          /\ had' = [had EXCEPT ![c] = Standing(stored[u])]
          /\ cold' = IF dummy[s] = None THEN cold \cup {c} ELSE cold
    /\ answer' = None
    /\ UNCHANGED <<attached, hasher, stored, dummy, spent, failed, changes>>

\* The store answers find_by_username with the user and the hash.
FindByUsername(c) ==
    LET r == stored[call[c].user] IN
    /\ call[c].pc = "find"
    /\ \/ r = None /\ GoesOn(c, "equalize", <<>>, FALSE)
       \/ /\ r # None
          /\ call' = [call EXCEPT ![c].pc = "verify", ![c].seen = r]
          /\ answer' = None
          /\ UNCHANGED <<had, spent, cold, failed>>
       \/ Return(c, "error", <<>>, FALSE)
    /\ UNCHANGED <<attached, hasher, stored, dummy, changes>>

\* equalize_timing looks for the dummy hash.
Equalize(c) ==
    LET d == dummy[call[c].by] IN
    /\ call[c].pc = "equalize"
    /\ \/ d = None /\ GoesOn(c, "fill", <<>>, FALSE)
       \/ d \in Settings /\ GoesOn(c, "burn", <<>>, FALSE)
       \/ d = Empty /\ Return(c, "refused", <<>>, FALSE)
    /\ UNCHANGED <<attached, hasher, stored, dummy, changes>>

\* The dummy password was hashed, at the cost of any hashing, and gives an empty
\* string if that failed; get_or_init keeps what another call put there first.
Fill(c) ==
    LET s == call[c].by IN
    /\ call[c].pc = "fill"
    /\ \E h \in {SettingsOf(Using(c)), Empty} :
          LET work == IF h = Empty THEN <<>> ELSE <<h>> IN
          /\ dummy' = IF dummy[s] = None THEN [dummy EXCEPT ![s] = h] ELSE dummy
          /\ \/ dummy'[s] # Empty /\ GoesOn(c, "burn", work, h = Empty)
             \/ dummy'[s] = Empty /\ Return(c, "refused", work, h = Empty)
    /\ UNCHANGED <<attached, hasher, stored, changes>>

\* A verification whose result, an error included, is thrown away.
Burn(c) ==
    /\ call[c].pc = "burn"
    /\ \/ Return(c, "refused", Work(call[c].password, dummy[call[c].by]), FALSE)
       \/ Return(c, "refused", <<>>, TRUE)
    /\ UNCHANGED <<attached, hasher, stored, dummy, changes>>

\* PasswordHasher::verify_async on the hash that was read: an unknown format is
\* an error before anything is computed.
Verify(c) ==
    LET hash == call[c].seen.hash
        p == call[c].password
        work == Work(p, hash.made)
    IN
    /\ call[c].pc = "verify"
    /\ \/ ~Readable(hash) /\ Return(c, "error", <<>>, FALSE)
       \/ Readable(hash) /\ ~Verifies(p, hash) /\ Return(c, "refused", work, FALSE)
       \/ /\ Readable(hash) /\ Verifies(p, hash)
          /\ GoesOn(c, IF NeedsRehash(Using(c), hash.made) THEN "rehash" ELSE "validate", work, FALSE)
       \/ Return(c, "error", <<>>, TRUE)
    /\ UNCHANGED <<attached, hasher, stored, dummy, changes>>

\* The password just verified is hashed anew; a failure (also of a password too
\* long for the hasher) does not fail the login.
Rehash(c) ==
    /\ call[c].pc = "rehash"
    /\ \/ /\ Hash(Using(c), call[c].password) # {}
          /\ GoesOn(c, "update", <<SettingsOf(Using(c))>>, FALSE)
       \/ GoesOn(c, "validate", <<>>, TRUE)
    /\ UNCHANGED <<attached, hasher, stored, dummy, changes>>

\* The store takes record r for user u; logins of u that run learn of it.
Stores(u, r) ==
    /\ stored' = [stored EXCEPT ![u] = r]
    /\ had' = [c \in Calls |-> IF call[c].user = u THEN had[c] \cup Standing(r) ELSE had[c]]

\* The store replaces the hash, or (the default, or an error) does not.
UpdatePasswordHash(c) ==
    /\ call[c].pc = "update"
    /\ \/ \E h \in Hash(Using(c), call[c].password) :
             Stores(call[c].user, [stored[call[c].user] EXCEPT !.hash = h])
       \/ UNCHANGED <<stored, had>>
    /\ Goto(c, "validate")
    /\ UNCHANGED <<attached, hasher, dummy, spent, cold, failed, changes>>

\* AuthService::validate on the user value that authenticate returned.
Validate(c) ==
    /\ call[c].pc = "validate"
    /\ Return(c, IF call[c].seen.active THEN "ok" ELSE "inactive", <<>>, FALSE)
    /\ UNCHANGED <<attached, hasher, stored, dummy, changes>>

Changes ==
    /\ changes < MaxChanges
    /\ changes' = changes + 1
    /\ answer' = None
    /\ UNCHANGED <<attached, call, spent, cold, failed>>

\* The application hashes a password with an AuthService, of whichever hasher.
HashPassword(p) == UNION {Hash(h, p) : h \in Hashers}

Register(u) ==
    /\ stored[u] = None
    /\ Changes
    /\ \E p \in Passwords : \E h \in HashPassword(p) : Stores(u, [hash |-> h, active |-> TRUE])
    /\ UNCHANGED <<hasher, dummy>>

\* A user changes its password, if AuthService verifies the old one.
ChangePassword(u) ==
    /\ stored[u] # None
    /\ Readable(stored[u].hash)
    /\ Changes
    /\ \E old, p \in Passwords : \E h \in HashPassword(p) :
          /\ Verifies(old, stored[u].hash)
          /\ p # old
          /\ Stores(u, [stored[u] EXCEPT !.hash = h])
    /\ UNCHANGED <<hasher, dummy>>

\* The application switches a user off or on.
SetActive(u) ==
    /\ stored[u] # None
    /\ Changes
    /\ Stores(u, [stored[u] EXCEPT !.active = ~@])
    /\ UNCHANGED <<hasher, dummy>>

\* with_password_hasher takes the strategy by value: no login runs on it.
FreshDummyKept(s) == dummy
FreshDummy(s) == [dummy EXCEPT ![s] = None]

WithPasswordHasher(s) ==
    /\ \A c \in Calls : call[c].by # s
    /\ Changes
    /\ \E h \in Hashers \ {hasher[s]} : hasher' = [hasher EXCEPT ![s] = h]
    /\ dummy' = FreshDummy(s)
    /\ UNCHANGED <<stored, had>>

Next ==
    \/ \E c \in Calls : Begin(c)
    \/ \E c \in Calls : FindByUsername(c)
    \/ \E c \in Calls : Equalize(c)
    \/ \E c \in Calls : Fill(c)
    \/ \E c \in Calls : Burn(c)
    \/ \E c \in Calls : Verify(c)
    \/ \E c \in Calls : Rehash(c)
    \/ \E c \in Calls : UpdatePasswordHash(c)
    \/ \E c \in Calls : Validate(c)
    \/ \E u \in Users : Register(u)
    \/ \E u \in Users : ChangePassword(u)
    \/ \E u \in Users : SetActive(u)
    \/ \E s \in Strategies : WithPasswordHasher(s)

Spec == Init /\ [][Next]_vars

-----------------------------------------------------------------------------
\* Every variable has the shape the code gives it.
TypeOK ==
    /\ attached \subseteq Strategies
    /\ hasher \in [Strategies -> Hashers]
    /\ stored \in [Users -> UserRecords \cup {None}]
    /\ dummy \in [Strategies -> Settings \cup {Empty, None}]
    /\ call \in [Calls -> CallState]
    /\ answer \in Answers \cup {None}
    /\ had \in [Calls -> SUBSET [password : Passwords, active : BOOLEAN]]
    /\ spent \in [Calls -> Seq(Settings)]
    /\ cold \subseteq Calls
    /\ failed \subseteq Calls
    /\ changes \in 0..MaxChanges

\* The step answers login c with result r.
Answered(c, r) == answer' # None /\ answer'.to = c /\ answer'.result = r

\* A login is accepted, and its user found active, only if at one time while it
\* ran the user had that very password and was active, whatever is changed,
\* switched off, rehashed by another server or failing meanwhile.
AcceptedHadPassword ==
    [][\A c \in Calls :
         Answered(c, "ok") => [password |-> call[c].password, active |-> TRUE] \in had[c]]_vars

Unchanged(c) == Cardinality({h.password : h \in had[c]}) <= 1

\* A login during which its user's password did not change leaves every password
\* as it was, and every user as active: its rehash, under whichever hasher,
\* stores a hash of the password the store holds, or nothing.
LoginKeepsPasswords ==
    [][\A c \in Calls :
         call'[c] # call[c] /\ Unchanged(c) =>
            \A u \in Users : Standing(stored'[u]) = Standing(stored[u])]_vars

\* The one verification of a refusal: a known user's is of its own hash, an unknown
\* one's of a hash the strategy made.
Price(c) ==
    Work(call[c].password, IF call[c].seen = None THEN SettingsOf(Using(c)) ELSE call[c].seen.hash.made)

\* What a refusal costs, unless the hasher failed for it or has left an empty dummy
\* hash.  It is one verification, so that a user not known and one whose hash was made
\* with the strategy's settings cost the same; but an unknown user whose login began
\* before the strategy had its dummy hash may cost a hashing as well, the first and
\* those that race with it, and a user with a hash of other settings costs what they
\* ask for.  However refusals race to set the dummy hash and hashers are replaced, no
\* later refusal costs more, or is priced by a hasher that was replaced.
RefusalCost ==
    [][\A c \in Calls :
         Answered(c, "refused") /\ ~answer'.failed /\ dummy'[call[c].by] # Empty =>
            \/ answer'.spent = Price(c)
            \/ /\ call[c].seen = None /\ c \in cold
               /\ answer'.spent = <<SettingsOf(Using(c))>> \o Price(c)]_vars
=============================================================================
