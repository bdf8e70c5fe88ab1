----------------------------- MODULE TwoFactor -----------------------------
(***************************************************************************)
(* The second factor of one user (src/two_factor.rs): TOTP codes verified  *)
(* against the last accepted step, and one-time backup codes.  The caller  *)
(* loads the user record, verifies on its copy and saves what changed      *)
(* before it completes the login; the save may fail, whether or not it     *)
(* took effect.  The user record is external.                              *)
(*                                                                         *)
(* A TOTP code is a model value; CodeOf is the HMAC, so codes of different *)
(* steps may coincide.  A backup code stands for its plaintext in any      *)
(* spelling and for its hash: 80 random bits do not repeat.  A time step   *)
(* of zero is refused before anything is read, and is left out.            *)
(***************************************************************************)
EXTENDS Integers, FiniteSets, FiniteSetsExt

CONSTANTS
    Logins,       \* concurrent login attempts
    Codes,        \* six-digit codes
    CodeOf(_),    \* the code of a time step under the user's secret
    BackupCodes,  \* backup codes
    Count,        \* how many backup codes the application asks for
    TimeStep,     \* length of a time step, in ticks
    Settings,     \* whether the record is locked, and the codes generate may draw
    None,
    MaxTime       \* bound on the clock

ASSUME TwoFactorAssumption ==
    /\ TimeStep \in Nat \ {0}
    /\ Count \in Nat
    /\ Settings \subseteq [locked : BOOLEAN, codes : SUBSET BackupCodes]
    /\ MaxTime \in Nat
    /\ None \notin Nat \cup BackupCodes
    /\ BackupCodes \cap Codes = {}
    /\ BackupCodes \cap Nat = {}

VARIABLES
    setting,  \* locked: the user record is locked from its load to its save
    now,      \* the wall clock
    last,     \* the user record's last_accepted_step
    hashes,   \* the user record's code_hashes
    login,    \* what each login attempt is running
    printed,  \* history: the backup codes shown to the user last
    drawn,    \* backup codes generated so far
    uses,     \* history: how often each step and backup code completed a login
    dropped   \* history: backup codes removed by a save that reported an error

vars == <<setting, now, last, hashes, login, printed, drawn, uses, dropped>>

StepAt(t) == t \div TimeStep
Steps == 0 .. StepAt(MaxTime) + 1
Factors == Steps \cup BackupCodes

\* A running attempt has the code it was given, its copy of the record, and
\* once the code is verified the step or backup code that it matched.
LoginState == [pc : {"idle", "verify", "save"}, code : Codes \cup BackupCodes \cup {None},
               last : Steps \cup {None}, hashes : SUBSET BackupCodes,
               matched : Factors \cup {None}]
Idle == [pc |-> "idle", code |-> None, last |-> None, hashes |-> {}, matched |-> None]

Init ==
    /\ setting \in Settings
    /\ now = 0
    /\ last = None
    /\ hashes = {}
    /\ login = [l \in Logins |-> Idle]
    /\ printed = {}
    /\ drawn = {}
    /\ uses = [f \in Factors |-> 0]
    /\ dropped = {}

-----------------------------------------------------------------------------
\* The record is free to be loaded: whoever holds it &mut keeps the others out.
Available == setting.locked => \A l \in Logins : login[l] = Idle

\* A login presents a code; the record is loaded.
Load(l) ==
    /\ login[l] = Idle
    /\ Available
    /\ \E x \in Codes \cup drawn :
          login' = [login EXCEPT ![l] = [pc |-> "verify", code |-> x, last |-> last,
                                         hashes |-> hashes, matched |-> None]]
    /\ UNCHANGED <<setting, now, last, hashes, printed, drawn, uses, dropped>>

\* verify_at: the step before, the current one and the one after, if fresh.
\* checked_sub: there is no step before the first.
TriedSigned(t) == StepAt(t) - 1 .. StepAt(t) + 1
TriedFurther(t) == (StepAt(t) - 1 .. StepAt(t) + 2) \cap Nat
Tried(t) == (StepAt(t) - 1 .. StepAt(t) + 1) \cap Nat
FreshOrSame(s, previous) == previous = None \/ s >= previous
Fresh(s, previous) == previous = None \/ s > previous
Matching(l) == {s \in Tried(now) : CodeOf(s) = login[l].code /\ Fresh(s, login[l].last)}

\* verify_and_record on the copy: the earliest match is accepted.
VerifyTotp(l) ==
    /\ login[l].pc = "verify"
    /\ login[l].code \in Codes
    /\ LET m == Matching(l) IN
       login' = [login EXCEPT ![l] =
                   IF m = {} THEN Idle
                   ELSE [@ EXCEPT !.pc = "save", !.last = Min(m), !.matched = Min(m)]]
    /\ UNCHANGED <<setting, now, last, hashes, printed, drawn, uses, dropped>>

\* BackupCodes::verify_and_consume on the copy.
WithoutOthers(s, x) == {x}
Without(s, x) == s \ {x}

VerifyBackup(l) ==
    LET x == login[l].code IN
    /\ login[l].pc = "verify"
    /\ x \in BackupCodes
    /\ login' = [login EXCEPT ![l] =
                   IF x \notin @.hashes THEN Idle
                   ELSE [@ EXCEPT !.pc = "save", !.matched = x,
                                  !.hashes = Without(login[l].hashes, x)]]
    /\ UNCHANGED <<setting, now, last, hashes, printed, drawn, uses, dropped>>

\* The caller persists the updated value: the step, or the remaining codes.
Persisted(l) ==
    IF login[l].matched \in BackupCodes
    THEN hashes' = login[l].hashes /\ UNCHANGED last
    ELSE last' = login[l].last /\ UNCHANGED hashes

\* The login completes once the update is persisted, and not if that failed.
SaveFails(l) ==
    \/ Persisted(l) /\ dropped' = dropped \cup ({login[l].matched} \cap BackupCodes)
    \/ UNCHANGED <<last, hashes, dropped>>

Save(l) ==
    /\ login[l].pc = "save"
    /\ \/ /\ Persisted(l)
          /\ uses' = [uses EXCEPT ![login[l].matched] = @ + 1]
          /\ UNCHANGED dropped
       \/ SaveFails(l) /\ UNCHANGED uses
    /\ login' = [login EXCEPT ![l] = Idle]
    /\ UNCHANGED <<setting, now, printed, drawn>>

\* BackupCodes::generate: fresh codes replace the record's, and are shown once.
Generate ==
    /\ Available
    /\ \E new \in kSubset(Count, setting.codes \ drawn) :
          /\ new # {}
          /\ hashes' = new
          /\ printed' = new
          /\ drawn' = drawn \cup new
    /\ UNCHANGED <<setting, now, last, login, uses, dropped>>

Tick ==
    /\ now < MaxTime
    /\ now' = now + 1
    /\ UNCHANGED <<setting, last, hashes, login, printed, drawn, uses, dropped>>

Next ==
    \/ \E l \in Logins : Load(l)
    \/ \E l \in Logins : VerifyTotp(l)
    \/ \E l \in Logins : VerifyBackup(l)
    \/ \E l \in Logins : Save(l)
    \/ Generate
    \/ Tick

Spec == Init /\ [][Next]_vars

-----------------------------------------------------------------------------
\* Every variable has the shape the code gives it.
TypeOK ==
    /\ setting \in Settings
    /\ now \in Nat
    /\ last \in Steps \cup {None}
    /\ hashes \subseteq BackupCodes
    /\ login \in [Logins -> LoginState]
    /\ printed \subseteq drawn
    /\ drawn \subseteq BackupCodes
    /\ uses \in [Factors -> Nat]
    /\ dropped \subseteq BackupCodes

Pending(f) == \E l \in Logins : login[l].pc = "save" /\ login[l].matched = f

\* Steps that are over, or not after the last accepted one.
Spent(s) == (last # None /\ s <= last) \/ (s + 1 < StepAt(now) /\ ~Pending(s))

\* Codes that were generated and are no longer in the record.
Gone(b) == b \in drawn \ hashes

\* With the record locked, the second factor implements OneTime: a step and a
\* backup code each complete one login, whichever saves fail; not after a later
\* step was accepted, and not once regenerated or removed by a failed login.
\* Nothing is promised of a caller who does not lock it.  The credential is the
\* step, which is what the record remembers, and not the code: a code that two
\* steps happen to share is two credentials, so after it was accepted as the
\* earlier step it may be presented again and is accepted as the later one,
\* although verify's documentation says that a code cannot be used twice.
Promise == INSTANCE OneTime WITH
    Credentials <- Factors,
    uses <- IF setting.locked THEN uses ELSE [f \in Factors |-> 0],
    void <- {f \in Factors : /\ setting.locked
                             /\ uses[f] = 0
                             /\ IF f \in BackupCodes THEN Gone(f) ELSE Spent(f)}

ImplementsOneTime == Promise!Spec

\* Accepting a code of a clock that runs ahead never locks the user out for
\* long: two steps later, whatever was accepted and saved, in whatever order,
\* the current code is fresh again.
NotLockedOut == last # None => last <= StepAt(now) + 1

\* With the record locked, a printed backup code works until it completed a login,
\* or a save that reported an error removed it: no other login costs the user one.
PrintedCodesWork ==
    setting.locked => \A b \in printed : b \in hashes \/ uses[b] = 1 \/ b \in dropped
=============================================================================
