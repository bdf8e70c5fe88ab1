------------------------------ MODULE ApiKeys ------------------------------
(***************************************************************************)
(* ApiKeyManager over an ApiKeyStore (src/api_key.rs): generate, validate, *)
(* revoke and rotate, called concurrently.  Every call is split where the  *)
(* code awaits the store, so a call acts on what it read before the await. *)
(* The store is external: each of its operations takes effect atomically,  *)
(* and may report an error whether or not it took effect.  Its save writes *)
(* whole records, so an application that changes one key at a time still   *)
(* writes back what it read before other calls changed the record.         *)
(*                                                                         *)
(* A key's id stands for the id, the plaintext and the hash, which are     *)
(* drawn together and never change.  The user and the scopes, which rotate *)
(* copies as they are, are left out, and so is last_used_at: nothing reads *)
(* it.                                                                     *)
(***************************************************************************)
EXTENDS RateWindow

CONSTANTS
    Calls,        \* concurrent callers of the manager
    None,         \* Rust's None
    Lifetime,     \* default_expiration in ticks, or None
    Limits,       \* rate limits the application sets on stored keys
    LooseLookup,  \* TRUE: find_by_key_hash may return another key's record
    MaxTime,      \* bound on the clock
    MaxCount      \* bound on the requests counted for a key in one window

ASSUME ApiKeysAssumption ==
    /\ Lifetime \in Nat \cup {None}
    /\ Limits \subseteq Nat
    /\ LooseLookup \in BOOLEAN
    /\ MaxTime \in Nat
    /\ MaxCount \in Nat
    /\ None \notin Nat
    /\ None \notin Keys

VARIABLES
    now,        \* the wall clock
    store,      \* the ApiKeyStore: key id -> record, or None
    counters,   \* rate_counters
    lastSweep,  \* last_sweep_unix
    call,       \* what each caller is running, and where it is suspended
    copy,       \* the key that the application is changing and its record, or None
    minted,     \* ids drawn so far
    parent,     \* history: the key a rotation made this one from
    handed,     \* history: keys whose plaintext a call returned
    asked,      \* history: when a validation began, and whether its key has been
                \* revoked ever since
    revived     \* history: keys whose last revocation the application has undone

vars == <<now, store, counters, lastSweep, call, copy, minted, parent, handed, asked, revived>>

Instants == Nat
ApiKey == [expires : Nat \cup {None}, limit : Nat \cup {None},
           revoked : BOOLEAN]

\* Rust's Option keeps None apart from every record.
ASSUME NoneIsNoRecord == None \notin ApiKey

Ops == {"validate", "revoke", "rotate", "generate"}
Steps == {"lookup", "check", "touch", "find", "revoke", "build", "save"}
Results == {"ok", "absent", "revoked", "expired", "limited", "storage", "none"}

\* A caller between calls keeps only the result of its last one; a running call
\* has the key it was given, and the key and record it read or made.
CallState == [op : Ops \cup {"none"}, pc : Steps \cup {"idle"}, key : Keys \cup {None},
              found : Keys \cup {None}, seen : ApiKey \cup {None},
              result : Results]
Running(op, k, pc) == [op |-> op, pc |-> pc, key |-> k, found |-> None,
                       seen |-> None, result |-> "none"]
Idle(r) == [Running("none", None, "idle") EXCEPT !.result = r]

NotAsked == [at |-> 0, revoked |-> FALSE]

Stored(k) == store[k] # None
IsRevoked(k) == Stored(k) /\ store[k].revoked
Expired(r, t) == r.expires # None /\ t > r.expires

-----------------------------------------------------------------------------
Init ==
    /\ now = 0
    /\ store = [k \in Keys |-> None]
    /\ counters = NoCounters
    /\ lastSweep = 0
    /\ call = [c \in Calls |-> Idle("none")]
    /\ copy = None
    /\ minted = {}
    /\ parent = [k \in Keys |-> None]
    /\ handed = {}
    /\ asked = [c \in Calls |-> NotAsked]
    /\ revived = {}

\* Caller c starts operation op on key k and runs up to its first await.
Begin(c, op, k, pc) ==
    /\ call[c].pc = "idle"
    /\ call' = [call EXCEPT ![c] = Running(op, k, pc)]
    /\ UNCHANGED <<now, store, counters, lastSweep, minted, parent, handed, copy, revived>>

\* Bound: ids do not run out, so a call that mints a key starts only if one is
\* left for it and for the calls that may still mint one.
Minting(c) == call[c].op \in {"generate", "rotate"} /\ call[c].pc \in {"find", "revoke", "build"}
RoomForAKey == Cardinality({c \in Calls : Minting(c)}) < Cardinality(Keys \ minted)

\* Any string may be presented to validate, any id to rotate; revoke is asked
\* for keys the application knows.
BeginValidate(c) ==
    \E k \in Keys :
        /\ k \in DOMAIN counters => counters[k].count < MaxCount
        /\ Begin(c, "validate", k, "lookup")
        /\ asked' = [asked EXCEPT ![c] = [at |-> now, revoked |-> IsRevoked(k)]]
BeginRotate(c) ==
    /\ RoomForAKey
    /\ \E k \in Keys : Begin(c, "rotate", k, "find")
    /\ UNCHANGED asked
BeginRevoke(c) ==
    /\ \E k \in handed : Begin(c, "revoke", k, "revoke")
    /\ UNCHANGED asked
BeginGenerate(c) ==
    /\ RoomForAKey
    /\ Begin(c, "generate", None, "build")
    /\ UNCHANGED asked

-----------------------------------------------------------------------------
\* Call c ends with result r.
Return(c, r) ==
    /\ call' = [call EXCEPT ![c] = Idle(r)]
    /\ asked' = [asked EXCEPT ![c] = NotAsked]

\* The constant-time comparison of the record's hash with the presented key's.
SameHashUnchecked(j, k) == TRUE
SameHash(j, k) == j = k

\* Keys whose record the store may answer a lookup of k with.
Matches(k) == {j \in Keys : Stored(j) /\ (j = k \/ LooseLookup)}

\* validate: the store answers find_by_key_hash; a record whose hash is not the
\* presented key's is treated as absent.
FindByKeyHash(c) ==
    LET k == call[c].key IN
    /\ call[c].pc = "lookup"
    /\ \/ ~Stored(k) /\ Return(c, "absent")
       \/ \E j \in Matches(k) :
             IF SameHash(j, k)
             THEN /\ call' = [call EXCEPT ![c].pc = "check", ![c].found = j,
                                         ![c].seen = store[j]]
                  /\ UNCHANGED asked
             ELSE Return(c, "absent")
       \/ Return(c, "storage")
    /\ UNCHANGED <<now, store, counters, lastSweep, minted, parent, handed, copy, revived>>

\* validate, once limited: check_rate_limit as a whole, with its sweep.  Sets
\* lastSweep and counters; RateLimiter.tla interleaves its parts.
CountAndSweep(k) ==
    LET m == CountRequest(counters, k, now) IN
    IF SweepDue(m, lastSweep, now)
    THEN counters' = Swept(m, now) /\ lastSweep' = Seconds(now)
    ELSE counters' = m /\ UNCHANGED lastSweep

OverLimit(k, limit) == CountRequest(counters, k, now)[k].count > limit

\* The checks validate makes on the record it read, in order, at instant t.
VerdictUnchecked(r, t) == IF Expired(r, t) THEN "expired" ELSE "ok"
Verdict(r, t) ==
    IF r.revoked THEN "revoked" ELSE IF Expired(r, t) THEN "expired" ELSE "ok"

\* validate, from the lookup's answer to its next await.
Proceed(c) == /\ call' = [call EXCEPT ![c].pc = "touch"]
              /\ UNCHANGED asked

Check(c) ==
    LET k == call[c].found
        r == call[c].seen
        v == Verdict(r, now)
    IN
    /\ call[c].pc = "check"
    /\ \/ v # "ok" /\ Return(c, v) /\ UNCHANGED <<counters, lastSweep>>
       \/ v = "ok" /\ r.limit = None /\ Proceed(c) /\ UNCHANGED <<counters, lastSweep>>
       \/ /\ v = "ok"
          /\ r.limit # None
          /\ CountAndSweep(k)
          /\ IF OverLimit(k, r.limit) THEN Return(c, "limited") ELSE Proceed(c)
    /\ UNCHANGED <<now, store, minted, parent, handed, copy, revived>>

\* A write of record r under key k reaches the store and is answered, is lost,
\* or takes effect although the store reports an error.
Written(k, r)  == store' = [store EXCEPT ![k] = r]
WriteFails(k, r) == Written(k, r) \/ UNCHANGED store

\* validate: the store applies update_last_used, which changes no other field of
\* the record it has by then; the call returns.
TouchedFromSnapshot(c) == call[c].seen
TouchedRecord(c) == store[call[c].found]

UpdateLastUsed(c) ==
    LET k == call[c].found IN
    /\ call[c].pc = "touch"
    /\ \/ Written(k, TouchedRecord(c)) /\ Return(c, "ok")
       \/ WriteFails(k, TouchedRecord(c)) /\ Return(c, "storage")
    /\ UNCHANGED <<now, counters, lastSweep, minted, parent, handed, copy, revived>>

\* rotate: the store answers find_by_id.  The record's state is not looked at.
FindById(c) ==
    LET k == call[c].key IN
    /\ call[c].pc = "find"
    /\ \/ Stored(k) /\ call' = [call EXCEPT ![c].pc = "revoke"] /\ UNCHANGED asked
       \/ ~Stored(k) /\ Return(c, "absent")
       \/ Return(c, "storage")
    /\ UNCHANGED <<now, store, counters, lastSweep, minted, parent, handed, copy, revived>>

\* revoke, and rotate's call of it: the store applies the revocation.
RevokedRecord(k) == [store[k] EXCEPT !.revoked = TRUE]
Revokes(k) == Written(k, RevokedRecord(k)) /\ revived' = revived \ {k}
RevokeFails(k) == Revokes(k) \/ UNCHANGED <<store, revived>>

RevokeIgnoringErrors(c) ==
    LET k == call[c].key IN
    /\ call[c].pc = "revoke"
    /\ RevokeFails(k)
    /\ IF call[c].op = "rotate"
       THEN call' = [call EXCEPT ![c].pc = "build"] /\ UNCHANGED asked
       ELSE Return(c, "ok")
    /\ UNCHANGED <<now, counters, lastSweep, minted, parent, handed, copy>>

Revoke(c) ==
    LET k == call[c].key IN
    /\ call[c].pc = "revoke"
    /\ \/ /\ Revokes(k)
          /\ IF call[c].op = "rotate"
             THEN call' = [call EXCEPT ![c].pc = "build"] /\ UNCHANGED asked
             ELSE Return(c, "ok")
       \/ RevokeFails(k) /\ Return(c, "storage")
    /\ UNCHANGED <<now, counters, lastSweep, minted, parent, handed, copy>>

\* generate, and rotate's call of it, up to the save: draw a fresh id and build
\* the record.  Nothing of the old record but its user and scopes is copied.
FreshRecord ==
    [expires |-> IF Lifetime = None THEN None ELSE now + Lifetime,
     limit |-> None, revoked |-> FALSE]

Build(c) ==
    /\ call[c].pc = "build"
    /\ \E k \in Keys \ minted :
          /\ minted' = minted \cup {k}
          /\ call' = [call EXCEPT ![c].pc = "save", ![c].found = k, ![c].seen = FreshRecord]
          /\ parent' = [parent EXCEPT ![k] = call[c].key]
    /\ UNCHANGED <<now, store, counters, lastSweep, handed, asked, copy, revived>>

\* generate: the store applies the save; only then is the plaintext returned.
SaveHandsOutAnyway(c) ==
    LET k == call[c].found IN
    /\ call[c].pc = "save"
    /\ WriteFails(k, call[c].seen)
    /\ Return(c, "ok")
    /\ handed' = handed \cup {k}
    /\ UNCHANGED <<now, counters, lastSweep, minted, parent, copy, revived>>

Save(c) ==
    LET k == call[c].found IN
    /\ call[c].pc = "save"
    /\ \/ /\ Written(k, call[c].seen)
          /\ Return(c, "ok")
          /\ handed' = handed \cup {k}
       \/ /\ WriteFails(k, call[c].seen)
          /\ Return(c, "storage")
          /\ UNCHANGED handed
    /\ UNCHANGED <<now, counters, lastSweep, minted, parent, copy, revived>>

-----------------------------------------------------------------------------
\* The application changes a key, its rate limit or what is left out here: it reads
\* the record, and saves the whole of it over whatever was written in between.
ReadRecord(k) ==
    /\ copy = None
    /\ Stored(k)
    /\ copy' = [key |-> k, record |-> store[k]]
    /\ UNCHANGED <<now, store, counters, lastSweep, call, minted, parent, handed, asked, revived>>

\* A copy from before a revocation makes the key live again.
Revives(k) == /\ copy # None /\ copy.key = k /\ ~copy.record.revoked
              /\ IsRevoked(k)

SaveRecord ==
    /\ copy # None
    /\ \/ /\ \E l \in Limits \cup {copy.record.limit} :
                Written(copy.key, [copy.record EXCEPT !.limit = l])
          /\ revived' = revived \cup {k \in Keys : Revives(k)}
          /\ asked' = [c \in Calls |-> [asked[c] EXCEPT !.revoked = @ /\ ~Revives(call[c].key)]]
       \/ UNCHANGED <<store, asked, revived>>
    /\ copy' = None
    /\ UNCHANGED <<now, counters, lastSweep, call, minted, parent, handed>>

Tick ==
    /\ now < MaxTime
    /\ now' = now + 1
    /\ UNCHANGED <<store, counters, lastSweep, call, copy, minted, parent, handed, asked, revived>>

CallStep(c) ==
    \/ FindByKeyHash(c)
    \/ Check(c)
    \/ UpdateLastUsed(c)
    \/ FindById(c)
    \/ Revoke(c)
    \/ Build(c)
    \/ Save(c)

Next ==
    \/ \E c \in Calls : BeginValidate(c)
    \/ \E c \in Calls : BeginRotate(c)
    \/ \E c \in Calls : BeginRevoke(c)
    \/ \E c \in Calls : BeginGenerate(c)
    \/ \E c \in Calls : CallStep(c)
    \/ \E k \in Keys : ReadRecord(k)
    \/ SaveRecord
    \/ Tick

Spec == Init /\ [][Next]_vars

\* The store answers every operation and the executor polls every future.
FairSpec == Spec /\ \A c \in Calls : WF_vars(CallStep(c))

-----------------------------------------------------------------------------
\* Every variable has the shape the code gives it.
TypeOK ==
    /\ now \in Nat
    /\ store \in [Keys -> ApiKey \cup {None}]
    /\ DOMAIN counters \subseteq Keys
    /\ \A k \in DOMAIN counters : counters[k] \in Entry
    /\ lastSweep \in Nat
    /\ call \in [Calls -> CallState]
    /\ copy \in [key : Keys, record : ApiKey] \cup {None}
    /\ minted \subseteq Keys
    /\ parent \in [Keys -> Keys \cup {None}]
    /\ handed \subseteq Keys
    /\ asked \in [Calls -> [at : Nat, revoked : BOOLEAN]]
    /\ revived \subseteq Keys

\* A validation is accepted only for a stored key that was not revoked all the while
\* since the call began, and not yet past its expiry then: whatever interleaves with
\* the awaits of validate, a revocation or an expiry that was complete before the
\* request arrived is never overlooked.
AcceptedWasLive ==
    [][\A c \in Calls :
         LET k == call[c].key IN
         call[c].op = "validate" /\ call'[c].result = "ok" =>
            /\ Stored(k)
            /\ ~asked[c].revoked
            /\ ~Expired(store[k], asked[c].at)]_vars

\* The key is revoked, or would be but for the application.
Barred(k) == IsRevoked(k) \/ k \in revived

\* rotate never leaves the old key usable beside its replacement: once a
\* replacement is in the store its predecessor was revoked there, whichever of
\* the store's three answers failed and whatever ran in between, and is revoked
\* still unless the application saved over it a copy from before.
ReplacedKeyIsRevoked ==
    \A k \in Keys : Stored(k) /\ parent[k] # None => Barred(parent[k])

\* A plaintext is handed to a caller only once its record is in the store, and
\* no later step of any call takes the record away: no caller holds a key that
\* was never saved because the save failed or is still pending.
HandedKeysAreStored == \A k \in handed : Stored(k)

\* No operation of the manager un-revokes a key, takes it away or changes its expiry:
\* validate's touch writes around a revocation that raced it.  Only an application
\* can undo a revocation, by saving a copy that it read before, because
\* ApiKeyStore::save replaces the record.
RevocationIsFinal ==
    [][\A k \in Keys : Stored(k) =>
          /\ store'[k] # None
          /\ store'[k].expires = store[k].expires
          /\ store[k].revoked /\ ~store'[k].revoked => Revives(k) /\ copy' = None]_vars

\* Validations that read key k before its revocation and are still running.
OverlookedBy(k) ==
    {c \in Calls : call[c].pc \in {"check", "touch"} /\ call[c].found = k /\ ~call[c].seen.revoked}

\* A revocation catches up with every request: eventually no running validation
\* holds a record of the key from before it, and none ever does again, unless the
\* application undoes the revocation.
RevocationDrains ==
    \A k \in Keys : IsRevoked(k) ~> (k \in revived \/ [](OverlookedBy(k) = {}))
=============================================================================
