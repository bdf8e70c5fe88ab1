---------------------------- MODULE SamlReplay ----------------------------
(***************************************************************************)
(* SamlServiceProvider's response validation and its assertion replay      *)
(* cache (src/saml.rs): validate_response and                              *)
(* validate_unsolicited_response, record_assertion, and                    *)
(* InMemoryReplayCache with its pruning, in several processes that come    *)
(* and go: a restart is the end of one process and the start of another,   *)
(* so that a process here is one life of a server.  A validation reads the *)
(* clock four times - when samael checks the conditions, in                *)
(* record_assertion, in check_and_insert and in prune_expired - and other  *)
(* calls run between those reads.                                          *)
(*                                                                         *)
(* The identity provider and samael are external.  samael accepts an       *)
(* assertion until its NotOnOrAfter plus the skew it tolerates.  Times are *)
(* clock ticks.                                                            *)
(***************************************************************************)
EXTENDS Integers, FiniteSets

CONSTANTS
    Ids,             \* assertion IDs
    Requests,        \* AuthnRequest IDs
    Processes,       \* each with its own InMemoryReplayCache
    Configs,         \* configurations an application may choose
    Calls,           \* concurrent validations
    None,
    Lifetimes,       \* validity of the assertions the identity provider issues
    ReplaySkew,      \* REPLAY_SKEW
    ReplayMaxTtl,    \* REPLAY_MAX_TTL
    ValidationSkew,  \* clock skew samael tolerates
    PruneThreshold,  \* PRUNE_THRESHOLD
    MaxPause,        \* bound on the time from the condition check to the cache
    MaxTime          \* bound on the clock

\* What SamlConfig and the identity provider's metadata decide: whether IdP-initiated
\* responses are allowed, unsigned assertions are, and a certificate is known.
Config == [idpInitiated : BOOLEAN, unsigned : BOOLEAN, certificate : BOOLEAN]

ASSUME SamlAssumption ==
    /\ Configs \subseteq Config
    /\ Lifetimes \subseteq Nat \ {0}
    /\ ReplaySkew \in Nat /\ ReplayMaxTtl \in Nat /\ ValidationSkew \in Nat
    /\ PruneThreshold \in Nat
    /\ MaxPause \in Nat /\ MaxTime \in Nat
    /\ None \notin Nat
    /\ None \notin Ids
    /\ None \notin Requests

\* REPLAY_SKEW is there to cover the skew validation tolerates, and no assertion
\* lives so long that the cache's cap cuts its entry short.  Nor has any none at all:
\* an assertion without NotOnOrAfter, which the code remembers for REPLAY_MAX_TTL, may
\* be presented for ever, and counts among those that are not covered.
SkewCovered == ValidationSkew + MaxPause < ReplaySkew
LifetimesCovered == \A l \in Lifetimes : l + ReplaySkew <= ReplayMaxTtl

VARIABLES
    now,
    config,     \* the configuration of the deployment
    life,       \* each process: not started yet, up, or over
    assertion,  \* what the identity provider issued: id -> assertion, or None
    cache,      \* seen: per process, id -> the instant it is remembered until
    call,       \* what each validation is doing
    uses        \* history: acceptances of each id by the process

vars == <<now, config, life, assertion, cache, call, uses>>

Assertion == [expires : Nat, inResponseTo : Requests \cup {None}, signed : BOOLEAN]

ASSUME NoneIsNoAssertion == None \notin Assertion

Steps == {"idle", "record", "insert", "prune", "entry"}
CallState == [pc : Steps, on : Processes \cup {None}, id : Ids \cup {None},
              checked : Nat, until : Nat, at : Nat]
Idle == [pc |-> "idle", on |-> None, id |-> None,
         checked |-> 0, until |-> 0, at |-> 0]
Verified(p, a) == [pc |-> "record", on |-> p, id |-> a,
                   checked |-> now, until |-> 0, at |-> 0]

Init ==
    /\ now = 0
    /\ config \in Configs
    /\ life = [p \in Processes |-> "new"]
    /\ assertion = [a \in Ids |-> None]
    /\ cache = [p \in Processes |-> [a \in Ids |-> None]]
    /\ call = [c \in Calls |-> Idle]
    /\ uses = [p \in Processes |-> [a \in Ids |-> 0]]

-----------------------------------------------------------------------------
\* The identity provider issues an assertion, for a request or unsolicited.
Issue(a) ==
    /\ assertion[a] = None
    /\ \E l \in Lifetimes, q \in Requests \cup {None}, s \in BOOLEAN :
          assertion' = [assertion EXCEPT ![a] =
                          [expires |-> now + l, inResponseTo |-> q, signed |-> s]]
    /\ UNCHANGED <<now, config, life, cache, call, uses>>

\* The signature is checked unless allow_unsigned_assertions strips the
\* certificates; without a certificate everything is refused.
SignatureAccepted(s) == config.unsigned \/ (config.certificate /\ s)

\* The request the response answers is correlated unless IdP-initiated responses
\* are allowed.  expected is None for an unsolicited response.
Correlated(expected, actual) == config.idpInitiated \/ expected = actual

\* samael's conditions at instant t.
InTime(s, t) == t <= s.expires + ValidationSkew

\* Process p is handed a response with assertion a; the RelayState, if one was
\* issued, is compared first.  A refusal changes nothing.
Validate(c, p) ==
    /\ life[p] = "up"
    /\ call[c].pc = "idle"
    /\ \E a \in Ids, q \in Requests \cup {None} :
          /\ q = None => config.idpInitiated
          /\ assertion[a] # None
          /\ SignatureAccepted(assertion[a].signed)
          /\ Correlated(q, assertion[a].inResponseTo)
          /\ InTime(assertion[a], now)
          /\ call' = [call EXCEPT ![c] = Verified(p, a)]
    /\ UNCHANGED <<now, config, life, assertion, cache, uses>>

\* record_assertion: how long the ID is to be remembered.
Min2(x, y) == IF x < y THEN x ELSE y
RememberShort(expires, t) == Min2(expires - ReplaySkew, t + ReplayMaxTtl)
RememberOnlyToExpiry(expires, t) == Min2(expires, t + ReplayMaxTtl)
RememberUntil(expires, t) == Min2(expires + ReplaySkew, t + ReplayMaxTtl)

Record(c) ==
    /\ call[c].pc = "record"
    /\ call' = [call EXCEPT ![c].pc = "insert",
                            ![c].until = RememberUntil(assertion[call[c].id].expires, now)]
    /\ UNCHANGED <<now, config, life, assertion, cache, uses>>

\* check_and_insert reads the clock, and prunes first if the map is full.
Remembered(p) == {a \in Ids : cache[p][a] # None}

CheckAndInsert(c) ==
    /\ call[c].pc = "insert"
    /\ call' = [call EXCEPT ![c].at = now,
                            ![c].pc = IF Cardinality(Remembered(call[c].on)) >= PruneThreshold
                                      THEN "prune" ELSE "entry"]
    /\ UNCHANGED <<now, config, life, assertion, cache, uses>>

\* retain() of prune_expired, with its own reading of the clock.
StillNeededAtNext(u) == u > now + 1
StillNeeded(u) == u > now

PruneExpired(c) ==
    LET p == call[c].on IN
    /\ call[c].pc = "prune"
    /\ cache' = [cache EXCEPT ![p] =
                   [a \in Ids |-> IF cache[p][a] # None /\ StillNeeded(cache[p][a])
                                  THEN cache[p][a] ELSE None]]
    /\ call' = [call EXCEPT ![c].pc = "entry"]
    /\ UNCHANGED <<now, config, life, assertion, uses>>

\* The entry of the map, under its shard's lock: a replay if it is still
\* remembered, otherwise the first use.
Replayed(c) ==
    LET u == cache[call[c].on][call[c].id] IN u # None /\ u > call[c].at

Entry(c) ==
    LET p == call[c].on
        a == call[c].id
    IN
    /\ call[c].pc = "entry"
    /\ \/ Replayed(c) /\ UNCHANGED <<cache, uses>>
       \/ /\ ~Replayed(c)
          /\ cache' = [cache EXCEPT ![p][a] = call[c].until]
          /\ uses' = [uses EXCEPT ![p][a] = @ + 1]
    /\ call' = [call EXCEPT ![c] = Idle]
    /\ UNCHANGED <<now, config, life, assertion>>

\* A process starts with an empty cache, and ends with its cache and its calls.
Start(p) ==
    /\ life[p] = "new"
    /\ life' = [life EXCEPT ![p] = "up"]
    /\ UNCHANGED <<now, config, assertion, cache, call, uses>>

Stop(p) ==
    /\ life[p] = "up"
    /\ life' = [life EXCEPT ![p] = "over"]
    /\ cache' = [cache EXCEPT ![p] = [a \in Ids |-> None]]
    /\ call' = [c \in Calls |-> IF call[c].on = p THEN Idle ELSE call[c]]
    /\ UNCHANGED <<now, config, assertion, uses>>

\* Time passes; a running validation reaches the cache within MaxPause.
Tick ==
    /\ now < MaxTime
    /\ \A c \in Calls : call[c].pc # "idle" => now < call[c].checked + MaxPause
    /\ now' = now + 1
    /\ UNCHANGED <<config, life, assertion, cache, call, uses>>

CallStep(c) ==
    \/ Record(c)
    \/ CheckAndInsert(c)
    \/ PruneExpired(c)
    \/ Entry(c)

Next ==
    \/ \E a \in Ids : Issue(a)
    \/ \E c \in Calls, p \in Processes : Validate(c, p)
    \/ \E c \in Calls : CallStep(c)
    \/ \E p \in Processes : Start(p)
    \/ \E p \in Processes : Stop(p)
    \/ Tick

Spec == Init /\ [][Next]_vars

-----------------------------------------------------------------------------
\* Every variable has the shape the code gives it.
TypeOK ==
    /\ now \in Nat
    /\ config \in Config
    /\ life \in [Processes -> {"new", "up", "over"}]
    /\ assertion \in [Ids -> Assertion \cup {None}]
    /\ cache \in [Processes -> [Ids -> Nat \cup {None}]]
    /\ call \in [Calls -> CallState]
    /\ uses \in [Processes -> [Ids -> Nat]]

\* A process accepts an assertion at most once, however its validations interleave
\* with each other, with pruning and with the clock.
OncePerProcess == \A p \in Processes, a \in Ids : uses[p][a] <= 1

\* The documented promise of AssertionReplayCache: an accepted assertion's ID is
\* remembered by the process, while it is up, until the assertion itself expires.
RememberedUntilExpiry ==
    \A p \in Processes, a \in Ids :
        life[p] = "up" /\ uses[p][a] > 0 /\ now < assertion[a].expires =>
            cache[p][a] # None /\ cache[p][a] > now

\* Validation implements OneTime for each process and assertion: the assertion logs
\* in at most once there, and never after validation would refuse it (plus the pause
\* of a running call) or when the process is over.
TooLate(a) ==
    /\ assertion[a] # None
    /\ now > assertion[a].expires + ValidationSkew + MaxPause

Uses == [x \in Processes \X Ids |-> uses[x[1]][x[2]]]

Promise == INSTANCE OneTime WITH
    Credentials <- Processes \X Ids,
    uses <- Uses,
    void <- {x \in Processes \X Ids : Uses[x] = 0 /\ (TooLate(x[2]) \/ life[x[1]] = "over")}

ImplementsOneTime == Promise!Spec
=============================================================================
