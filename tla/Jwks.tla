-------------------------------- MODULE Jwks --------------------------------
(***************************************************************************)
(* The signing-key cache of GenericOAuth2Provider (src/oauth2.rs): jwks    *)
(* and the key selection of verify_id_token, called concurrently while the *)
(* identity provider rotates its keys.  A call is split where it awaits    *)
(* the provider and the cache's lock.  The provider is external: it answers*)
(* a request with the keys published at some instant while the request is  *)
(* under way, or the request fails; a request ends within its timeout.     *)
(*                                                                         *)
(* A token is represented by its key id; what is checked once the key is   *)
(* known (signature, issuer, audience, times, nonce) changes no state.     *)
(***************************************************************************)
EXTENDS Integers, FiniteSets

CONSTANTS
    Kids,            \* key ids
    Verifiers,       \* concurrent verifications
    Nil,
    Ttl,             \* JWKS_TTL, in ticks
    MinRefetch,      \* JWKS_MIN_REFETCH, in ticks
    RequestTimeout,  \* timeout of the HTTP client, in ticks
    Failing,         \* TRUE: a request to the provider may fail
    MaxTicks         \* bound on the clock

ASSUME JwksAssumption ==
    /\ Ttl \in Nat
    /\ MinRefetch \in Nat
    /\ MinRefetch <= Ttl
    /\ RequestTimeout \in Nat
    /\ Failing \in BOOLEAN
    /\ MaxTicks \in Nat
    /\ Nil \notin Nat
    /\ Nil \notin Kids

VARIABLES
    ticks,      \* the monotonic clock
    published,  \* the provider's key set
    cache,      \* jwks: Nil, or the instant a set was stored and the set
    lookup,     \* what each verification is running
    lastSeen,   \* history: when each key was published last, Nil if never
    refetched,  \* history: when a forced request was sent last, Nil if never
    stable      \* history: verifications whose key was published ever since they began

jwksVars == <<ticks, published, cache, lookup, lastSeen, refetched, stable>>

KeySets == SUBSET Kids
Cached == [at : Nat, set : KeySets]
Steps == {"read", "send", "wait", "write"}
Results == {"found", "unknown", "failed", "none"}

\* A running verification has the token's kid (or Nil), whether it forces a
\* request, when its request was sent, and the set it was answered with.
LookupState == [pc : Steps \cup {"idle"}, kid : Kids \cup {Nil}, force : BOOLEAN,
                sent : Nat, got : KeySets, result : Results]
Idle(r) == [pc |-> "idle", kid |-> Nil, force |-> FALSE, sent |-> 0, got |-> {}, result |-> r]

JwksInit ==
    /\ ticks = 0
    /\ published \in KeySets \ {{}}
    /\ cache = Nil
    /\ lookup = [c \in Verifiers |-> Idle("none")]
    /\ lastSeen = [k \in Kids |-> IF k \in published THEN 0 ELSE Nil]
    /\ refetched = Nil
    /\ stable = {}

-----------------------------------------------------------------------------
\* verify_id_token is asked to verify a token, of a kid or of none.
Begin(c) ==
    /\ lookup[c].pc = "idle"
    /\ \E k \in Kids \cup {Nil} :
          /\ lookup' = [lookup EXCEPT ![c] = [Idle("none") EXCEPT !.pc = "read", !.kid = k]]
          /\ stable' = IF k \in published THEN stable \cup {c} ELSE stable \ {c}
    /\ UNCHANGED <<ticks, published, cache, lastSeen, refetched>>

\* The key of the set that a token of this kid selects: without a kid, the only one.
Find(k, set) == IF k # Nil THEN k \in set ELSE Cardinality(set) = 1

Return(c, r) == lookup' = [lookup EXCEPT ![c] = Idle(r)]

\* What a call does with the set that jwks returned to it.
Select(c, set) ==
    \/ Find(lookup[c].kid, set) /\ Return(c, "found")
    \/ /\ ~Find(lookup[c].kid, set)
       /\ ~lookup[c].force
       /\ lookup' = [lookup EXCEPT ![c].pc = "read", ![c].force = TRUE]
    \/ ~Find(lookup[c].kid, set) /\ lookup[c].force /\ Return(c, "unknown")

\* jwks, under the read lock: the cached set serves unless it is stale, or the
\* call forces a request and the last one is long enough ago.
ServesUnforced(c) == cache # Nil /\ ticks - cache.at < Ttl /\ ~lookup[c].force
ServesUnaged(c) == cache # Nil /\ (lookup[c].force => ticks - cache.at < MinRefetch)
ServesAlways(c) == cache # Nil /\ ticks - cache.at < Ttl

Serves(c) ==
    /\ cache # Nil
    /\ ticks - cache.at < Ttl
    /\ lookup[c].force => ticks - cache.at < MinRefetch

ReadCache(c) ==
    /\ lookup[c].pc = "read"
    /\ \/ Serves(c) /\ Select(c, cache.set)
       \/ ~Serves(c) /\ lookup' = [lookup EXCEPT ![c].pc = "send"]
    /\ UNCHANGED <<ticks, published, cache, lastSeen, refetched, stable>>

\* The lock is released and the request sent.
Send(c) ==
    /\ lookup[c].pc = "send"
    /\ lookup' = [lookup EXCEPT ![c].pc = "wait", ![c].sent = ticks]
    /\ refetched' = IF lookup[c].force THEN ticks ELSE refetched
    /\ UNCHANGED <<ticks, published, cache, lastSeen, stable>>

\* The provider answers with its current keys; the answer is under way.
Answer(c) ==
    /\ lookup[c].pc = "wait"
    /\ \/ lookup' = [lookup EXCEPT ![c].pc = "write", ![c].got = published]
       \/ Failing /\ Return(c, "failed")
    /\ UNCHANGED <<ticks, published, cache, lastSeen, refetched, stable>>

\* The answer arrived: it is stored with the instant of its storing, whatever
\* was stored meanwhile, and the call goes on with it.
StampOfExpiry == ticks + Ttl
Stamp == ticks

WriteCache(c) ==
    /\ lookup[c].pc = "write"
    /\ cache' = [at |-> Stamp, set |-> lookup[c].got]
    /\ Select(c, lookup[c].got)
    /\ UNCHANGED <<ticks, published, lastSeen, refetched, stable>>

-----------------------------------------------------------------------------
\* The provider changes its key set.
Rotate ==
    /\ \E set \in KeySets \ {published} :
          /\ set # {}
          /\ published' = set
          /\ stable' = {c \in stable : lookup[c].kid \in set}
          /\ lastSeen' = [k \in Kids |-> IF k \in published \cup set THEN ticks ELSE lastSeen[k]]
    /\ UNCHANGED <<ticks, cache, lookup, refetched>>

\* A request is answered, and its answer taken in, before it times out.
JwksTick ==
    /\ ticks < MaxTicks
    /\ \A c \in Verifiers :
          lookup[c].pc \in {"wait", "write"} => ticks < lookup[c].sent + RequestTimeout
    /\ ticks' = ticks + 1
    /\ lastSeen' = [k \in Kids |-> IF k \in published THEN ticks + 1 ELSE lastSeen[k]]
    /\ UNCHANGED <<published, cache, lookup, refetched, stable>>

LookupStep(c) == ReadCache(c) \/ Send(c) \/ Answer(c) \/ WriteCache(c)

JwksNext ==
    \/ \E c \in Verifiers : Begin(c)
    \/ \E c \in Verifiers : LookupStep(c)
    \/ Rotate
    \/ JwksTick

JwksSpec == JwksInit /\ [][JwksNext]_jwksVars

-----------------------------------------------------------------------------
\* No instant that is kept lies ahead of the clock: an age, which Rust takes as zero
\* for an instant to come, is the time that has passed.
InstantsArePast ==
    /\ cache # Nil => cache.at <= ticks
    /\ \A c \in Verifiers : lookup[c].sent <= ticks
    /\ refetched # Nil => refetched <= ticks

\* Every variable has the shape the code gives it, and every instant is past.
JwksTypeOK ==
    /\ ticks \in Nat
    /\ published \in KeySets
    /\ cache \in Cached \cup {Nil}
    /\ lookup \in [Verifiers -> LookupState]
    /\ lastSeen \in [Kids -> Nat \cup {Nil}]
    /\ refetched \in Nat \cup {Nil}
    /\ stable \subseteq Verifiers
    /\ InstantsArePast

\* A key the provider withdrew stops verifying tokens: one is accepted under it at
\* most the cache's lifetime and one request after it was last published, however
\* answers overtake each other.
WithdrawnKeysExpire ==
    [][\A c \in Verifiers :
         LET k == lookup[c].kid IN
         lookup[c].pc # "idle" /\ k # Nil /\ lookup'[c].result = "found" =>
            lastSeen[k] # Nil /\ ticks <= lastSeen[k] + Ttl + RequestTimeout]_jwksVars

\* A token whose key has been published since its verification began is refused
\* as unknown only on a set stored less than JWKS_MIN_REFETCH ago.
RotatedKeysAreFound ==
    [][\A c \in Verifiers :
         lookup[c].pc # "idle" /\ lookup'[c].result = "unknown" /\ c \in stable =>
            cache # Nil /\ ticks - cache.at < MinRefetch]_jwksVars

\* Requests triggered by an unknown kid are MinRefetch apart.
RefetchesSpaced ==
    [][\A c \in Verifiers :
         Send(c) /\ lookup[c].force /\ refetched # Nil => ticks - refetched >= MinRefetch]_jwksVars
=============================================================================
