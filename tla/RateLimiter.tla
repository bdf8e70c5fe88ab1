---------------------------- MODULE RateLimiter ----------------------------
(***************************************************************************)
(* check_rate_limit and sweep_expired_windows of ApiKeyManager             *)
(* (src/api_key.rs), run by several threads on the shared DashMap.  A      *)
(* thread reads the clock first and uses that instant throughout; each     *)
(* step is one access under one shard lock, or one atomic operation.       *)
(* ApiKeys takes the whole of check_rate_limit as one step; this module    *)
(* shows what happens inside it.                                           *)
(***************************************************************************)
EXTENDS RateWindow

CONSTANTS
    Threads,
    Loads,        \* which threads serve requests for which keys, until when, and
                  \* whether the clock is set back once; each key is its own shard
    Limit,        \* the rate_limit of every key
    MaxRequests   \* bound on the requests served

ASSUME RateLimiterAssumption ==
    /\ Loads \subseteq [threads : SUBSET Threads, keys : SUBSET Keys,
                        until : Nat, back : BOOLEAN]
    /\ IsFiniteSet(Threads)
    /\ \A l \in Loads : IsFiniteSet(l.keys)
    /\ Keys # {}
    /\ Limit \in Nat
    /\ MaxRequests \in Nat

VARIABLES
    load,           \* the load of this behaviour; its until bounds the clock
    clock,          \* the wall clock
    setBack,        \* history: it was set back
    rateCounters,
    lastSweepUnix,
    req,            \* each thread's request: the locals of check_rate_limit
    unswept,        \* history: the counters as they would be had nothing been swept
    admitted,       \* history: the requests that were let through
    served          \* history: how many requests have begun

limiterVars == <<load, clock, setBack, rateCounters, lastSweepUnix, req,
                 unswept, admitted, served>>

RequestSteps == {"idle", "lookup", "insert", "sweep", "cas", "retain", "decide"}

Request == [pc : RequestSteps, id : Nat, key : Keys, at : Nat,
            entry : Entry,     \* the entry this request was counted in
            last : Nat,        \* last_sweep_unix as loaded
            todo : SUBSET Keys]  \* shards retain() has not visited yet

Admission == [id : Nat, key : Keys, at : Nat, start : Nat]

NoEntry == [start |-> 0, count |-> 0]

-----------------------------------------------------------------------------
LimiterInit ==
    /\ load \in Loads
    /\ clock = 0
    /\ setBack = FALSE
    /\ rateCounters = NoCounters
    /\ lastSweepUnix = 0
    /\ req = [t \in Threads |-> [pc |-> "idle", id |-> 0, key |-> CHOOSE k \in Keys : TRUE,
                                at |-> 0, entry |-> NoEntry, last |-> 0, todo |-> {}]]
    /\ unswept = NoCounters
    /\ admitted = {}
    /\ served = 0

\* A request for key k arrives on thread t, which reads the clock.
Arrive(t, k) ==
    /\ t \in load.threads
    /\ k \in load.keys
    /\ req[t].pc = "idle"
    /\ served < MaxRequests
    /\ served' = served + 1
    /\ req' = [req EXCEPT ![t] = [pc |-> "lookup", id |-> served, key |-> k, at |-> clock,
                                  entry |-> NoEntry, last |-> 0, todo |-> {}]]
    /\ UNCHANGED <<load, clock, setBack, rateCounters, lastSweepUnix, unswept, admitted>>

\* The request is counted; it remembers the entry it was counted in.
CountIt(t) ==
    LET k == req[t].key
        m == CountRequest(rateCounters, k, req[t].at)
    IN
    /\ rateCounters' = m
    /\ unswept' = CountRequest(unswept, k, req[t].at)
    /\ req' = [req EXCEPT ![t].pc = "sweep", ![t].entry = m[k]]

\* get_mut: counted at once if the key is tracked.
Lookup(t) ==
    /\ req[t].pc = "lookup"
    /\ \/ req[t].key \in DOMAIN rateCounters /\ CountIt(t)
       \/ /\ req[t].key \notin DOMAIN rateCounters
          /\ req' = [req EXCEPT ![t].pc = "insert"]
          /\ UNCHANGED <<rateCounters, unswept>>
    /\ UNCHANGED <<load, clock, setBack, lastSweepUnix, admitted, served>>

\* entry().and_modify().or_insert(): another thread may have inserted since.
InsertFresh(t) ==
    LET k == req[t].key
        e == [start |-> req[t].at, count |-> 1]
    IN
    /\ req[t].pc = "insert"
    /\ rateCounters' = [x \in DOMAIN rateCounters \cup {k} |->
                            IF x = k THEN e ELSE rateCounters[x]]
    /\ unswept' = CountRequest(unswept, k, req[t].at)
    /\ req' = [req EXCEPT ![t].pc = "sweep", ![t].entry = e]
    /\ UNCHANGED <<load, clock, setBack, lastSweepUnix, admitted, served>>

Insert(t) ==
    /\ req[t].pc = "insert"
    /\ CountIt(t)
    /\ UNCHANGED <<load, clock, setBack, lastSweepUnix, admitted, served>>

\* sweep_expired_windows up to the compare-exchange.
Sweep(t) ==
    /\ req[t].pc = "sweep"
    /\ req' = IF SweepDue(rateCounters, lastSweepUnix, req[t].at)
              THEN [req EXCEPT ![t].pc = "cas", ![t].last = lastSweepUnix]
              ELSE [req EXCEPT ![t].pc = "decide"]
    /\ UNCHANGED <<load, clock, setBack, rateCounters, lastSweepUnix, unswept, admitted, served>>

\* compare_exchange: only the thread that wins sweeps.
CompareExchange(t) ==
    /\ req[t].pc = "cas"
    /\ \/ /\ lastSweepUnix = req[t].last
          /\ lastSweepUnix' = Seconds(req[t].at)
          /\ req' = [req EXCEPT ![t].pc = "retain", ![t].todo = Keys]
       \/ /\ lastSweepUnix # req[t].last
          /\ req' = [req EXCEPT ![t].pc = "decide"]
          /\ UNCHANGED lastSweepUnix
    /\ UNCHANGED <<load, clock, setBack, rateCounters, unswept, admitted, served>>

\* retain visits one shard after the other.
Retain(t) ==
    /\ req[t].pc = "retain"
    /\ \E k \in req[t].todo :
          /\ req' = [req EXCEPT ![t].todo = @ \ {k},
                                ![t].pc = IF req[t].todo = {k} THEN "decide" ELSE "retain"]
          /\ rateCounters' = [x \in {y \in DOMAIN rateCounters :
                                       y = k => Retained(rateCounters[y], req[t].at)}
                                 |-> rateCounters[x]]
    /\ UNCHANGED <<load, clock, setBack, lastSweepUnix, unswept, admitted, served>>

\* The request is refused or let through on the count it was given.
Allowed(count) == count <= Limit
Answer(t) ==
    [id |-> req[t].id, key |-> req[t].key, at |-> req[t].at, start |-> req[t].entry.start]

Decide(t) ==
    /\ req[t].pc = "decide"
    /\ req' = [req EXCEPT ![t].pc = "idle", ![t].entry = NoEntry, ![t].last = 0]
    /\ admitted' = IF Allowed(req[t].entry.count) THEN admitted \cup {Answer(t)} ELSE admitted
    /\ UNCHANGED <<load, clock, setBack, rateCounters, lastSweepUnix, unswept, served>>

LimiterTick ==
    /\ clock < load.until
    /\ clock' = clock + 1
    /\ UNCHANGED <<load, setBack, rateCounters, lastSweepUnix, req, unswept, admitted, served>>

\* Utc::now is the wall clock, which an operator or NTP may set back.
SetBack ==
    /\ load.back /\ ~setBack
    /\ clock' \in 0 .. clock - 1
    /\ setBack' = TRUE
    /\ UNCHANGED <<load, rateCounters, lastSweepUnix, req, unswept, admitted, served>>

RequestStep(t) ==
    \/ Lookup(t)
    \/ Insert(t)
    \/ Sweep(t)
    \/ CompareExchange(t)
    \/ Retain(t)
    \/ Decide(t)

LimiterNext ==
    \/ \E t \in Threads, k \in Keys : Arrive(t, k)
    \/ \E t \in Threads : RequestStep(t)
    \/ LimiterTick
    \/ SetBack

LimiterSpec == LimiterInit /\ [][LimiterNext]_limiterVars

-----------------------------------------------------------------------------
\* Every variable has the shape the code gives it; in particular no window
\* starts before the first instant and no counter goes negative.
LimiterTypeOK ==
    /\ load \in Loads
    /\ clock \in Nat
    /\ setBack \in BOOLEAN
    /\ DOMAIN rateCounters \subseteq Keys
    /\ rateCounters \in [DOMAIN rateCounters -> Entry]
    /\ DOMAIN unswept \subseteq Keys
    /\ unswept \in [DOMAIN unswept -> Entry]
    /\ lastSweepUnix \in Nat
    /\ req \in [Threads -> Request]
    /\ admitted \subseteq Admission
    /\ served \in Nat

\* Nothing is ever swept, or everything is counted by one thread, by a clock that
\* was not set back.
Unswept == Cardinality(load.keys) < SweepThreshold
Sequential == Cardinality(load.threads) = 1
InOrder == Sequential /\ ~setBack

\* No more than Limit requests are let through on one window of a key, however
\* the threads' lookups, insertions and resets interleave and even if the clock is
\* set back: two threads that both missed the key do not both start its window,
\* and no window starts twice.  A sweep in between may break this, if another thread
\* or the clock goes back to the window that was swept.
AdmittedPerWindow ==
    Unswept \/ InOrder =>
        \A a \in admitted :
            Cardinality({b \in admitted : b.key = a.key /\ b.start = a.start}) <= Limit

\* Requests for key k let through at an instant in lo..hi.
AdmittedBetween(k, lo, hi) ==
    Cardinality({a \in admitted : a.key = k /\ a.at \in lo .. hi})

\* One after the other, the fixed windows let through at most twice the limit in
\* any stretch of time as long as a window, sweeps included.  (The comments on
\* rate_limit_window speak of a rolling window, which would let through Limit.)
AtMostTwiceTheLimit ==
    InOrder =>
        \A k \in Keys : \A lo \in 0 .. clock : AdmittedBetween(k, lo, lo + Window) <= 2 * Limit

\* Requests that were counted, and all that were let through or will be.
CountedSteps == {"sweep", "cas", "retain", "decide"}
Passed ==
    admitted \cup {Answer(t) : t \in {u \in Threads : /\ req[u].pc \in CountedSteps
                                                      /\ Allowed(req[u].entry.count)}}

Ids == 0 .. MaxRequests - 1
Ticks == UNION {0 .. l.until : l \in Loads}

Atomic == INSTANCE AtomicLimiter WITH windows <- unswept, passed <- Passed

\* However the accesses of the threads interleave, a request is answered as if it were
\* counted at one instant, in a map from which nothing is evicted: in loads without
\* sweeps, and for one thread and a clock that goes on with them.  So far goes what the
\* comment on sweep_expired_windows promises, that evicting a counter never changes the
\* answer a request gets.  (Of two threads, one that read the clock earlier, and would
\* have been counted in the window that the other evicts, starts a fresh one.  A clock
\* that is set back does the same to one thread.)
ImplementsAtomicLimiter ==
    Atomic!Init /\ [][Unswept \/ InOrder' => Atomic!Next]_(Atomic!atomicVars)

\* The sweep bounds the map: when a request has gone through it and the map is
\* still over the threshold, every counter left is of the last two windows (plus
\* the rounding to seconds), so that keys rotated away are forgotten.
ReclaimHorizon == Window + (WindowSeconds + 1) * TicksPerSecond

SweepReclaims ==
    InOrder =>
        \A t \in Threads :
            req[t].pc = "decide" /\ Cardinality(DOMAIN rateCounters) >= SweepThreshold =>
                \A k \in DOMAIN rateCounters :
                    req[t].at - rateCounters[k].start < ReclaimHorizon
=============================================================================
