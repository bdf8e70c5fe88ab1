--------------------------- MODULE AtomicLimiter ---------------------------
(***************************************************************************)
(* What check_rate_limit of ApiKeyManager (src/api_key.rs) promises its    *)
(* callers, and what ApiKeys takes it for: each request is counted at one  *)
(* instant, in a map from which nothing is ever evicted, and is let        *)
(* through if its count is within the limit.  RateLimiter is shown to      *)
(* implement this.                                                         *)
(***************************************************************************)
EXTENDS RateWindow

CONSTANTS
    Limit,
    Ids,      \* of requests
    Ticks     \* at which they are made

VARIABLES
    windows,  \* the counters
    passed    \* the requests that were let through

atomicVars == <<windows, passed>>

Init ==
    /\ windows = NoCounters
    /\ passed = {}

\* A request for key k at instant t, which need not be the latest.  One that is let
\* through is told by its id.
Serve(k, t) ==
    /\ windows' = CountRequest(windows, k, t)
    /\ \/ /\ windows'[k].count > Limit
          /\ UNCHANGED passed
       \/ /\ windows'[k].count <= Limit
          /\ \E i \in Ids :
                /\ \A p \in passed : p.id # i
                /\ passed' = passed \cup
                      {[id |-> i, key |-> k, at |-> t, start |-> windows'[k].start]}

Next == \E k \in Keys, t \in Ticks : Serve(k, t)

Spec == Init /\ [][Next]_atomicVars
=============================================================================
