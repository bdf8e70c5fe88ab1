----------------------------- MODULE RateWindow -----------------------------
(***************************************************************************)
(* The per-key request counters of ApiKeyManager (src/api_key.rs): what    *)
(* one locked access to the DashMap does to an entry, and which entries    *)
(* the sweep drops.  Pure operators, shared by ApiKeys (where a whole      *)
(* check_rate_limit is one step) and RateLimiter (where it is several).    *)
(*                                                                         *)
(* A counter map is a function from the tracked key ids to entries         *)
(* [start, count], the pair (window_start, count_in_window) of the code.   *)
(* Instants are clock ticks; TicksPerSecond of them make a second, because *)
(* windows are compared in full precision and sweeps in whole seconds.     *)
(***************************************************************************)
EXTENDS Integers, FiniteSets

CONSTANTS
    Keys,            \* key ids: the uuids drawn for them
    Window,          \* rate_limit_window, in ticks
    SweepThreshold,  \* RATE_COUNTER_SWEEP_THRESHOLD
    TicksPerSecond

ASSUME RateWindowAssumption ==
    /\ Window \in Nat
    /\ SweepThreshold \in Nat
    /\ TicksPerSecond \in Nat \ {0}

Entry == [start : Nat, count : Nat]

\* No counter is tracked yet: DashMap::new().
NoCounters == [k \in {} |-> [start |-> 0, count |-> 0]]

\* The window of entry e is over at instant t.  The difference is signed: an
\* entry opened after t was read counts as still running.
Elapsed(e, t) == t - e.start > Window

\* A tracked entry after one more request at t.
CountedOnce(e, t) == IF Elapsed(e, t) THEN [start |-> t, count |-> 1] ELSE e
Counted(e, t) ==
    IF Elapsed(e, t) THEN [start |-> t, count |-> 1]
                     ELSE [e EXCEPT !.count = @ + 1]

\* The map after one more request for k at t.
CountRequestEarly(m, k, t) ==
    [x \in DOMAIN m \cup {k} |->
        IF x # k THEN m[x]
        ELSE IF k \in DOMAIN m THEN Counted(m[k], t)
        ELSE [start |-> t - 1, count |-> 1]]
CountRequest(m, k, t) ==
    [x \in DOMAIN m \cup {k} |->
        IF x # k THEN m[x]
        ELSE IF k \in DOMAIN m THEN Counted(m[k], t)
        ELSE [start |-> t, count |-> 1]]

Seconds(t) == t \div TicksPerSecond

\* num_seconds().max(1): a window shorter than a second is swept every second.
WindowSeconds == IF Seconds(Window) > 1 THEN Seconds(Window) ELSE 1

\* The two early returns of sweep_expired_windows.
SweepDueAbove(m, last, t) ==
    /\ Cardinality(DOMAIN m) > SweepThreshold
    /\ Seconds(t) - last >= WindowSeconds
SweepDue(m, last, t) ==
    /\ Cardinality(DOMAIN m) >= SweepThreshold
    /\ Seconds(t) - last >= WindowSeconds

\* The entry survives retain().
RetainedShort(e, t) == t - e.start < Window
Retained(e, t) == t - e.start <= Window

Swept(m, t) == [k \in {x \in DOMAIN m : Retained(m[x], t)} |-> m[k]]
=============================================================================
