--------------------------- MODULE MCRateLimiter ---------------------------
(* RateLimiter under three loads: two threads and one key, which is never  *)
(* swept, with a clock that is set back; one thread and two keys, whose    *)
(* counters are swept; and two threads and two keys.                       *)
EXTENDS RateLimiter

CONSTANTS t1, t2, k1, k2

Load(threads, keys, until, back) ==
    [threads |-> threads, keys |-> keys, until |-> until, back |-> back]

MCThreads == {t1, t2}
MCKeys == {k1, k2}
MCLoads == {Load(MCThreads, MCKeys, 3, FALSE), Load(MCThreads, {k1}, 4, TRUE),
            Load({t1}, MCKeys, 6, FALSE)}
=============================================================================
