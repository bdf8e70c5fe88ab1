--------------------------- MODULE OAuth2_proofs ---------------------------
(***************************************************************************)
(* Proofs about src/oauth2.rs, for any number of flows, sessions, users,   *)
(* calls and keys and any length of time: the signing-key cache (Jwks) and *)
(* the authorization code flow (OAuthFlow).                                *)
(***************************************************************************)
EXTENDS OAuthFlow, Jwks, TLAPS

-----------------------------------------------------------------------------
(***************************************************************************)
(* The signing-key cache.                                                  *)
(***************************************************************************)

\* The history keeps up with the provider, and time does not outrun it.
SeenInTime ==
    /\ \A k \in published : lastSeen[k] = ticks
    /\ \A k \in Kids : lastSeen[k] # Nil => lastSeen[k] <= ticks

\* k was published at the instant t, or later.
SeenSince(k, t) == lastSeen[k] # Nil /\ t <= lastSeen[k]

\* A running verification has no result yet; its answer arrives within the
\* timeout, and what it holds was published after the request was sent.
AnswersFresh ==
    \A c \in Verifiers :
        /\ lookup[c].pc # "idle" => lookup[c].result = "none"
        /\ lookup[c].pc \in {"wait", "write"} =>
              lookup[c].sent <= ticks /\ ticks <= lookup[c].sent + RequestTimeout
        /\ lookup[c].pc = "write" => \A k \in lookup[c].got : SeenSince(k, lookup[c].sent)

\* The instant of storing is at most a request later than the keys it stands for,
\* even if the answer it came with had been overtaken by another.
CacheFresh ==
    cache # Nil =>
        /\ cache.at <= ticks
        /\ \A k \in cache.set : SeenSince(k, cache.at - RequestTimeout)

\* The key of a stable verification is published, and in the answer it holds.
StableHolds ==
    \A c \in stable :
        lookup[c].pc # "idle" =>
            /\ lookup[c].kid \in published
            /\ lookup[c].pc = "write" => lookup[c].kid \in lookup[c].got

KeyCacheInv == JwksTypeOK /\ SeenInTime /\ AnswersFresh /\ CacheFresh /\ StableHolds

\* What a lookup may become: one that begins, forces, or has returned.
LEMMA LookupStates ==
    /\ \A r \in Results : Idle(r) \in LookupState
    /\ \A k \in Kids \cup {Nil} :
          [Idle("none") EXCEPT !.pc = "read", !.kid = k] \in LookupState
BY DEF LookupState, Idle, Results, Steps, KeySets

\* What Select makes of a lookup, whichever set it is given.
LEMMA SelectStep ==
    ASSUME NEW c \in Verifiers, NEW set, lookup \in [Verifiers -> LookupState], Select(c, set)
    PROVE  /\ lookup' \in [Verifiers -> LookupState]
           /\ \A d \in Verifiers \ {c} : lookup'[d] = lookup[d]
           /\ \/ /\ lookup'[c].pc = "idle" /\ lookup'[c].result = "found"
                 /\ Find(lookup[c].kid, set)
              \/ /\ lookup'[c].pc = "read" /\ lookup'[c].kid = lookup[c].kid
                 /\ lookup'[c].result = lookup[c].result
              \/ /\ lookup'[c].pc = "idle" /\ lookup'[c].result = "unknown"
                 /\ lookup[c].force /\ ~Find(lookup[c].kid, set)
<1>1. [lookup[c] EXCEPT !.pc = "read", !.force = TRUE] \in LookupState
  BY DEF LookupState, Steps
<1>2. Idle("found") \in LookupState /\ Idle("unknown") \in LookupState
  BY LookupStates DEF Results
<1>3. \A r \in Results : Idle(r).pc = "idle" /\ Idle(r).result = r
  BY DEF Idle
<1>4. CASE Find(lookup[c].kid, set) /\ Return(c, "found")
  BY <1>2, <1>3, <1>4 DEF Return, Results
<1>5. CASE lookup' = [lookup EXCEPT ![c].pc = "read", ![c].force = TRUE]
  BY <1>1, <1>5 DEF LookupState
<1>6. CASE ~Find(lookup[c].kid, set) /\ lookup[c].force /\ Return(c, "unknown")
  BY <1>2, <1>3, <1>6 DEF Return, Results
<1> QED
  BY <1>4, <1>5, <1>6 DEF Select

\* What is stamped is stamped with the present, and the clock goes on.
LEMMA InstantsStayPast == JwksTypeOK /\ [JwksNext]_jwksVars => InstantsArePast'
<1> SUFFICES ASSUME JwksTypeOK, [JwksNext]_jwksVars PROVE InstantsArePast'
  OBVIOUS
<1>t. /\ ticks \in Nat /\ InstantsArePast
      /\ lookup \in [Verifiers -> LookupState]
      /\ \A c \in Verifiers : lookup[c].sent \in Nat
      /\ cache # Nil => cache.at \in Nat
      /\ refetched # Nil => refetched \in Nat
  BY DEF JwksTypeOK, LookupState, Cached
<1>1. ticks' \in Nat /\ ticks <= ticks'
  <2>1. ticks' = ticks \/ ticks' = ticks + 1
    BY DEF JwksNext, LookupStep, jwksVars, Begin, ReadCache, Send, Answer, WriteCache,
           Rotate, JwksTick
  <2> QED
    BY <1>t, <2>1
<1>2. cache' # Nil => cache'.at <= ticks'
  <2>1. cache' = cache \/ cache'.at = ticks
    <3>1. ASSUME NEW c \in Verifiers, WriteCache(c) PROVE cache'.at = ticks
      BY <3>1 DEF WriteCache, Stamp
    <3>2. UNCHANGED cache \/ \E c \in Verifiers : WriteCache(c)
      BY DEF JwksNext, LookupStep, jwksVars, Begin, ReadCache, Send, Answer, Rotate, JwksTick
    <3> QED
      BY <3>1, <3>2
  <2> QED
    BY <1>t, <1>1, <2>1 DEF InstantsArePast
<1>3. refetched' # Nil => refetched' <= ticks'
  <2>1. refetched' = refetched \/ refetched' = ticks
    BY DEF JwksNext, LookupStep, jwksVars, Begin, ReadCache, Send, Answer, WriteCache,
           Rotate, JwksTick
  <2> QED
    BY <1>t, <1>1, <2>1 DEF InstantsArePast
<1>4. ASSUME NEW d \in Verifiers PROVE lookup'[d].sent <= ticks'
  <2>i. \A r \in Results : Idle(r).sent = 0
    BY DEF Idle
  <2>1. \/ lookup'[d] = lookup[d]
        \/ lookup'[d].sent \in {0, lookup[d].sent, ticks}
    <3>1. ASSUME NEW c \in Verifiers, NEW set, Select(c, set)
          PROVE  lookup'[d] = lookup[d] \/ lookup'[d].sent \in {0, lookup[d].sent}
      BY <1>t, <2>i, <3>1 DEF Select, Return, Results, LookupState
    <3>2. ASSUME NEW c \in Verifiers, Begin(c)
          PROVE  lookup'[d] = lookup[d] \/ lookup'[d].sent = 0
      BY <1>t, <3>2 DEF Begin, Idle
    <3>3. ASSUME NEW c \in Verifiers, Send(c)
          PROVE  lookup'[d] = lookup[d] \/ lookup'[d].sent = ticks
      BY <1>t, <3>3 DEF Send, LookupState
    <3>4. ASSUME NEW c \in Verifiers, Answer(c)
          PROVE  lookup'[d] = lookup[d] \/ lookup'[d].sent \in {0, lookup[d].sent}
      BY <1>t, <2>i, <3>4 DEF Answer, Return, Results, LookupState
    <3>5. ASSUME NEW c \in Verifiers, ReadCache(c) \/ WriteCache(c)
          PROVE  lookup'[d] = lookup[d] \/ lookup'[d].sent \in {0, lookup[d].sent}
      BY <1>t, <3>1, <3>5 DEF ReadCache, WriteCache, LookupState
    <3> QED
      BY <3>2, <3>3, <3>4, <3>5 DEF JwksNext, LookupStep, jwksVars, Rotate, JwksTick
  <2> QED
    BY <1>t, <1>1, <2>1 DEF InstantsArePast
<1> QED
  BY <1>2, <1>3, <1>4 DEF InstantsArePast

\* Every step keeps the types of the cache and its lookups.
LEMMA JwksTypes == JwksTypeOK /\ [JwksNext]_jwksVars => JwksTypeOK'
<1> SUFFICES ASSUME JwksTypeOK, [JwksNext]_jwksVars PROVE JwksTypeOK'
  OBVIOUS
<1> USE JwksAssumption DEF JwksTypeOK
<1>0. InstantsArePast'
  BY InstantsStayPast
<1>1. ASSUME NEW c \in Verifiers, Begin(c) PROVE JwksTypeOK'
  BY <1>0, <1>1, LookupStates DEF Begin
<1>2. ASSUME NEW c \in Verifiers, ReadCache(c) PROVE JwksTypeOK'
  <2>1. [lookup[c] EXCEPT !.pc = "send"] \in LookupState
    BY DEF LookupState, Steps
  <2>2. lookup' \in [Verifiers -> LookupState]
    BY <1>2, <2>1, SelectStep DEF ReadCache
  <2> QED
    BY <1>0, <1>2, <2>2 DEF ReadCache
<1>3. ASSUME NEW c \in Verifiers, Send(c) PROVE JwksTypeOK'
  <2>1. [lookup[c] EXCEPT !.pc = "wait", !.sent = ticks] \in LookupState
    BY DEF LookupState, Steps
  <2> QED
    BY <1>0, <1>3, <2>1 DEF Send
<1>4. ASSUME NEW c \in Verifiers, Answer(c) PROVE JwksTypeOK'
  <2>1. [lookup[c] EXCEPT !.pc = "write", !.got = published] \in LookupState
    BY DEF LookupState, Steps
  <2>2. Idle("failed") \in LookupState
    BY LookupStates DEF Results
  <2> QED
    BY <1>0, <1>4, <2>1, <2>2 DEF Answer, Return
<1>5. ASSUME NEW c \in Verifiers, WriteCache(c) PROVE JwksTypeOK'
  <2>1. cache' \in Cached
    BY <1>5 DEF WriteCache, Stamp, Cached, LookupState
  <2>2. lookup' \in [Verifiers -> LookupState]
    BY <1>5, SelectStep DEF WriteCache
  <2> QED
    BY <1>0, <1>5, <2>1, <2>2 DEF WriteCache
<1>6. CASE Rotate
  BY <1>0, <1>6 DEF Rotate
<1>7. CASE JwksTick
  BY <1>0, <1>7 DEF JwksTick
<1>8. CASE UNCHANGED jwksVars
  BY <1>0, <1>8 DEF jwksVars
<1> QED
  BY <1>1, <1>2, <1>3, <1>4, <1>5, <1>6, <1>7, <1>8 DEF JwksNext, LookupStep

\* Time passes for no key: one seen since an instant stays so.
LEMMA SeenStays ==
    ASSUME JwksTypeOK, SeenInTime, [JwksNext]_jwksVars
    PROVE  /\ ticks <= ticks'
           /\ \A k \in Kids, t \in Int : SeenSince(k, t) => SeenSince(k, t)'
<1> USE JwksAssumption DEF JwksTypeOK, SeenInTime, SeenSince, KeySets
<1>1. CASE Rotate
  BY <1>1 DEF Rotate
<1>2. CASE JwksTick
  BY <1>2 DEF JwksTick
<1>3. CASE UNCHANGED <<ticks, lastSeen>>
  BY <1>3
<1> QED
  BY <1>1, <1>2, <1>3
     DEF JwksNext, LookupStep, jwksVars, Begin, ReadCache, Send, Answer, WriteCache

\* No key is seen ahead of the clock, and those published are seen now.
LEMMA SeenInTimeStays == JwksTypeOK /\ SeenInTime /\ [JwksNext]_jwksVars => SeenInTime'
<1> SUFFICES ASSUME JwksTypeOK, SeenInTime, [JwksNext]_jwksVars PROVE SeenInTime'
  OBVIOUS
<1> USE JwksAssumption DEF JwksTypeOK, SeenInTime, KeySets
<1>1. CASE Rotate
  BY <1>1 DEF Rotate
<1>2. CASE JwksTick
  BY <1>2 DEF JwksTick
<1>3. CASE UNCHANGED <<ticks, lastSeen, published>>
  BY <1>3
<1> QED
  BY <1>1, <1>2, <1>3
     DEF JwksNext, LookupStep, jwksVars, Begin, ReadCache, Send, Answer, WriteCache

\* An answer under way is in time, and what it brings was published since it was
\* asked for.
LEMMA AnswersFreshStays ==
    JwksTypeOK /\ SeenInTime /\ AnswersFresh /\ [JwksNext]_jwksVars => AnswersFresh'
<1> SUFFICES ASSUME JwksTypeOK, SeenInTime, AnswersFresh, [JwksNext]_jwksVars
             PROVE  AnswersFresh'
  OBVIOUS
<1> DEFINE Fresh(c) ==
      /\ lookup[c].pc # "idle" => lookup[c].result = "none"
      /\ lookup[c].pc \in {"wait", "write"} =>
            lookup[c].sent <= ticks /\ ticks <= lookup[c].sent + RequestTimeout
      /\ lookup[c].pc = "write" => \A k \in lookup[c].got : SeenSince(k, lookup[c].sent)
<1>t. /\ lookup \in [Verifiers -> LookupState]
      /\ \A c \in Verifiers : lookup[c].sent \in Nat /\ lookup[c].got \subseteq Kids
      /\ ticks \in Nat /\ RequestTimeout \in Nat /\ published \subseteq Kids
  BY JwksAssumption DEF JwksTypeOK, LookupState, KeySets
<1>r. \A r \in Results : Idle(r).pc = "idle"
  BY DEF Idle
<1>0. ASSUME NEW c \in Verifiers, lookup'[c] = lookup[c], ticks' = ticks PROVE Fresh(c)'
  BY <1>t, <1>0, SeenStays DEF SeenSince, AnswersFresh
<1>1. ASSUME NEW c \in Verifiers, Begin(c), NEW d \in Verifiers PROVE Fresh(d)'
  <2>1. CASE d = c
    BY <1>1, <1>t, <2>1 DEF Begin, Idle
  <2> QED
    BY <1>0, <1>1, <1>t, <2>1 DEF Begin
<1>2. ASSUME NEW c \in Verifiers, NEW set, lookup[c].pc # "idle", Select(c, set),
             ticks' = ticks, NEW d \in Verifiers
      PROVE  Fresh(d)'
  <2>1. CASE d = c
    BY <1>2, <1>t, <2>1, SelectStep DEF AnswersFresh
  <2> QED
    BY <1>0, <1>2, <1>t, <2>1, SelectStep
<1>3. ASSUME NEW c \in Verifiers, ReadCache(c), NEW d \in Verifiers PROVE Fresh(d)'
  <2>1. CASE d = c /\ lookup' = [lookup EXCEPT ![c].pc = "send"]
    BY <1>3, <1>t, <2>1 DEF ReadCache, AnswersFresh
  <2> QED
    BY <1>0, <1>2, <1>3, <1>t, <2>1 DEF ReadCache
<1>4. ASSUME NEW c \in Verifiers, Send(c), NEW d \in Verifiers PROVE Fresh(d)'
  <2>1. CASE d = c
    BY <1>4, <1>t, <2>1 DEF Send, AnswersFresh
  <2> QED
    BY <1>0, <1>4, <1>t, <2>1 DEF Send
<1>5. ASSUME NEW c \in Verifiers, Answer(c), NEW d \in Verifiers PROVE Fresh(d)'
  <2>1. CASE d = c /\ Return(c, "failed")
    BY <1>5, <1>t, <2>1 DEF Return, Idle
  <2>2. CASE d = c /\ lookup' = [lookup EXCEPT ![c].pc = "write", ![c].got = published]
    <3>1. \A k \in published : SeenSince(k, lookup[c].sent)
      BY <1>5, <1>t, JwksAssumption DEF Answer, AnswersFresh, SeenInTime, SeenSince
    <3> QED
      BY <1>5, <1>t, <2>2, <3>1 DEF Answer, AnswersFresh, SeenSince
  <2> QED
    BY <1>0, <1>5, <1>t, <2>1, <2>2 DEF Answer, Return
<1>6. ASSUME NEW c \in Verifiers, WriteCache(c), NEW d \in Verifiers PROVE Fresh(d)'
  BY <1>2, <1>6 DEF WriteCache
<1>7. ASSUME JwksTick, NEW d \in Verifiers PROVE Fresh(d)'
  BY <1>7, <1>t, SeenStays DEF JwksTick, AnswersFresh, SeenSince
<1>8. ASSUME Rotate \/ UNCHANGED jwksVars, NEW d \in Verifiers PROVE Fresh(d)'
  BY <1>0, <1>8 DEF Rotate, jwksVars
<1>9. \A d \in Verifiers : Fresh(d)'
  BY <1>1, <1>3, <1>4, <1>5, <1>6, <1>7, <1>8 DEF JwksNext, LookupStep
<1> QED
  BY <1>9 DEF AnswersFresh

\* Whatever is stored, and whenever, its instant is a request at most after its keys.
LEMMA CacheFreshStays ==
    KeyCacheInv /\ [JwksNext]_jwksVars => CacheFresh'
<1> SUFFICES ASSUME KeyCacheInv, [JwksNext]_jwksVars PROVE CacheFresh'
  OBVIOUS
<1>t. /\ JwksTypeOK /\ SeenInTime /\ AnswersFresh /\ CacheFresh
      /\ ticks \in Nat /\ RequestTimeout \in Nat
      /\ cache # Nil => cache.at \in Nat /\ cache.set \subseteq Kids
      /\ \A c \in Verifiers : lookup[c].sent \in Nat /\ lookup[c].got \subseteq Kids
  BY JwksAssumption DEF KeyCacheInv, JwksTypeOK, Cached, LookupState, KeySets
<1>1. CASE cache' = cache
  BY <1>1, <1>t, JwksTypes, SeenStays DEF CacheFresh, JwksTypeOK
<1>2. ASSUME NEW c \in Verifiers, WriteCache(c) PROVE CacheFresh'
  <2>1. /\ cache' = [at |-> ticks, set |-> lookup[c].got]
        /\ ticks' = ticks /\ lastSeen' = lastSeen
    BY <1>2 DEF WriteCache, Stamp
  <2>2. \A k \in lookup[c].got : SeenSince(k, ticks - RequestTimeout)
    BY <1>2, <1>t, JwksTypes DEF WriteCache, AnswersFresh, SeenSince, JwksTypeOK
  <2> QED
    BY <1>t, <2>1, <2>2 DEF CacheFresh, SeenSince
<1> QED
  BY <1>1, <1>2 DEF JwksNext, LookupStep, jwksVars, Begin, ReadCache, Send, Answer, Rotate,
                    JwksTick

\* A verification stays stable only while its key is published, so that the answer it
\* takes contains the key.
LEMMA StableHoldsStays ==
    JwksTypeOK /\ StableHolds /\ [JwksNext]_jwksVars => StableHolds'
<1> SUFFICES ASSUME JwksTypeOK, StableHolds, [JwksNext]_jwksVars PROVE StableHolds'
  OBVIOUS
<1> DEFINE Holds(c) ==
      lookup[c].pc # "idle" =>
          /\ lookup[c].kid \in published
          /\ lookup[c].pc = "write" => lookup[c].kid \in lookup[c].got
<1>t. lookup \in [Verifiers -> LookupState] /\ stable \subseteq Verifiers
  BY DEF JwksTypeOK
<1>0. ASSUME NEW c \in stable, lookup'[c] = lookup[c], published' = published PROVE Holds(c)'
  BY <1>0 DEF StableHolds
<1>1. ASSUME NEW c \in Verifiers, Begin(c), NEW d \in stable' PROVE Holds(d)'
  <2>1. CASE d = c
    BY <1>1, <1>t, <2>1 DEF Begin, Idle
  <2> QED
    BY <1>0, <1>1, <1>t, <2>1 DEF Begin
<1>2. ASSUME NEW c \in Verifiers, NEW set, lookup[c].pc # "idle", Select(c, set),
             published' = published, NEW d \in stable
      PROVE  Holds(d)'
  <2>1. CASE d = c
    BY <1>2, <1>t, <2>1, SelectStep DEF StableHolds
  <2> QED
    BY <1>0, <1>2, <1>t, <2>1, SelectStep
<1>3. ASSUME NEW c \in Verifiers, ReadCache(c), NEW d \in stable' PROVE Holds(d)'
  <2>1. CASE d = c /\ lookup' = [lookup EXCEPT ![c].pc = "send"]
    BY <1>3, <1>t, <2>1 DEF ReadCache, StableHolds
  <2> QED
    BY <1>0, <1>2, <1>3, <1>t, <2>1 DEF ReadCache
<1>4. ASSUME NEW c \in Verifiers, Send(c) \/ Answer(c), NEW d \in stable' PROVE Holds(d)'
  <2>1. CASE d = c
    <3>1. lookup[c].pc # "idle" /\ c \in stable /\ published' = published
      BY <1>4, <2>1 DEF Send, Answer
    <3>2. \/ lookup'[c].pc = "idle"
          \/ lookup'[c].pc = "wait" /\ lookup'[c].kid = lookup[c].kid
          \/ lookup'[c].pc = "write" /\ lookup'[c].kid = lookup[c].kid /\ lookup'[c].got = published
      BY <1>4, <1>t DEF Send, Answer, Return, Idle, LookupState
    <3> QED
      BY <2>1, <3>1, <3>2 DEF StableHolds
  <2> QED
    BY <1>0, <1>4, <1>t, <2>1 DEF Send, Answer, Return
<1>5. ASSUME NEW c \in Verifiers, WriteCache(c), NEW d \in stable' PROVE Holds(d)'
  BY <1>2, <1>5 DEF WriteCache
<1>6. ASSUME Rotate, NEW d \in stable' PROVE Holds(d)'
  BY <1>6, <1>t DEF Rotate, StableHolds
<1>7. ASSUME JwksTick \/ UNCHANGED jwksVars, NEW d \in stable' PROVE Holds(d)'
  BY <1>0, <1>7 DEF JwksTick, jwksVars
<1>8. \A d \in stable' : Holds(d)'
  BY <1>1, <1>3, <1>4, <1>5, <1>6, <1>7 DEF JwksNext, LookupStep
<1> QED
  BY <1>8 DEF StableHolds

\* KeyCacheInv is inductive.
LEMMA KeyCacheInvHolds == JwksSpec => []KeyCacheInv
<1>1. JwksInit => KeyCacheInv
  <2> SUFFICES ASSUME JwksInit PROVE KeyCacheInv
    OBVIOUS
  <2>1. \A c \in Verifiers : lookup[c] = Idle("none") /\ lookup[c] \in LookupState
    BY LookupStates DEF JwksInit, Results
  <2>2. JwksTypeOK
    <3>1. InstantsArePast
      BY <2>1, JwksAssumption DEF JwksInit, InstantsArePast, Idle
    <3> QED
      BY <2>1, <3>1, JwksAssumption DEF JwksInit, JwksTypeOK, KeySets
  <2> QED
    BY <2>1, <2>2, JwksAssumption
       DEF JwksInit, KeyCacheInv, SeenInTime, AnswersFresh, CacheFresh, StableHolds, Idle, KeySets
<1>2. KeyCacheInv /\ [JwksNext]_jwksVars => KeyCacheInv'
  BY JwksTypes, SeenInTimeStays, AnswersFreshStays, CacheFreshStays, StableHoldsStays
     DEF KeyCacheInv
<1> QED
  BY <1>1, <1>2, PTL DEF JwksSpec

\* The signing-key cache keeps its types.
THEOREM KeyCacheTypeCorrect == JwksSpec => []JwksTypeOK
<1>1. KeyCacheInv => JwksTypeOK
  BY DEF KeyCacheInv
<1> QED
  BY <1>1, KeyCacheInvHolds, PTL

\* What a verification is told, and on which set: the cached one while it serves, or
\* the answer to a request of its own, which stands in the cache then.
LEMMA Told ==
    ASSUME KeyCacheInv, [JwksNext]_jwksVars, NEW c \in Verifiers,
           lookup[c].pc # "idle", lookup'[c].result \in {"found", "unknown"}
    PROVE  /\ lookup'[c].result = "unknown" => lookup[c].force
           /\ \/ /\ Serves(c)
                 /\ lookup'[c].result = "found" <=> Find(lookup[c].kid, cache.set)
              \/ /\ lookup[c].pc = "write"
                 /\ lookup'[c].result = "found" <=> Find(lookup[c].kid, lookup[c].got)
<1>t. /\ lookup \in [Verifiers -> LookupState]
      /\ lookup[c].result = "none"
  BY DEF KeyCacheInv, JwksTypeOK, AnswersFresh
<1>1. lookup'[c] # lookup[c]
  BY <1>t
<1>2. ASSUME NEW set, Select(c, set)
      PROVE  /\ lookup'[c].result = "unknown" => lookup[c].force
             /\ lookup'[c].result = "found" <=> Find(lookup[c].kid, set)
  BY <1>2, <1>t, SelectStep
<1>3. CASE ReadCache(c)
  <2>1. lookup' # [lookup EXCEPT ![c].pc = "send"]
    BY <1>t DEF LookupState
  <2> QED
    BY <1>2, <1>3, <2>1 DEF ReadCache
<1>4. CASE WriteCache(c)
  BY <1>2, <1>4 DEF WriteCache
<1>5. ~Begin(c) /\ ~Send(c) /\ ~Answer(c)
  <2>1. Idle("failed").result = "failed"
    BY DEF Idle
  <2> QED
    BY <1>t, <2>1 DEF Begin, Send, Answer, Return, LookupState
<1>6. \A d \in Verifiers \ {c} : ~Begin(d) /\ ~LookupStep(d)
  BY <1>1, <1>t, SelectStep DEF Begin, LookupStep, ReadCache, Send, Answer, WriteCache, Return
<1>7. ~Rotate /\ ~JwksTick /\ ~UNCHANGED jwksVars
  BY <1>1 DEF Rotate, JwksTick, jwksVars
<1> QED
  BY <1>3, <1>4, <1>5, <1>6, <1>7 DEF JwksNext, LookupStep

\* A withdrawn key is accepted for a lifetime of the cache and a request more at most,
\* for any number of verifications whose requests overtake each other.
THEOREM WithdrawnExpire == JwksSpec => WithdrawnKeysExpire
<1>1. KeyCacheInv /\ [JwksNext]_jwksVars =>
        [\A c \in Verifiers :
            LET k == lookup[c].kid IN
            lookup[c].pc # "idle" /\ k # Nil /\ lookup'[c].result = "found" =>
               lastSeen[k] # Nil /\ ticks <= lastSeen[k] + Ttl + RequestTimeout]_jwksVars
  <2> SUFFICES ASSUME KeyCacheInv, [JwksNext]_jwksVars, NEW c \in Verifiers,
                      lookup[c].pc # "idle", lookup[c].kid # Nil, lookup'[c].result = "found"
               PROVE  /\ lastSeen[lookup[c].kid] # Nil
                      /\ ticks <= lastSeen[lookup[c].kid] + Ttl + RequestTimeout
    OBVIOUS
  <2> DEFINE k == lookup[c].kid
  <2>t. /\ k \in Kids /\ lookup[c].sent \in Nat
        /\ ticks \in Nat /\ Ttl \in Nat /\ RequestTimeout \in Nat
        /\ lastSeen[k] \in Nat \cup {Nil}
        /\ cache # Nil => cache.at \in Nat
    BY JwksAssumption DEF KeyCacheInv, JwksTypeOK, Cached, LookupState
  <2>1. CASE Serves(c) /\ Find(k, cache.set)
    <3>1. ticks - cache.at < Ttl /\ SeenSince(k, cache.at - RequestTimeout) /\ cache # Nil
      BY <2>1 DEF Serves, Find, KeyCacheInv, CacheFresh
    <3> QED
      BY <2>t, <3>1 DEF SeenSince
  <2>2. CASE lookup[c].pc = "write" /\ Find(k, lookup[c].got)
    <3>1. ticks <= lookup[c].sent + RequestTimeout /\ SeenSince(k, lookup[c].sent)
      BY <2>2 DEF Find, KeyCacheInv, AnswersFresh
    <3> QED
      BY <2>t, <3>1 DEF SeenSince
  <2> QED
    BY <2>1, <2>2, Told
<1> QED
  BY <1>1, KeyCacheInvHolds, PTL DEF JwksSpec, WithdrawnKeysExpire

\* A verification whose key is published all along is refused as unknown only on a
\* set that is too young to be fetched again.
THEOREM RotatedAreFound == JwksSpec => RotatedKeysAreFound
<1>1. KeyCacheInv /\ [JwksNext]_jwksVars =>
        [\A c \in Verifiers :
            lookup[c].pc # "idle" /\ lookup'[c].result = "unknown" /\ c \in stable =>
               cache # Nil /\ ticks - cache.at < MinRefetch]_jwksVars
  <2> SUFFICES ASSUME KeyCacheInv, [JwksNext]_jwksVars, NEW c \in Verifiers,
                      lookup[c].pc # "idle", lookup'[c].result = "unknown", c \in stable
               PROVE  cache # Nil /\ ticks - cache.at < MinRefetch
    OBVIOUS
  <2>1. lookup[c].force
    BY Told
  <2>2. ~(lookup[c].pc = "write" /\ ~Find(lookup[c].kid, lookup[c].got))
    BY JwksAssumption DEF KeyCacheInv, StableHolds, Find, JwksTypeOK, KeySets
  <2>3. Serves(c)
    BY <2>2, Told
  <2> QED
    BY <2>1, <2>3 DEF Serves
<1> QED
  BY <1>1, KeyCacheInvHolds, PTL DEF JwksSpec, RotatedKeysAreFound

-----------------------------------------------------------------------------
(***************************************************************************)
(* The authorization code flow.                                            *)
(***************************************************************************)

\* One of the two protections that tie a code to the flow it is answered in.
CodesTied == ~world.mixed \/ world.pkce

\* An id_token the provider made for us names who authenticated with some code, and
\* carries the nonce of that code's flow.
Authentic(raw) ==
    Sound(raw.form) =>
        \E d \in codes : raw.user = d.user /\ raw.nonce = Nonce(d.flow)

\* What is known of a running exchange: its flow began and its code was issued; that
\* the code is of the flow, at the latest once it was redeemed; that a raw id_token is
\* of a flow that asked for one; and by when the exchange is over.
ExchangeOK(c) ==
    call[c] # None =>
        /\ call[c].flow \in Begun
        /\ call[c].code \in codes
        /\ now <= call[c].until
        /\ call[c].pc = "token" =>
              /\ ~world.mixed => call[c].code.flow = call[c].flow
              /\ call[c].until <= created[call[c].flow] + MaxAge + Timeout
        /\ call[c].pc = "verify" =>
              /\ CodesTied => call[c].code.flow = call[c].flow
              /\ WantsOidc
              /\ Authentic(call[c].raw)
              /\ call[c].until <= created[call[c].flow] + MaxAge + Timeout + 2 * Timeout

\* A session's token names in its own fields whom its code was issued for, and in its
\* claims who authenticated with the nonce of its flow.
TokenOK(s) ==
    token[s] # None =>
        /\ CodesTied => [flow |-> token[s].flow, user |-> token[s].user] \in codes
        /\ token[s].claims # None =>
              /\ WantsOidc
              /\ [flow |-> token[s].flow, user |-> token[s].claims.user] \in codes

FlowInv ==
    /\ TypeOK
    /\ \A c \in Calls : ExchangeOK(c)
    /\ \A s \in Sessions : TokenOK(s)

\* What every configuration of the nine providers has in common.
LEMMA ProviderFacts ==
    ASSUME provider \in Providers
    PROVE  /\ provider.oidc \in BOOLEAN /\ provider.openid \in BOOLEAN
           /\ provider.templated \in BOOLEAN
           /\ provider.profile \in {"userinfo", "graph", "profile"}
           /\ provider.profile = "profile" => ~provider.oidc
<1> DEFINE Fine(p) ==
      /\ p.oidc \in BOOLEAN /\ p.openid \in BOOLEAN /\ p.templated \in BOOLEAN
      /\ p.profile \in {"userinfo", "graph", "profile"}
      /\ p.profile = "profile" => ~p.oidc
<1>1. \A p \in Google \cup Okta \cup Auth0 \cup AwsCognito : Fine(p)
  BY DEF Google, Okta, Auth0, AwsCognito, Configs
<1>2. \A p \in MicrosoftEntra : Fine(p)
  BY DEF MicrosoftEntra, Configs
<1>3. \A p \in GitHub \cup GitLab \cup Discord \cup LinkedIn : Fine(p)
  BY DEF GitHub, GitLab, Discord, LinkedIn, Configs
<1>4. Fine(provider)
  <2> HIDE DEF Fine
  <2> QED
    BY <1>1, <1>2, <1>3 DEF Providers
<1> QED
  BY <1>4

\* Whatever the token endpoint answers is an id_token or none, and authentic.
LEMMA RawTokens ==
    ASSUME provider \in Providers, now \in Nat, codes \subseteq Code, NEW code \in codes,
           NEW raw \in RawIdTokens(code)
    PROVE  raw = None \/ (raw \in IdToken /\ Authentic(raw))
<1> DEFINE good == {form \in Forms : Sound(form)}
           of(d) == IdTokens({d.user}, {Nonce(d.flow)}, good)
           wrong == IdTokens(Users, {Nonce(code.flow)}, Forms \ good)
<1>t. /\ now + Lifetime \in Nat
      /\ \A d \in codes : d.user \in Users /\ d.flow \in Flows
      /\ \A f \in Flows : Nonce(f) \in Flows \cup {None}
  BY OAuthAssumption DEF Code, Nonce
<1>1. ASSUME NEW d \in codes, raw \in of(d) PROVE raw \in IdToken /\ Authentic(raw)
  BY <1>1, <1>t DEF IdTokens, IdToken, Authentic
<1>2. ASSUME raw \in wrong
      PROVE  raw \in IdToken /\ Authentic(raw)
  BY <1>2, <1>t DEF IdTokens, IdToken, Authentic
<1>3. CASE world.crossed
  <2>1. RawIdTokens(code) = (UNION {of(d) : d \in codes}) \cup {None} \cup wrong
    BY <1>3 DEF RawIdTokens
  <2>2. raw = None \/ raw \in wrong \/ \E d \in codes : raw \in of(d)
    <3> HIDE DEF of, wrong
    <3> QED
      BY <2>1
  <2> QED
    BY <1>1, <1>2, <2>2
<1>4. CASE WantsOidc /\ ~world.crossed
  <2>1. RawIdTokens(code) = of(code)
    BY <1>4 DEF RawIdTokens
  <2> QED
    BY <1>1, <2>1
<1>5. CASE ~WantsOidc /\ ~world.crossed
  BY <1>5 DEF RawIdTokens
<1> QED
  BY <1>3, <1>4, <1>5

\* What verify_id_token accepts, the provider made for us.
LEMMA VerifiedIsSound ==
    ASSUME NEW raw, NEW nonce, Verified(raw, nonce)
    PROVE  Sound(raw.form) /\ raw.nonce = nonce
BY DEF Verified, Sound, AudienceOk, IssuerOk, AuthorizedPartyOk

\* What an answered request makes of its call and of the tokens: the endpoint's
\* id_token is to be verified, or none is due and a token is handed out, or it is
\* missing and the exchange is over.
LEMMA AnsweredStep ==
    ASSUME TypeOK, NEW c \in Calls, call[c] # None, call[c].pc = "token",
           call[c].code \in codes, Answered(c)
    PROVE  /\ ~Refused(c)
           /\ spent' = spent \cup {call[c].code}
           /\ \/ /\ Nonce(call[c].flow) = None \/ ~provider.oidc
                 /\ Hand(c, None)
                 /\ call' = [call EXCEPT ![c] = None]
              \/ /\ call' = [call EXCEPT ![c] = None]
                 /\ token' = token
              \/ /\ Nonce(call[c].flow) # None
                 /\ token' = token
                 /\ \E raw \in IdToken :
                       /\ Authentic(raw)
                       /\ call' = [call EXCEPT ![c] = [call[c] EXCEPT !.pc = "verify", !.raw = raw,
                                                          !.until = now + 2 * Timeout]]
<1>1. PICK raw \in RawIdTokens(call[c].code) :
          \/ /\ ~Due(call[c].flow, raw)
             /\ Hand(c, None)
             /\ call' = [call EXCEPT ![c] = None]
          \/ /\ Due(call[c].flow, raw)
             /\ call' = [call EXCEPT ![c] =
                            IF Missing(raw) THEN None
                            ELSE [call[c] EXCEPT !.pc = "verify", !.raw = raw,
                                                 !.until = now + 2 * Timeout]]
             /\ UNCHANGED token
  BY DEF Answered
<1>2. raw = None \/ (raw \in IdToken /\ Authentic(raw))
  BY RawTokens DEF TypeOK
<1> QED
  BY <1>1, <1>2 DEF Answered, Due, Missing

\* The fields of a running exchange, and of the tokens.
LEMMA FieldTypes ==
    ASSUME TypeOK
    PROVE  /\ \A c \in Calls :
                 call[c] # None =>
                    /\ call[c].pc \in {"token", "verify"}
                    /\ call[c].session \in Sessions
                    /\ call[c].flow \in Flows
                    /\ call[c].code \in Code
                    /\ call[c].code.user \in Users /\ call[c].code.flow \in Flows
                    /\ call[c].until \in Nat
                    /\ call[c].pc = "verify" => call[c].raw \in IdToken
           /\ \A s \in Sessions : token[s] # None => token[s] \in Token
           /\ \A f \in Begun : f \in Flows /\ created[f] \in Nat
BY DEF TypeOK, CallState, CallOf, Code, Begun

\* A token that is handed out.
LEMMA HandTypes ==
    ASSUME TypeOK, NEW c \in Calls, call[c] # None, NEW claims \in Claims \cup {None},
           Hand(c, claims)
    PROVE  /\ token' \in [Sessions -> Token \cup {None}]
           /\ \A s \in Sessions \ {call[c].session} : token'[s] = token[s]
           /\ token'[call[c].session] =
                 [flow |-> call[c].flow, user |-> call[c].code.user, claims |-> claims]
BY FieldTypes DEF TypeOK, Hand, Token

\* What verify_id_token does: it hands out the verified user and tenant, or nothing.
LEMMA VerifyStep ==
    ASSUME TypeOK, NEW c \in Calls, VerifyIdToken(c)
    PROVE  \/ token' = token
           \/ /\ Verified(call[c].raw, Nonce(call[c].flow))
              /\ \E claims \in Claims :
                    claims.user = call[c].raw.user /\ Hand(c, claims)
<1>1. CASE token' = token
  BY <1>1
<1>2. CASE /\ Verified(call[c].raw, Nonce(call[c].flow))
           /\ Hand(c, [user |-> call[c].raw.user, tid |-> call[c].raw.form.tid])
  <2>1. call[c].raw \in IdToken
    BY FieldTypes DEF VerifyIdToken
  <2>2. call[c].raw.user \in Users /\ call[c].raw.form \in Forms
    BY <2>1 DEF IdToken
  <2>3. call[c].raw.form.tid \in STRING \cup {None}
    BY <2>2, OAuthAssumption
  <2>4. [user |-> call[c].raw.user, tid |-> call[c].raw.form.tid] \in Claims
    BY <2>2, <2>3 DEF Claims
  <2> QED
    BY <1>2, <2>4
<1> QED
  BY <1>1, <1>2 DEF VerifyIdToken

\* Every step keeps the types of the flow.
LEMMA FlowTypes ==
    TypeOK /\ (\A c \in Calls : ExchangeOK(c)) /\ [Next]_vars => TypeOK'
<1> SUFFICES ASSUME TypeOK, \A c \in Calls : ExchangeOK(c), [Next]_vars PROVE TypeOK'
  OBVIOUS
<1>t. /\ provider \in Providers /\ world \in Worlds
      /\ now \in Nat /\ Timeout \in Nat
      /\ \A a \in Ahead : now + a \in Nat
      /\ created \in [Flows -> Nat \cup {None}]
      /\ pending \in [Sessions -> Begun \cup {None}]
      /\ codes \subseteq Code /\ spent \subseteq codes
      /\ call \in [Calls -> CallState]
      /\ token \in [Sessions -> Token \cup {None}]
  BY OAuthAssumption DEF TypeOK
<1>n. None \in CallState
  BY DEF CallState
<1>1. ASSUME NEW s \in Sessions, AuthorizationUrl(s) PROVE TypeOK'
  <2>1. PICK f \in Flows \ Begun, a \in Ahead :
          /\ created' = [created EXCEPT ![f] = now + a]
          /\ pending' = [pending EXCEPT ![s] = f]
    BY <1>1 DEF AuthorizationUrl
  <2>2. now + a # None
    BY <1>t, OAuthAssumption
  <2>3. created' \in [Flows -> Nat \cup {None}]
    BY <1>t, <2>1
  <2>4. Begun' = Begun \cup {f}
    BY <1>t, <2>1, <2>2 DEF Begun
  <2>5. pending' \in [Sessions -> Begun' \cup {None}]
    BY <1>t, <2>1, <2>4
  <2> QED
    BY <1>1, <1>t, <2>3, <2>5 DEF AuthorizationUrl, TypeOK
<1>2. CASE Authenticate
  BY <1>2, <1>t DEF Authenticate, TypeOK, Code, Begun
<1>3. ASSUME NEW c \in Calls, NEW s \in Sessions, Callback(c, s) PROVE TypeOK'
  <2>1. pending' \in [Sessions -> Begun \cup {None}]
    BY <1>3, <1>t DEF Callback
  <2>2. pending[s] \in Flows
    BY <1>3, <1>t DEF Callback, Begun
  <2>3. PICK code \in codes :
           call' = [call EXCEPT ![c] = [pc |-> "token", session |-> s, flow |-> pending[s],
                                        code |-> code, raw |-> None, until |-> now + Timeout]]
           \/ call' = [call EXCEPT ![c] = None]
    BY <1>3 DEF Callback
  <2>4. [pc |-> "token", session |-> s, flow |-> pending[s], code |-> code, raw |-> None,
         until |-> now + Timeout] \in CallState
    BY <1>t, <2>2 DEF CallState, CallOf
  <2>5. call' \in [Calls -> CallState]
    BY <1>n, <1>t, <2>3, <2>4
  <2>6. Begun' = Begun
    BY <1>3 DEF Callback, Begun
  <2> QED
    BY <1>3, <1>t, <2>1, <2>5, <2>6 DEF Callback, TypeOK
<1>4. ASSUME NEW c \in Calls, RequestToken(c) PROVE TypeOK'
  <2>0. call[c] # None /\ call[c].pc = "token" /\ call[c].code \in codes
    BY <1>4 DEF RequestToken, ExchangeOK
  <2>1. call' \in [Calls -> CallState] /\ token' \in [Sessions -> Token \cup {None}]
        /\ spent' \subseteq codes
    <3>1. CASE Failed(c)
      BY <1>n, <1>t, <2>0, <3>1 DEF Failed
    <3>2. CASE Answered(c)
      <4>1. now + 2 * Timeout \in Nat /\ call[c] \in CallOf({"token"}, {None})
        BY <1>t, <2>0 DEF CallState, CallOf
      <4>2. ASSUME NEW raw \in IdToken
            PROVE  [call[c] EXCEPT !.pc = "verify", !.raw = raw, !.until = now + 2 * Timeout]
                      \in CallState
        BY <4>1 DEF CallState, CallOf
      <4>3. call' \in [Calls -> CallState]
        <5>1. \/ call' = [call EXCEPT ![c] = None]
              \/ \E raw \in IdToken :
                    call' = [call EXCEPT ![c] = [call[c] EXCEPT !.pc = "verify", !.raw = raw,
                                                               !.until = now + 2 * Timeout]]
          BY <2>0, <3>2, AnsweredStep
        <5>2. CASE call' = [call EXCEPT ![c] = None]
          BY <1>n, <1>t, <5>2
        <5> QED
          BY <1>t, <4>2, <5>1, <5>2
      <4>4. token' = token \/ Hand(c, None)
        BY <2>0, <3>2, AnsweredStep
      <4>5. spent' = spent \cup {call[c].code}
        BY <3>2 DEF Answered
      <4> QED
        BY <1>t, <2>0, <4>3, <4>4, <4>5, HandTypes
    <3> QED
      BY <1>4, <3>1, <3>2 DEF RequestToken
  <2>2. Begun' = Begun
    BY <1>4 DEF RequestToken, Begun
  <2> QED
    BY <1>4, <1>t, <2>1, <2>2 DEF RequestToken, TypeOK
<1>5. ASSUME NEW c \in Calls, VerifyIdToken(c) PROVE TypeOK'
  <2>1. call' \in [Calls -> CallState]
    BY <1>5, <1>n, <1>t DEF VerifyIdToken
  <2>2. token' \in [Sessions -> Token \cup {None}]
    BY <1>5, <1>t, VerifyStep, HandTypes DEF VerifyIdToken
  <2>3. Begun' = Begun
    BY <1>5 DEF VerifyIdToken, Begun
  <2> QED
    BY <1>5, <1>t, <2>1, <2>2, <2>3 DEF VerifyIdToken, TypeOK
<1>6. ASSUME NEW s \in Sessions, RefreshToken(s) PROVE TypeOK'
  <2>1. [token[s] EXCEPT !.claims = None] \in Token
    BY <1>6, <1>t DEF RefreshToken, Token
  <2>2. token' \in [Sessions -> Token \cup {None}]
    BY <1>6, <1>t, <2>1 DEF RefreshToken
  <2>3. Begun' = Begun
    BY <1>6 DEF RefreshToken, Begun
  <2> QED
    BY <1>6, <1>t, <2>2, <2>3 DEF RefreshToken, TypeOK
<1>7. CASE Tick
  BY <1>7, <1>t DEF Tick, TypeOK, Begun
<1>8. CASE UNCHANGED vars
  BY <1>8, <1>t DEF vars, TypeOK, Begun
<1> QED
  BY <1>1, <1>2, <1>3, <1>4, <1>5, <1>6, <1>7, <1>8 DEF Next

\* No step takes back a code or the beginning of a flow, or changes the setting.
LEMMA StepKeeps ==
    ASSUME TypeOK, [Next]_vars
    PROVE  /\ provider' = provider /\ world' = world
           /\ codes \subseteq codes'
           /\ \A f \in Begun : f \in Begun' /\ created'[f] = created[f]
<1>1. codes \subseteq codes'
  BY DEF Next, vars, AuthorizationUrl, Authenticate, Callback, RequestToken, VerifyIdToken,
         RefreshToken, Tick
<1>2. CASE created' = created
  BY <1>1, <1>2
     DEF Begun, Next, vars, AuthorizationUrl, Authenticate, Callback, RequestToken, VerifyIdToken,
         RefreshToken, Tick
<1>3. ASSUME NEW s \in Sessions, AuthorizationUrl(s)
      PROVE  /\ provider' = provider /\ world' = world
             /\ \A f \in Begun : f \in Begun' /\ created'[f] = created[f]
  BY <1>3 DEF AuthorizationUrl, Begun, TypeOK
<1> QED
  BY <1>1, <1>2, <1>3
     DEF Next, vars, Authenticate, Callback, RequestToken, VerifyIdToken, RefreshToken, Tick

\* What is authentic stays so.
LEMMA AuthenticStays ==
    ASSUME TypeOK, [Next]_vars, NEW raw, Authentic(raw) PROVE Authentic(raw)'
BY StepKeeps DEF Authentic, Sound, Nonce, WantsOidc

\* What is known of an exchange holds on while others step.
LEMMA OthersKeep ==
    ASSUME FlowInv, [Next]_vars, NEW c \in Calls, call'[c] = call[c], call[c] # None =>
           now' <= call[c].until
    PROVE  ExchangeOK(c)'
<1> SUFFICES ASSUME call[c] # None PROVE ExchangeOK(c)'
  BY DEF ExchangeOK
<1>1. PICK e : e = call[c] /\ call'[c] = e
  OBVIOUS
<1>2. /\ TypeOK /\ ExchangeOK(c)
  BY DEF FlowInv
<1>3. e.pc = "verify" => Authentic(e.raw)'
  BY <1>1, <1>2, AuthenticStays DEF ExchangeOK
<1>4. /\ e.flow \in Begun' /\ created'[e.flow] = created[e.flow] /\ e.code \in codes'
      /\ world' = world /\ provider' = provider
  BY <1>1, <1>2, StepKeeps DEF ExchangeOK
<1> QED
  BY <1>1, <1>2, <1>3, <1>4 DEF ExchangeOK, CodesTied, WantsOidc

\* The checks of exchange_code: the state, which ties the code to the flow if the
\* browser kept them together, and the age.
LEMMA CallbackStep ==
    ASSUME FlowInv, NEW c \in Calls, NEW s \in Sessions, Callback(c, s), call'[c] # None
    PROVE  \E code \in codes :
              /\ call' = [call EXCEPT ![c] = [pc |-> "token", session |-> s, flow |-> pending[s],
                                              code |-> code, raw |-> None,
                                              until |-> now + Timeout]]
              /\ pending[s] \in Begun
              /\ ~world.mixed => code.flow = pending[s]
              /\ now <= created[pending[s]] + MaxAge
<1>t. /\ TypeOK /\ pending[s] \in Begun /\ call \in [Calls -> CallState]
      /\ now \in Nat /\ MaxAge \in Nat /\ created[pending[s]] \in Nat
      /\ \A a \in Ahead : a \in Nat
  BY OAuthAssumption, FieldTypes DEF FlowInv, TypeOK, Callback
<1>1. PICK code \in codes, a \in Ahead :
       \E returned \in ReturnedStates(code) :
          call' = [call EXCEPT ![c] =
                     IF CheckState(pending[s], returned) /\ ~IsExpired(pending[s], now + a)
                     THEN [pc |-> "token", session |-> s, flow |-> pending[s], code |-> code,
                           raw |-> None, until |-> now + Timeout]
                     ELSE None]
  BY DEF Callback
<1>2. PICK returned \in ReturnedStates(code) :
          call' = [call EXCEPT ![c] =
                     IF CheckState(pending[s], returned) /\ ~IsExpired(pending[s], now + a)
                     THEN [pc |-> "token", session |-> s, flow |-> pending[s], code |-> code,
                           raw |-> None, until |-> now + Timeout]
                     ELSE None]
  BY <1>1
<1>3. CheckState(pending[s], returned) /\ ~IsExpired(pending[s], now + a)
  BY <1>t, <1>2
<1>4. ~world.mixed => code.flow = pending[s]
  BY <1>2, <1>3 DEF CheckState, ReturnedStates
<1>5. now <= created[pending[s]] + MaxAge
  BY <1>t, <1>3 DEF IsExpired
<1> QED
  BY <1>t, <1>2, <1>3, <1>4, <1>5

\* What is known of the exchanges is kept by every step.
LEMMA ExchangesStay == FlowInv /\ [Next]_vars => \A c \in Calls : ExchangeOK(c)'
<1> SUFFICES ASSUME FlowInv, [Next]_vars, NEW c \in Calls PROVE ExchangeOK(c)'
  OBVIOUS
<1>t. /\ TypeOK /\ ExchangeOK(c)
      /\ call \in [Calls -> CallState]
      /\ now \in Nat /\ Timeout \in Nat /\ MaxAge \in Nat
      /\ \A f \in Begun : created[f] \in Nat
  BY OAuthAssumption, FieldTypes DEF FlowInv, TypeOK
<1>n. CASE call'[c] = None
  BY <1>n DEF ExchangeOK
<1>0. CASE call'[c] = call[c] /\ now' = now
  BY <1>0, <1>t, OthersKeep DEF ExchangeOK
<1>1. ASSUME NEW s \in Sessions, Callback(c, s), call'[c] # None PROVE ExchangeOK(c)'
  <2>1. PICK code \in codes :
              /\ call' = [call EXCEPT ![c] = [pc |-> "token", session |-> s, flow |-> pending[s],
                                              code |-> code, raw |-> None,
                                              until |-> now + Timeout]]
              /\ pending[s] \in Begun
              /\ ~world.mixed => code.flow = pending[s]
              /\ now <= created[pending[s]] + MaxAge
    BY <1>1, CallbackStep
  <2>2. PICK e : /\ e = [pc |-> "token", session |-> s, flow |-> pending[s], code |-> code,
                         raw |-> None, until |-> now + Timeout]
                 /\ call'[c] = e
    BY <1>t, <2>1
  <2>3. /\ now <= now + Timeout
        /\ now + Timeout <= created[pending[s]] + MaxAge + Timeout
    BY <1>t, <2>1
  <2>4. UNCHANGED <<now, created, codes, world>> /\ Begun' = Begun
    BY <1>1 DEF Callback, Begun
  <2> QED
    BY <2>1, <2>2, <2>3, <2>4 DEF ExchangeOK
<1>2. ASSUME RequestToken(c), call'[c] # None PROVE ExchangeOK(c)'
  <2>1. call[c] # None /\ call[c].pc = "token" /\ call[c].code \in codes /\ Answered(c)
    BY <1>2, <1>t DEF RequestToken, Failed, ExchangeOK
  <2>2. PICK raw \in IdToken :
          /\ Nonce(call[c].flow) # None
          /\ Authentic(raw)
          /\ call' = [call EXCEPT ![c] = [call[c] EXCEPT !.pc = "verify", !.raw = raw,
                                                         !.until = now + 2 * Timeout]]
    BY <1>2, <1>t, <2>1, AnsweredStep
  <2>3. CodesTied => call[c].code.flow = call[c].flow
    BY <1>t, <2>1, AnsweredStep DEF CodesTied, Refused, ExchangeOK
  <2>4. WantsOidc
    BY <2>2 DEF Nonce
  <2>5. now + 2 * Timeout <= created[call[c].flow] + MaxAge + Timeout + 2 * Timeout
        /\ now <= now + 2 * Timeout
    BY <1>t, <2>1, FieldTypes DEF ExchangeOK
  <2>6. PICK e : /\ call'[c] = e /\ e.pc = "verify" /\ e.raw = raw /\ e.until = now + 2 * Timeout
                 /\ e.flow = call[c].flow /\ e.code = call[c].code
    <3>1. call[c] \in CallOf({"token"}, {None})
      BY <1>t, <2>1 DEF CallState, CallOf
    <3>2. PICK e : e = [call[c] EXCEPT !.pc = "verify", !.raw = raw, !.until = now + 2 * Timeout]
      OBVIOUS
    <3>3. /\ e.pc = "verify" /\ e.raw = raw /\ e.until = now + 2 * Timeout
          /\ e.flow = call[c].flow /\ e.code = call[c].code
      BY <3>1, <3>2 DEF CallOf
    <3>4. call'[c] = e
      BY <1>t, <2>2, <3>2
    <3> QED
      BY <3>3, <3>4
  <2>7. Authentic(raw)'
    BY <1>t, <2>2, AuthenticStays
  <2>8. UNCHANGED <<now, created, codes, world, provider>> /\ Begun' = Begun
    BY <1>2 DEF RequestToken, Begun
  <2> QED
    BY <1>t, <2>1, <2>3, <2>4, <2>5, <2>6, <2>7, <2>8 DEF ExchangeOK, CodesTied, WantsOidc
<1>3. CASE Tick
  BY <1>3, <1>t, OthersKeep, FieldTypes DEF Tick
<1>4. ASSUME NEW d \in Calls \ {c},
             (\E s \in Sessions : Callback(d, s)) \/ RequestToken(d) \/ VerifyIdToken(d)
      PROVE  call'[c] = call[c] /\ now' = now
  <2>1. \E x : call' = [call EXCEPT ![d] = x]
    BY <1>4 DEF Callback, RequestToken, Answered, Failed, VerifyIdToken
  <2> QED
    BY <1>4, <1>t, <2>1 DEF Callback, RequestToken, VerifyIdToken
<1>5. VerifyIdToken(c) => call'[c] = None
  BY <1>t DEF VerifyIdToken
<1> QED
  BY <1>n, <1>0, <1>1, <1>2, <1>3, <1>4, <1>5
     DEF Next, vars, AuthorizationUrl, Authenticate, RefreshToken

\* The steps that change a session's token: a refresh, an answered request that no
\* id_token was due for, and an id_token that was verified.
LEMMA TokenStep ==
    ASSUME FlowInv, [Next]_vars, NEW s \in Sessions, token'[s] # token[s]
    PROVE  \/ Refreshed(s)
           \/ \E c \in Calls :
                 /\ call[c] # None /\ call[c].pc = "token" /\ ~Refused(c)
                 /\ Nonce(call[c].flow) = None \/ ~provider.oidc
                 /\ token'[s] = [flow |-> call[c].flow, user |-> call[c].code.user,
                                 claims |-> None]
           \/ \E c \in Calls : \E claims \in Claims :
                 /\ call[c] # None /\ call[c].pc = "verify"
                 /\ Verified(call[c].raw, Nonce(call[c].flow))
                 /\ claims.user = call[c].raw.user
                 /\ token'[s] = [flow |-> call[c].flow, user |-> call[c].code.user,
                                 claims |-> claims]
<1>t. TypeOK /\ token \in [Sessions -> Token \cup {None}] /\ \A c \in Calls : ExchangeOK(c)
  BY DEF FlowInv, TypeOK
<1>1. ASSUME NEW c \in Calls, RequestToken(c)
      PROVE  /\ call[c] # None /\ call[c].pc = "token" /\ ~Refused(c)
             /\ Nonce(call[c].flow) = None \/ ~provider.oidc
             /\ token'[s] = [flow |-> call[c].flow, user |-> call[c].code.user, claims |-> None]
  <2>1. call[c] # None /\ call[c].pc = "token" /\ call[c].code \in codes /\ Answered(c)
    BY <1>1, <1>t DEF RequestToken, Failed, ExchangeOK
  <2>2. ~Refused(c) /\ (Nonce(call[c].flow) = None \/ ~provider.oidc) /\ Hand(c, None)
    BY <1>t, <2>1, AnsweredStep
  <2> QED
    BY <1>t, <2>1, <2>2, HandTypes
<1>2. ASSUME NEW c \in Calls, VerifyIdToken(c)
      PROVE  \E claims \in Claims :
                 /\ call[c] # None /\ call[c].pc = "verify"
                 /\ Verified(call[c].raw, Nonce(call[c].flow))
                 /\ claims.user = call[c].raw.user
                 /\ token'[s] = [flow |-> call[c].flow, user |-> call[c].code.user,
                                 claims |-> claims]
  <2>1. PICK claims \in Claims : claims.user = call[c].raw.user /\ Hand(c, claims)
    BY <1>2, <1>t, VerifyStep
  <2>2. call[c] # None /\ call[c].pc = "verify" /\ Verified(call[c].raw, Nonce(call[c].flow))
    BY <1>2, <1>t, VerifyStep DEF VerifyIdToken
  <2> QED
    BY <1>t, <2>1, <2>2, HandTypes
<1>3. ASSUME NEW r \in Sessions, RefreshToken(r) PROVE Refreshed(s)
  BY <1>3, <1>t DEF RefreshToken, Refreshed
<1> QED
  BY <1>1, <1>2, <1>3 DEF Next, vars, AuthorizationUrl, Authenticate, Callback, Tick

\* What is known of the tokens is kept by every step.
LEMMA TokensStay == FlowInv /\ [Next]_vars => \A s \in Sessions : TokenOK(s)'
<1> SUFFICES ASSUME FlowInv, [Next]_vars, NEW s \in Sessions PROVE TokenOK(s)'
  OBVIOUS
<1>t. TypeOK /\ TokenOK(s) /\ \A c \in Calls : ExchangeOK(c)
  BY DEF FlowInv
<1>k. codes \subseteq codes' /\ provider' = provider /\ world' = world
  BY <1>t, StepKeeps
<1>0. CASE token'[s] = token[s]
  BY <1>0, <1>k, <1>t DEF TokenOK, CodesTied, WantsOidc
<1>1. CASE Refreshed(s)
  <2>1. token[s] \in Token
    BY <1>1, <1>t, FieldTypes DEF Refreshed
  <2>2. /\ token'[s].flow = token[s].flow /\ token'[s].user = token[s].user
        /\ token'[s].claims = None
    BY <1>1, <2>1 DEF Refreshed, Token
  <2> QED
    BY <1>1, <1>k, <1>t, <2>2 DEF Refreshed, TokenOK, CodesTied
<1>2. ASSUME NEW c \in Calls,
             /\ call[c] # None /\ call[c].pc = "token" /\ ~Refused(c)
             /\ token'[s] = [flow |-> call[c].flow, user |-> call[c].code.user, claims |-> None]
      PROVE  TokenOK(s)'
  <2>1. CodesTied => call[c].code.flow = call[c].flow
    BY <1>2, <1>t DEF CodesTied, ExchangeOK, Refused
  <2>2. call[c].code \in codes /\ call[c].code \in Code
    BY <1>2, <1>t, FieldTypes DEF ExchangeOK
  <2>3. PICK f, u : f = call[c].flow /\ u = call[c].code.user
    OBVIOUS
  <2>4. CodesTied => [flow |-> f, user |-> u] \in codes
    BY <2>1, <2>2, <2>3 DEF Code
  <2> QED
    BY <1>2, <1>k, <2>3, <2>4 DEF TokenOK, CodesTied
<1>3. ASSUME NEW c \in Calls, NEW claims \in Claims,
             /\ call[c] # None /\ call[c].pc = "verify"
             /\ Verified(call[c].raw, Nonce(call[c].flow))
             /\ claims.user = call[c].raw.user
             /\ token'[s] = [flow |-> call[c].flow, user |-> call[c].code.user,
                             claims |-> claims]
      PROVE  TokenOK(s)'
  <2>1. /\ CodesTied => call[c].code.flow = call[c].flow
        /\ WantsOidc /\ Authentic(call[c].raw) /\ call[c].code \in codes
    BY <1>3, <1>t DEF ExchangeOK
  <2>2. PICK d \in codes : call[c].raw.user = d.user /\ call[c].raw.nonce = Nonce(d.flow)
    BY <1>3, <2>1, VerifiedIsSound DEF Authentic
  <2>3. d.flow = call[c].flow
    BY <1>3, <2>1, <2>2, VerifiedIsSound DEF Nonce
  <2>4. PICK f, u : f = call[c].flow /\ u = call[c].code.user
    OBVIOUS
  <2>5. CodesTied => [flow |-> f, user |-> u] \in codes
    BY <1>3, <1>t, <2>1, <2>4, FieldTypes DEF Code
  <2>6. [flow |-> f, user |-> claims.user] \in codes
    BY <1>3, <1>t, <2>2, <2>3, <2>4 DEF TypeOK, Code
  <2> QED
    BY <1>3, <1>k, <2>1, <2>4, <2>5, <2>6 DEF TokenOK, CodesTied, WantsOidc
<1> QED
  BY <1>0, <1>1, <1>2, <1>3, TokenStep

\* FlowInv is inductive.
LEMMA FlowInvHolds == Spec => []FlowInv
<1>1. Init => FlowInv
  BY OAuthAssumption
     DEF Init, FlowInv, TypeOK, ExchangeOK, TokenOK, Begun, CallState, Token
<1>2. FlowInv /\ [Next]_vars => FlowInv'
  BY FlowTypes, ExchangesStay, TokensStay DEF FlowInv
<1> QED
  BY <1>1, <1>2, PTL DEF Spec

\* Flows, exchanges and tokens keep their types.
THEOREM FlowTypeCorrect == Spec => []TypeOK
<1>1. FlowInv => TypeOK
  BY DEF FlowInv
<1> QED
  BY <1>1, FlowInvHolds, PTL

\* For every provider, any number of flows, sessions and exchanges, and whatever the
\* token endpoint answers: one protection of three is enough for a session to be told
\* only who authenticated in its own flow.
THEOREM FlowsAreApart == Spec => []FlowsDoNotMix
<1>1. FlowInv => FlowsDoNotMix
  <2> SUFFICES ASSUME FlowInv, NEW s \in Sessions, token[s] # None,
                      CodesTied \/ token[s].claims # None,
                      NEW u \in Named(token[s])
               PROVE  [flow |-> token[s].flow, user |-> u] \in codes
    BY DEF FlowsDoNotMix, CodesTied
  <2>1. TokenOK(s) /\ provider \in Providers
    BY DEF FlowInv, TypeOK
  <2>2. CASE provider.profile = "userinfo"
    BY <2>1, <2>2 DEF Named, UserInfo, TokenOK
  <2>3. CASE provider.profile = "graph"
    BY <2>1, <2>3 DEF Named, GraphUser, TokenOK
  <2>4. CASE provider.profile = "profile"
    BY <2>1, <2>4, ProviderFacts DEF Named, Profile, TokenOK, WantsOidc
  <2> QED
    BY <2>1, <2>2, <2>3, <2>4, ProviderFacts
<1> QED
  BY <1>1, FlowInvHolds, PTL

\* An exchange that asked for an id_token hands out none but verified tokens.
THEOREM OidcIsVerified == Spec => OidcTokensHaveClaims
<1>1. FlowInv /\ [Next]_vars =>
        [\A s \in Sessions :
            (token'[s] # token[s] /\ Nonce(token'[s].flow) # None)
               => (token'[s].claims # None \/ Refreshed(s))]_vars
  <2> SUFFICES ASSUME FlowInv, [Next]_vars, NEW s \in Sessions, token'[s] # token[s],
                      Nonce(token'[s].flow) # None, ~Refreshed(s)
               PROVE  token'[s].claims # None
    OBVIOUS
  <2>1. None \notin Claims
    BY OAuthAssumption DEF Claims
  <2>2. WantsOidc
    BY DEF Nonce
  <2>3. ASSUME NEW c \in Calls, Nonce(call[c].flow) = None \/ ~provider.oidc,
               token'[s].flow = call[c].flow
        PROVE  FALSE
    BY <2>2, <2>3 DEF WantsOidc, Nonce
  <2>4. CASE \E c \in Calls :
                /\ Nonce(call[c].flow) = None \/ ~provider.oidc
                /\ token'[s] = [flow |-> call[c].flow, user |-> call[c].code.user,
                                claims |-> None]
    BY <2>3, <2>4
  <2>5. CASE \E c \in Calls : \E claims \in Claims :
                token'[s] = [flow |-> call[c].flow, user |-> call[c].code.user,
                             claims |-> claims]
    BY <2>1, <2>5
  <2> QED
    BY <2>4, <2>5, TokenStep
<1> QED
  BY <1>1, FlowInvHolds, PTL DEF Spec, OidcTokensHaveClaims

\* However many exchanges a PendingAuth is used for and however late they are answered,
\* no token of its flow is handed out after the flow's age and its requests' timeouts.
THEOREM FlowsAreOver == Spec => FlowsEnd
<1>1. FlowInv /\ [Next]_vars =>
        [\A s \in Sessions :
            (token'[s] # token[s] /\ ~Refreshed(s)) =>
               now <= created[token'[s].flow] + MaxAge + Timeout
                      + (IF WantsOidc THEN 2 * Timeout ELSE 0)]_vars
  <2> SUFFICES ASSUME FlowInv, [Next]_vars, NEW s \in Sessions, token'[s] # token[s],
                      ~Refreshed(s)
               PROVE  now <= created[token'[s].flow] + MaxAge + Timeout
                             + (IF WantsOidc THEN 2 * Timeout ELSE 0)
    OBVIOUS
  <2>1. PICK c \in Calls :
          /\ call[c] # None
          /\ call[c].pc \in {"token", "verify"}
          /\ token'[s].flow = call[c].flow
    <3>1. CASE \E c \in Calls :
                  /\ call[c] # None /\ call[c].pc = "token"
                  /\ token'[s] = [flow |-> call[c].flow, user |-> call[c].code.user,
                                  claims |-> None]
      BY <3>1
    <3>2. CASE \E c \in Calls : \E claims \in Claims :
                  /\ call[c] # None /\ call[c].pc = "verify"
                  /\ token'[s] = [flow |-> call[c].flow, user |-> call[c].code.user,
                                  claims |-> claims]
      BY <3>2
    <3> QED
      BY <3>1, <3>2, TokenStep
  <2>2. ExchangeOK(c) /\ TypeOK
    BY DEF FlowInv
  <2>3. /\ call[c].until \in Nat /\ created[call[c].flow] \in Nat /\ now \in Nat
        /\ MaxAge \in Nat /\ Timeout \in Nat
    BY <2>1, <2>2, FieldTypes, OAuthAssumption DEF ExchangeOK, TypeOK
  <2> QED
    BY <2>1, <2>2, <2>3 DEF ExchangeOK
<1> QED
  BY <1>1, FlowInvHolds, PTL DEF Spec, FlowsEnd
=============================================================================
