-------------------------- MODULE SamlReplay_proofs --------------------------
(***************************************************************************)
(* Proofs about SamlReplay, for every set of processes, calls, assertions  *)
(* and every setting of the time bounds that SkewCovered and               *)
(* LifetimesCovered describe.                                              *)
(***************************************************************************)
EXTENDS SamlReplay, TLAPS

\* A running validation has a process that is up, and an assertion that was issued.
RunningOK ==
    \A c \in Calls : call[c].pc # "idle" =>
        /\ call[c].on \in Processes
        /\ life[call[c].on] = "up"
        /\ call[c].id \in Ids
        /\ assertion[call[c].id] # None

TypeInv == TypeOK /\ RunningOK

\* A call that only moves on, or also fixes a time.
LEMMA Moved ==
    ASSUME NEW r \in CallState, NEW s \in Steps, NEW u \in Nat
    PROVE  /\ [r EXCEPT !.pc = s] \in CallState
           /\ [r EXCEPT !.pc = s, !.until = u] \in CallState
           /\ [r EXCEPT !.at = u, !.pc = s] \in CallState
BY DEF CallState

\* Every step keeps the types and the running calls well formed.
LEMMA NextTypeInv == TypeInv /\ [Next]_vars => TypeInv'
<1> SUFFICES ASSUME TypeInv, [Next]_vars PROVE TypeInv'
  OBVIOUS
<1> USE SamlAssumption DEF TypeInv, TypeOK, RunningOK
<1>1. ASSUME NEW a \in Ids, Issue(a) PROVE TypeInv'
  <2>1. assertion' \in [Ids -> Assertion \cup {None}] /\ assertion'[a] # None
    <3>1. PICK l \in Lifetimes, q \in Requests \cup {None}, s \in BOOLEAN :
            assertion' = [assertion EXCEPT ![a] =
                            [expires |-> now + l, inResponseTo |-> q, signed |-> s]]
      BY <1>1 DEF Issue
    <3>2. now + l \in Nat
      OBVIOUS
    <3>3. [expires |-> now + l, inResponseTo |-> q, signed |-> s] \in Assertion
      BY <3>2 DEF Assertion
    <3>4. assertion'[a] # None
      BY <3>1, <3>3, NoneIsNoAssertion
    <3> QED
      BY <3>1, <3>3, <3>4
  <2>2. \A b \in Ids : assertion[b] # None => assertion'[b] # None
    BY <1>1, <2>1 DEF Issue
  <2> QED
    BY <1>1, <2>1, <2>2 DEF Issue
<1>2. ASSUME NEW c \in Calls, NEW p \in Processes, Validate(c, p) PROVE TypeInv'
  BY <1>2 DEF Validate, Verified, CallState, Steps
<1>3. ASSUME NEW c \in Calls, Record(c) PROVE TypeInv'
  <2>1. RememberUntil(assertion[call[c].id].expires, now) \in Nat
    BY <1>3 DEF Record, RememberUntil, Min2, Assertion
  <2>2. call' \in [Calls -> CallState]
    <3> DEFINE u == RememberUntil(assertion[call[c].id].expires, now)
    <3>1. call' = [call EXCEPT ![c] = [call[c] EXCEPT !.pc = "insert", !.until = u]]
      BY <1>3 DEF Record
    <3>2. [call[c] EXCEPT !.pc = "insert", !.until = u] \in CallState
      BY <2>1, Moved, "insert" \in Steps DEF Steps
    <3> QED
      BY <3>1, <3>2
  <2>3. \A d \in Calls : /\ call'[d].id = call[d].id /\ call'[d].on = call[d].on
                         /\ call'[d].pc # "idle" => call[d].pc # "idle"
    BY <1>3 DEF Record, CallState
  <2> QED
    BY <1>3, <2>2, <2>3 DEF Record
<1>4. ASSUME NEW c \in Calls, CheckAndInsert(c) PROVE TypeInv'
  <2> DEFINE s == IF Cardinality(Remembered(call[c].on)) >= PruneThreshold
                  THEN "prune" ELSE "entry"
  <2>1. s \in Steps
    BY DEF Steps
  <2>2. call' = [call EXCEPT ![c] = [call[c] EXCEPT !.at = now, !.pc = s]]
    BY <1>4 DEF CheckAndInsert
  <2> HIDE DEF s
  <2>3. [call[c] EXCEPT !.at = now, !.pc = s] \in CallState
    BY <2>1, Moved
  <2>4. call' \in [Calls -> CallState]
    BY <2>2, <2>3
  <2>5. \A d \in Calls : /\ call'[d].id = call[d].id /\ call'[d].on = call[d].on
                         /\ call'[d].pc # "idle" => call[d].pc # "idle"
    BY <1>4, <2>2 DEF CheckAndInsert, CallState
  <2> QED
    BY <1>4, <2>4, <2>5 DEF CheckAndInsert
<1>5. ASSUME NEW c \in Calls, PruneExpired(c) PROVE TypeInv'
  <2>1. cache' \in [Processes -> [Ids -> Nat \cup {None}]]
    BY <1>5 DEF PruneExpired
  <2>2. call' \in [Calls -> CallState]
    <3>1. call' = [call EXCEPT ![c] = [call[c] EXCEPT !.pc = "entry"]]
      BY <1>5 DEF PruneExpired
    <3>2. [call[c] EXCEPT !.pc = "entry"] \in CallState
      BY Moved, "entry" \in Steps DEF Steps
    <3> QED
      BY <3>1, <3>2
  <2>3. \A d \in Calls : /\ call'[d].id = call[d].id /\ call'[d].on = call[d].on
                         /\ call'[d].pc # "idle" => call[d].pc # "idle"
    BY <1>5 DEF PruneExpired, CallState
  <2> QED
    BY <1>5, <2>1, <2>2, <2>3 DEF PruneExpired
<1>6. ASSUME NEW c \in Calls, Entry(c) PROVE TypeInv'
  <2> DEFINE p == call[c].on
             a == call[c].id
  <2>1. p \in Processes /\ a \in Ids
    BY <1>6 DEF Entry
  <2>2. call[c].until \in Nat
    BY DEF CallState
  <2>a. UNCHANGED <<cache, uses>> \/ 
           /\ cache' = [cache EXCEPT ![p] = [cache[p] EXCEPT ![a] = call[c].until]]
           /\ uses' = [uses EXCEPT ![p] = [uses[p] EXCEPT ![a] = uses[p][a] + 1]]
    BY <1>6 DEF Entry
  <2>b. cache[p] \in [Ids -> Nat \cup {None}] /\ uses[p] \in [Ids -> Nat]
    BY <2>1
  <2>c. [cache[p] EXCEPT ![a] = call[c].until] \in [Ids -> Nat \cup {None}]
    BY <2>b, <2>2
  <2>d. [uses[p] EXCEPT ![a] = uses[p][a] + 1] \in [Ids -> Nat]
    BY <2>b, <2>1
  <2>3. cache' \in [Processes -> [Ids -> Nat \cup {None}]]
    BY <2>1, <2>a, <2>c
  <2>4. uses' \in [Processes -> [Ids -> Nat]]
    BY <2>1, <2>a, <2>d
  <2>6. call' \in [Calls -> CallState]
    BY <1>6 DEF Entry, Idle, CallState, Steps
  <2>7. RunningOK'
    BY <1>6 DEF Entry, Idle
  <2> QED
    BY <1>6, <2>3, <2>4, <2>6, <2>7 DEF Entry
<1>7. ASSUME NEW p \in Processes, Start(p) PROVE TypeInv'
  BY <1>7 DEF Start
<1>8. ASSUME NEW p \in Processes, Stop(p) PROVE TypeInv'
  BY <1>8 DEF Stop, CallState, Steps, Idle
<1>9. CASE Tick
  BY <1>9 DEF Tick
<1>10. CASE UNCHANGED vars
  BY <1>10 DEF vars
<1> QED
  BY <1>1, <1>2, <1>3, <1>4, <1>5, <1>6, <1>7, <1>8, <1>9, <1>10 DEF Next, CallStep

\* The variables always have their types.
THEOREM TypeCorrect == Spec => []TypeOK
<1>1. Init => TypeInv
  BY SamlAssumption DEF Init, TypeInv, TypeOK, RunningOK, Idle, CallState, Steps
<1>2. TypeInv => TypeOK
  BY DEF TypeInv
<1> QED
  BY <1>1, <1>2, NextTypeInv, PTL DEF Spec

-----------------------------------------------------------------------------
\* The instant until which an accepted assertion has to be remembered.
Horizon(a) == assertion[a].expires + ReplaySkew

\* A running validation checked the conditions not long ago, when they held, and
\* is to remember its assertion up to the horizon.
CallsInTime ==
    \A c \in Calls : call[c].pc # "idle" =>
        /\ call[c].checked <= now
        /\ now <= call[c].checked + MaxPause
        /\ call[c].checked <= assertion[call[c].id].expires + ValidationSkew
        /\ call[c].at <= now
        /\ call[c].pc # "record" => call[c].until = Horizon(call[c].id)

\* REPLAY_MAX_TTL never cuts a horizon short.
IssuedInTime ==
    \A a \in Ids : assertion[a] # None => Horizon(a) <= now + ReplayMaxTtl

\* An accepted assertion was accepted once, by a process that started, and is
\* remembered there up to its horizon while the process is up.
UsedOnce ==
    \A p \in Processes, a \in Ids :
        \/ uses[p][a] = 0
        \/ /\ uses[p][a] = 1
           /\ life[p] # "new"
           /\ assertion[a] # None
           /\ life[p] = "up" => cache[p][a] = Horizon(a) \/ Horizon(a) <= now

ReplayInv == TypeInv /\ CallsInTime /\ IssuedInTime /\ UsedOnce

\* The heart of the argument: a validation of an assertion its process accepted
\* before finds it still remembered when it reaches the map.
LEMMA SecondUseIsReplay ==
    ASSUME SkewCovered, ReplayInv, NEW c \in Calls, call[c].pc = "entry",
           uses[call[c].on][call[c].id] # 0
    PROVE  Replayed(c)
<1> DEFINE p == call[c].on
           a == call[c].id
<1>1. p \in Processes /\ life[p] = "up" /\ a \in Ids /\ assertion[a] \in Assertion
  BY DEF ReplayInv, TypeInv, TypeOK, RunningOK
<1>2. /\ now \in Nat /\ call[c].checked \in Nat /\ call[c].at \in Nat
      /\ assertion[a].expires \in Nat
  BY <1>1 DEF ReplayInv, TypeInv, TypeOK, CallState, Assertion
<1>3. now < Horizon(a)
  BY <1>2, SamlAssumption DEF ReplayInv, CallsInTime, SkewCovered, Horizon
<1>4. cache[p][a] = Horizon(a)
  BY <1>1, <1>2, <1>3, SamlAssumption DEF ReplayInv, UsedOnce, Horizon
<1>5. call[c].at < Horizon(a)
  BY <1>2, <1>3, SamlAssumption DEF ReplayInv, CallsInTime, Horizon
<1>6. Horizon(a) \in Nat
  BY <1>2, SamlAssumption DEF Horizon
<1> QED
  BY <1>4, <1>5, <1>6, SamlAssumption DEF Replayed

\* Every step keeps the invariant.
LEMMA NextReplayInv ==
    ASSUME SkewCovered, LifetimesCovered, ReplayInv, [Next]_vars
    PROVE  ReplayInv'
<1> USE SamlAssumption
<1>a. TypeInv /\ TypeInv'
  BY NextTypeInv DEF ReplayInv
<1>b. /\ now \in Nat
      /\ \A c \in Calls : /\ call[c].checked \in Nat
                          /\ call[c].at \in Nat
                          /\ call[c].until \in Nat
      /\ \A a \in Ids : assertion[a] # None => assertion[a].expires \in Nat
  BY <1>a DEF TypeInv, TypeOK, CallState, Assertion
<1>c. \A c \in Calls : call[c].pc # "idle" =>
        /\ call[c].on \in Processes /\ life[call[c].on] = "up"
        /\ call[c].id \in Ids /\ assertion[call[c].id] # None
  BY <1>a DEF TypeInv, RunningOK
<1>1. ASSUME NEW a \in Ids, Issue(a) PROVE ReplayInv'
  <2>1. PICK l \in Lifetimes : assertion'[a].expires = now + l
    BY <1>1, <1>a DEF Issue, TypeInv, TypeOK
  <2>2. l \in Nat /\ l + ReplaySkew <= ReplayMaxTtl
    BY DEF LifetimesCovered
  <2>3. \A b \in Ids : assertion[b] # None => assertion'[b] = assertion[b]
    BY <1>1, <1>a DEF Issue, TypeInv, TypeOK
  <2>4. \A b \in Ids \ {a} : assertion'[b] = assertion[b]
    BY <1>1, <1>a DEF Issue, TypeInv, TypeOK
  <2>5. IssuedInTime'
    BY <1>1, <1>b, <2>1, <2>2, <2>4 DEF Issue, ReplayInv, IssuedInTime, Horizon
  <2>6. CallsInTime'
    BY <1>1, <1>c, <2>3 DEF Issue, ReplayInv, CallsInTime, Horizon
  <2>7. UsedOnce'
    BY <1>1, <2>3, <1>a DEF Issue, ReplayInv, UsedOnce, Horizon, TypeInv, TypeOK
  <2> QED
    BY <1>a, <2>5, <2>6, <2>7 DEF ReplayInv
<1>2. ASSUME NEW c \in Calls, NEW p \in Processes, Validate(c, p) PROVE ReplayInv'
  <2>1. PICK a \in Ids, q \in Requests \cup {None} :
          /\ assertion[a] # None
          /\ InTime(assertion[a], now)
          /\ call' = [call EXCEPT ![c] = Verified(p, a)]
    BY <1>2 DEF Validate
  <2>2. /\ call'[c] = Verified(p, a)
        /\ \A d \in Calls \ {c} : call'[d] = call[d]
    BY <2>1, <1>a DEF TypeInv, TypeOK
  <2>3. CallsInTime'
    BY <1>2, <1>b, <2>1, <2>2 DEF Validate, Verified, InTime, ReplayInv, CallsInTime, Horizon
  <2> QED
    BY <1>2, <1>a, <2>3 DEF Validate, ReplayInv, IssuedInTime, UsedOnce, Horizon
<1>3. ASSUME NEW c \in Calls, Record(c) PROVE ReplayInv'
  <2> DEFINE a == call[c].id
  <2>1. call[c].pc # "idle" /\ a \in Ids /\ assertion[a] # None
    BY <1>3, <1>c DEF Record
  <2>2. RememberUntil(assertion[a].expires, now) = Horizon(a)
    BY <2>1, <1>b DEF ReplayInv, IssuedInTime, RememberUntil, Min2, Horizon
  <2>3. /\ call'[c] = [call[c] EXCEPT !.pc = "insert", !.until = Horizon(a)]
        /\ \A d \in Calls \ {c} : call'[d] = call[d]
    BY <1>3, <1>a, <2>2 DEF Record, TypeInv, TypeOK
  <2>4. call[c] \in CallState
    BY <1>a DEF TypeInv, TypeOK
  <2>5. /\ call'[c].id = a /\ call'[c].checked = call[c].checked
        /\ call'[c].at = call[c].at /\ call'[c].until = Horizon(a)
    BY <2>3, <2>4 DEF CallState
  <2>6. CallsInTime'
    <3> SUFFICES ASSUME NEW d \in Calls, call'[d].pc # "idle"
                 PROVE  /\ call'[d].checked <= now
                        /\ now <= call'[d].checked + MaxPause
                        /\ call'[d].checked <= assertion[call'[d].id].expires + ValidationSkew
                        /\ call'[d].at <= now
                        /\ call'[d].pc # "record" => call'[d].until = Horizon(call'[d].id)
      BY <1>3 DEF Record, CallsInTime, Horizon
    <3>1. CASE d = c
      BY <1>3, <1>b, <2>1, <2>3, <2>5, <3>1 DEF Record, ReplayInv, CallsInTime, Horizon
    <3>2. CASE d # c
      BY <2>1, <2>3, <2>5, <3>2 DEF ReplayInv, CallsInTime
    <3> QED
      BY <3>1, <3>2
  <2> QED
    BY <1>3, <1>a, <2>6 DEF Record, ReplayInv, IssuedInTime, UsedOnce, Horizon
<1>4. ASSUME NEW c \in Calls, CheckAndInsert(c) PROVE ReplayInv'
  <2>1. PICK s \in Steps : call' = [call EXCEPT ![c] = [call[c] EXCEPT !.at = now, !.pc = s]]
    BY <1>4 DEF CheckAndInsert, Steps
  <2>2. /\ call'[c] = [call[c] EXCEPT !.at = now, !.pc = s]
        /\ \A d \in Calls \ {c} : call'[d] = call[d]
    BY <2>1, <1>a DEF TypeInv, TypeOK
  <2>3. call[c] \in CallState /\ call[c].pc = "insert"
    BY <1>4, <1>a DEF TypeInv, TypeOK, CheckAndInsert
  <2>4. /\ call'[c].id = call[c].id /\ call'[c].checked = call[c].checked
        /\ call'[c].at = now /\ call'[c].until = call[c].until
    BY <2>2, <2>3 DEF CallState
  <2>5. CallsInTime'
    <3> SUFFICES ASSUME NEW d \in Calls, call'[d].pc # "idle"
                 PROVE  /\ call'[d].checked <= now
                        /\ now <= call'[d].checked + MaxPause
                        /\ call'[d].checked <= assertion[call'[d].id].expires + ValidationSkew
                        /\ call'[d].at <= now
                        /\ call'[d].pc # "record" => call'[d].until = Horizon(call'[d].id)
      BY <1>4 DEF CheckAndInsert, CallsInTime, Horizon
    <3>1. CASE d = c
      BY <1>4, <1>b, <2>2, <2>3, <2>4, <3>1 DEF CheckAndInsert, ReplayInv, CallsInTime, Horizon
    <3>2. CASE d # c
      BY <2>2, <2>3, <2>4, <3>2 DEF ReplayInv, CallsInTime
    <3> QED
      BY <3>1, <3>2
  <2> QED
    BY <1>4, <1>a, <2>5 DEF CheckAndInsert, ReplayInv, IssuedInTime, UsedOnce, Horizon
<1>5. ASSUME NEW c \in Calls, PruneExpired(c) PROVE ReplayInv'
  <2> DEFINE p == call[c].on
  <2>1. /\ call'[c] = [call[c] EXCEPT !.pc = "entry"]
        /\ \A d \in Calls \ {c} : call'[d] = call[d]
    BY <1>5, <1>a DEF PruneExpired, TypeInv, TypeOK
  <2>2. call[c] \in CallState /\ call[c].pc = "prune"
    BY <1>5, <1>a DEF TypeInv, TypeOK, PruneExpired
  <2>3. CallsInTime'
    BY <1>5, <2>1, <2>2 DEF PruneExpired, ReplayInv, CallsInTime, Horizon, CallState
  <2>4. \A q \in Processes, b \in Ids :
           cache'[q][b] = cache[q][b] \/ (cache[q][b] # None /\ ~StillNeeded(cache[q][b]))
    BY <1>5, <1>a DEF PruneExpired, TypeInv, TypeOK
  <2>5. UsedOnce'
    <3> SUFFICES ASSUME NEW q \in Processes, NEW b \in Ids, uses[q][b] # 0
                 PROVE  /\ uses[q][b] = 1
                        /\ life[q] # "new"
                        /\ assertion[b] # None
                        /\ life[q] = "up" => cache'[q][b] = Horizon(b) \/ Horizon(b) <= now
      BY <1>5 DEF PruneExpired, UsedOnce, Horizon
    <3>1. /\ uses[q][b] = 1
          /\ life[q] # "new"
          /\ assertion[b] # None
          /\ life[q] = "up" => cache[q][b] = Horizon(b) \/ Horizon(b) <= now
      BY DEF ReplayInv, UsedOnce
    <3>2. Horizon(b) \in Nat
      BY <1>b, <3>1 DEF Horizon
    <3> QED
      BY <1>b, <2>4, <3>1, <3>2 DEF StillNeeded
  <2> QED
    BY <1>5, <1>a, <2>3, <2>5 DEF PruneExpired, ReplayInv, IssuedInTime, Horizon
<1>6. ASSUME NEW c \in Calls, Entry(c) PROVE ReplayInv'
  <2> DEFINE p == call[c].on
             a == call[c].id
  <2>1. /\ p \in Processes /\ life[p] = "up"
        /\ a \in Ids /\ assertion[a] # None /\ call[c].pc = "entry"
    BY <1>6, <1>c DEF Entry
  <2>2. /\ call'[c] = Idle
        /\ \A d \in Calls \ {c} : call'[d] = call[d]
    BY <1>6, <1>a DEF Entry, TypeInv, TypeOK
  <2>3. CallsInTime'
    BY <1>6, <2>2 DEF Entry, Idle, ReplayInv, CallsInTime, Horizon
  <2>4. UsedOnce'
    <3>1. CASE Replayed(c)
      BY <1>6, <3>1 DEF Entry, ReplayInv, UsedOnce, Horizon
    <3>2. CASE ~Replayed(c)
      <4>1. uses[p][a] = 0
        BY <2>1, <3>2, SecondUseIsReplay
      <4>2. call[c].until = Horizon(a)
        BY <2>1 DEF ReplayInv, CallsInTime
      <4>3. /\ cache' = [cache EXCEPT ![p] = [cache[p] EXCEPT ![a] = Horizon(a)]]
            /\ uses' = [uses EXCEPT ![p] = [uses[p] EXCEPT ![a] = 1]]
        BY <1>6, <3>2, <4>1, <4>2 DEF Entry
      <4>4. /\ cache'[p][a] = Horizon(a) /\ uses'[p][a] = 1
            /\ \A q \in Processes, b \in Ids : q # p \/ b # a =>
                  cache'[q][b] = cache[q][b] /\ uses'[q][b] = uses[q][b]
        BY <2>1, <4>3, <1>a DEF TypeInv, TypeOK
      <4> QED
        BY <1>6, <2>1, <4>4 DEF Entry, ReplayInv, UsedOnce, Horizon
    <3> QED
      BY <3>1, <3>2
  <2> QED
    BY <1>6, <1>a, <2>3, <2>4 DEF Entry, ReplayInv, IssuedInTime, Horizon
<1>7. ASSUME NEW p \in Processes, Start(p) PROVE ReplayInv'
  <2>1. CallsInTime'
    BY <1>7 DEF Start, ReplayInv, CallsInTime, Horizon
  <2>2. \A q \in Processes : life'[q] = life[q] \/ (q = p /\ life[q] = "new")
    BY <1>7, <1>a DEF Start, TypeInv, TypeOK
  <2>3. UsedOnce'
    BY <1>7, <2>2 DEF Start, ReplayInv, UsedOnce, Horizon
  <2> QED
    BY <1>7, <1>a, <2>1, <2>3 DEF Start, ReplayInv, IssuedInTime, Horizon
<1>8. ASSUME NEW p \in Processes, Stop(p) PROVE ReplayInv'
  <2>1. \A d \in Calls : call'[d] = Idle \/ call'[d] = call[d]
    BY <1>8 DEF Stop
  <2>2. CallsInTime'
    BY <1>8, <2>1 DEF Stop, Idle, ReplayInv, CallsInTime, Horizon
  <2>3. \A q \in Processes, b \in Ids :
           \/ q = p /\ life'[q] = "over"
           \/ life'[q] = life[q] /\ cache'[q][b] = cache[q][b]
    BY <1>8, <1>a DEF Stop, TypeInv, TypeOK
  <2>4. UsedOnce'
    BY <1>8, <2>3 DEF Stop, ReplayInv, UsedOnce, Horizon
  <2> QED
    BY <1>8, <1>a, <2>2, <2>4 DEF Stop, ReplayInv, IssuedInTime, Horizon
<1>9. CASE Tick
  <2>1. now' = now + 1
    BY <1>9 DEF Tick
  <2>2. CallsInTime'
    BY <1>9, <1>b, <2>1 DEF Tick, ReplayInv, CallsInTime, Horizon
  <2>3. IssuedInTime'
    BY <1>9, <1>b, <2>1 DEF Tick, ReplayInv, IssuedInTime, Horizon
  <2>4. UsedOnce'
    BY <1>9, <1>b, <2>1 DEF Tick, ReplayInv, UsedOnce, Horizon
  <2> QED
    BY <1>a, <2>2, <2>3, <2>4 DEF ReplayInv
<1>10. CASE UNCHANGED vars
  BY <1>10, <1>a DEF vars, ReplayInv, CallsInTime, IssuedInTime, UsedOnce, Horizon
<1> QED
  BY <1>1, <1>2, <1>3, <1>4, <1>5, <1>6, <1>7, <1>8, <1>9, <1>10 DEF Next, CallStep

LEMMA InitReplayInv == Init => ReplayInv
BY SamlAssumption DEF Init, ReplayInv, TypeInv, TypeOK, RunningOK, CallsInTime, IssuedInTime,
   UsedOnce, Idle, CallState, Steps

\* A process accepts an assertion at most once in its life, for every
\* number of processes, calls and assertions, provided REPLAY_SKEW exceeds the
\* tolerated skew plus the pause of a call, and REPLAY_MAX_TTL every lifetime
\* plus REPLAY_SKEW.
THEOREM ReplaysAreRejected ==
    ASSUME SkewCovered, LifetimesCovered
    PROVE  Spec => []OncePerProcess
<1>1. ReplayInv => OncePerProcess
  BY DEF ReplayInv, UsedOnce, OncePerProcess
<1>2. ReplayInv /\ [Next]_vars => ReplayInv'
  BY NextReplayInv
<1> QED
  BY <1>1, <1>2, InitReplayInv, PTL DEF Spec

\* Under the same assumptions the documented promise of the cache holds: an
\* accepted assertion is remembered until it expires.
THEOREM RemembersAccepted ==
    ASSUME SkewCovered, LifetimesCovered
    PROVE  Spec => []RememberedUntilExpiry
<1>1. ReplayInv => RememberedUntilExpiry
  <2> SUFFICES ASSUME ReplayInv, NEW p \in Processes, NEW a \in Ids,
                      life[p] = "up", uses[p][a] > 0, now < assertion[a].expires
               PROVE  cache[p][a] # None /\ cache[p][a] > now
    BY DEF RememberedUntilExpiry
  <2>1. /\ assertion[a] # None
        /\ cache[p][a] = Horizon(a) \/ Horizon(a) <= now
    BY DEF ReplayInv, UsedOnce
  <2>2. assertion[a].expires \in Nat /\ now \in Nat
    BY <2>1 DEF ReplayInv, TypeInv, TypeOK, Assertion
  <2> QED
    BY <2>1, <2>2, SamlAssumption DEF Horizon
<1>2. ReplayInv /\ [Next]_vars => ReplayInv'
  BY NextReplayInv
<1> QED
  BY <1>1, <1>2, InitReplayInv, PTL DEF Spec

-----------------------------------------------------------------------------
\* What can never log in: it is too late, or the process is over.
Gone(x) == TooLate(x[2]) \/ life[x[1]] = "over"

\* It stays so.
LEMMA GoneStays ==
    ASSUME ReplayInv, [Next]_vars, NEW x \in Processes \X Ids, Gone(x) PROVE Gone(x)'
<1>1. x[1] \in Processes /\ x[2] \in Ids
  OBVIOUS
<1>2. TypeOK
  BY DEF ReplayInv, TypeInv
<1>3. CASE TooLate(x[2])
  <2>1. assertion[x[2]] # None /\ assertion[x[2]] \in Assertion
    BY <1>1, <1>2, <1>3 DEF TooLate, TypeOK
  <2>2. assertion'[x[2]] = assertion[x[2]] /\ now' \in Nat /\ now' >= now
    <3>1. ASSUME NEW b \in Ids, Issue(b)
          PROVE  assertion'[x[2]] = assertion[x[2]] /\ now' = now
      BY <1>2, <2>1, <3>1 DEF TypeOK, Issue
    <3>2. ASSUME Tick PROVE assertion' = assertion /\ now' = now + 1
      BY <3>2 DEF Tick
    <3>3. \/ assertion'[x[2]] = assertion[x[2]] /\ now' = now
          \/ assertion' = assertion /\ now' = now + 1
      BY <3>1, <3>2
         DEF Next, vars, CallStep, Validate, Record, CheckAndInsert, PruneExpired, Entry, Start,
             Stop
    <3>4. now \in Nat
      BY <1>2 DEF TypeOK
    <3> QED
      BY <3>3, <3>4
  <2> QED
    BY <1>2, <1>3, <2>1, <2>2, SamlAssumption DEF Gone, TooLate, TypeOK, Assertion
<1>4. CASE life[x[1]] = "over"
  <2>1. life'[x[1]] = "over"
    BY <1>1, <1>2, <1>4
       DEF TypeOK, Next, vars, CallStep, Issue, Validate, Record, CheckAndInsert, PruneExpired,
           Entry, Start, Stop, Tick
  <2> QED
    BY <2>1 DEF Gone
<1> QED
  BY <1>3, <1>4 DEF Gone

\* A step that counts a use is the first use of an assertion still in time, in a
\* process that is up.
LEMMA UseStep ==
    ASSUME SkewCovered, ReplayInv, [Next]_vars, uses' # uses
    PROVE  \E p \in Processes, a \in Ids :
              /\ uses[p][a] = 0
              /\ uses' = [uses EXCEPT ![p][a] = 1]
              /\ ~Gone(<<p, a>>)
              /\ UNCHANGED <<now, life, assertion>>
<1>1. PICK c \in Calls : Entry(c)
  BY DEF Next, vars, CallStep, Issue, Validate, Record, CheckAndInsert, PruneExpired, Start,
         Stop, Tick
<1> DEFINE p == call[c].on
           a == call[c].id
<1>2. /\ ~Replayed(c) /\ call[c].pc = "entry"
      /\ uses' = [uses EXCEPT ![p][a] = uses[p][a] + 1]
      /\ UNCHANGED <<now, life, assertion>>
  BY <1>1 DEF Entry
<1>3. /\ p \in Processes /\ a \in Ids
      /\ life[p] = "up" /\ assertion[a] \in Assertion
  BY <1>2 DEF ReplayInv, TypeInv, TypeOK, RunningOK
<1>4. uses[p][a] = 0
  BY <1>2, SecondUseIsReplay
<1>5. ~TooLate(a)
  <2>1. /\ now \in Nat /\ call[c].checked \in Nat /\ assertion[a].expires \in Nat
    BY <1>3 DEF ReplayInv, TypeInv, TypeOK, CallState, Assertion
  <2>2. /\ now <= call[c].checked + MaxPause
        /\ call[c].checked <= assertion[a].expires + ValidationSkew
    BY <1>2 DEF ReplayInv, CallsInTime
  <2> QED
    BY <2>1, <2>2, SamlAssumption DEF TooLate
<1>6. uses' = [uses EXCEPT ![p][a] = 1]
  BY <1>2, <1>4
<1> QED
  BY <1>2, <1>3, <1>4, <1>5, <1>6 DEF Gone

\* In every process an assertion is a one-time credential: it logs in at most once,
\* and never when it is too late or the process is over.
THEOREM AssertionsAreOneTime ==
    ASSUME SkewCovered, LifetimesCovered
    PROVE  Spec => ImplementsOneTime
<1> DEFINE Credentials == Processes \X Ids
           Voided == {x \in Credentials : Uses[x] = 0 /\ Gone(x)}
<1>1. Init => Promise!Init
  BY DEF Init, Promise!Init, Uses, TooLate
<1>2. ReplayInv /\ [Next]_vars => [Promise!Next]_(Promise!oneTimeVars)
  <2> SUFFICES ASSUME ReplayInv, [Next]_vars PROVE [Promise!Next]_(Promise!oneTimeVars)
    OBVIOUS
  <2>1. CASE uses' = uses
    <3>1. Uses' = Uses
      BY <2>1 DEF Uses
    <3>2. Promise!Void
      BY <3>1, GoneStays DEF Promise!Void, Promise!VoidGrows, Gone
    <3> QED
      BY <3>2 DEF Promise!Next
  <2>2. CASE uses' # uses
    <3>1. PICK p \in Processes, a \in Ids :
             /\ uses[p][a] = 0
             /\ uses' = [uses EXCEPT ![p][a] = 1]
             /\ ~Gone(<<p, a>>)
             /\ UNCHANGED <<now, life, assertion>>
      BY <2>2, UseStep
    <3> DEFINE y == <<p, a>>
    <3>2. y \in Credentials /\ Uses[y] = 0
      BY <3>1 DEF Uses
    <3>3. \A x \in Credentials : Gone(x)' <=> Gone(x)
      BY <3>1 DEF Gone, TooLate
    <3>4. Uses' = [Uses EXCEPT ![y] = 1]
      <4>1. uses \in [Processes -> [Ids -> Nat]]
        BY DEF ReplayInv, TypeInv, TypeOK
      <4>2. \A x \in Credentials : uses'[x[1]][x[2]] = IF x = y THEN 1 ELSE uses[x[1]][x[2]]
        BY <3>1, <4>1
      <4> QED
        BY <4>2 DEF Uses
    <3>5. Voided' = Voided
      BY <3>1, <3>2, <3>3, <3>4
    <3>6. Promise!Grant(y)
      BY <3>1, <3>2, <3>3, <3>4 DEF Promise!Grant, Promise!VoidGrows, Gone
    <3> QED
      BY <3>2, <3>6 DEF Promise!Next
  <2> QED
    BY <2>1, <2>2
<1>3. ReplayInv /\ [Next]_vars => ReplayInv'
  BY NextReplayInv
<1> QED
  BY <1>1, <1>2, <1>3, InitReplayInv, PTL DEF Spec, ImplementsOneTime, Promise!Spec
=============================================================================
