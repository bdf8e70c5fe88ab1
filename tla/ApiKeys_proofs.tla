--------------------------- MODULE ApiKeys_proofs ---------------------------
(***************************************************************************)
(* Proofs about src/api_key.rs: the key manager (ApiKeys), for every set of*)
(* keys and callers, every lifetime, rate limit and window, and stores that*)
(* look up loosely or not; and its rate limiter (RateLimiter), for every   *)
(* set of threads and keys, every limit, window and sweep threshold.       *)
(***************************************************************************)
EXTENDS ApiKeys, RateLimiter, FiniteSetTheorems, TLAPS

-----------------------------------------------------------------------------
(***************************************************************************)
(* The key manager.                                                        *)
(***************************************************************************)

\* What a suspended call may rely on, in the order of its steps.
CallOK(c) ==
    LET r == call[c] IN
    /\ r.op = "validate" <=> r.pc \in {"lookup", "check", "touch"}
    /\ r.op = "validate" => r.key \in Keys /\ r.result = "none"
    /\ asked[c].at <= now
    /\ r.pc = "lookup" /\ asked[c].revoked => IsRevoked(r.key)
    /\ r.pc \in {"check", "touch"} =>
          /\ r.found = r.key
          /\ Stored(r.key)
          /\ r.seen \in ApiKey
          /\ r.seen.expires = store[r.key].expires
          /\ asked[c].revoked => r.seen.revoked
    /\ r.pc = "touch" => ~r.seen.revoked /\ ~Expired(r.seen, asked[c].at)
    /\ r.pc = "find" => r.op = "rotate" /\ r.key \in Keys
    /\ r.pc = "revoke" => r.key \in Keys /\ Stored(r.key)
    /\ r.pc \in {"build", "save"} /\ r.key # None => Barred(r.key)
    /\ r.pc = "save" =>
          /\ r.found \in minted
          /\ ~Stored(r.found)
          /\ parent[r.found] = r.key
          /\ r.seen \in ApiKey

\* A key about to be saved belongs to one call.
SavesApart ==
    \A c, d \in Calls :
        call[c].pc = "save" /\ call[d].pc = "save" /\ call[c].found = call[d].found => c = d

\* What the application is about to save is of a stored key, whose expiry is fixed.
CopyOK ==
    copy # None => /\ Stored(copy.key)
                   /\ copy.record.expires = store[copy.key].expires

KeyInv ==
    /\ TypeOK
    /\ CopyOK
    /\ \A c \in Calls : CallOK(c)
    /\ SavesApart
    /\ \A k \in Keys : Stored(k) => k \in minted
    /\ HandedKeysAreStored
    /\ ReplacedKeyIsRevoked

LEMMA InitKeyInv == Init => KeyInv
<1> SUFFICES ASSUME Init PROVE KeyInv
  OBVIOUS
<1> USE ApiKeysAssumption
<1>1. TypeOK
  BY DEF Init, TypeOK, NoCounters, Idle, Running, CallState, Ops, Steps, Results, NotAsked
<1>2. \A c \in Calls : CallOK(c) /\ call[c].pc = "idle"
  BY DEF Init, CallOK, Idle, Running, NotAsked
<1>3. \A k \in Keys : ~Stored(k)
  BY DEF Init, Stored
<1> QED
  BY <1>1, <1>2, <1>3 DEF Init, KeyInv, CopyOK, SavesApart, HandedKeysAreStored, ReplacedKeyIsRevoked

-----------------------------------------------------------------------------
\* The counters keep their types through a count and a sweep.
LEMMA CountedTypes ==
    ASSUME NEW K, NEW m, DOMAIN m \subseteq K, \A k \in DOMAIN m : m[k] \in Entry,
           NEW k \in K, NEW t \in Nat
    PROVE  /\ DOMAIN CountRequest(m, k, t) \subseteq K
           /\ \A x \in DOMAIN CountRequest(m, k, t) : CountRequest(m, k, t)[x] \in Entry
<1>1. DOMAIN CountRequest(m, k, t) = DOMAIN m \cup {k}
  BY DEF CountRequest
<1>2. [start |-> t, count |-> 1] \in Entry
  BY DEF Entry
<1>3. \A e \in Entry : Counted(e, t) \in Entry
  BY DEF Counted, Entry
<1>4. \A x \in DOMAIN m \cup {k} :
        \/ CountRequest(m, k, t)[x] = m[x] /\ x \in DOMAIN m
        \/ CountRequest(m, k, t)[x] = Counted(m[k], t) /\ k \in DOMAIN m
        \/ CountRequest(m, k, t)[x] = [start |-> t, count |-> 1]
  BY DEF CountRequest
<1> QED
  BY <1>1, <1>2, <1>3, <1>4

LEMMA SweptTypes ==
    ASSUME NEW K, NEW m, DOMAIN m \subseteq K, \A k \in DOMAIN m : m[k] \in Entry, NEW t \in Nat
    PROVE  /\ DOMAIN Swept(m, t) \subseteq K
           /\ \A x \in DOMAIN Swept(m, t) : Swept(m, t)[x] \in Entry
BY DEF Swept

LEMMA SecondsType == ASSUME NEW t \in Nat PROVE Seconds(t) \in Nat
BY RateWindowAssumption DEF Seconds

\* A call that moves on, with what it read or is about to store.
LEMMA Moved ==
    ASSUME NEW r \in CallState, NEW s \in Steps
    PROVE  /\ [r EXCEPT !.pc = s] \in CallState
           /\ \A k \in Keys, x \in ApiKey :
                [r EXCEPT !.pc = s, !.found = k, !.seen = x] \in CallState
BY DEF CallState

LEMMA IdleState ==
    ASSUME NEW res \in Results
    PROVE  /\ Idle(res) \in CallState
           /\ Idle(res).pc = "idle"
           /\ Idle(res).op = "none"
           /\ Idle(res).result = res
BY DEF Idle, Running, CallState, Ops, Steps

LEMMA RunningState ==
    ASSUME NEW op \in Ops, NEW k \in Keys \cup {None}, NEW s \in Steps
    PROVE  /\ Running(op, k, s) \in CallState
           /\ Running(op, k, s).pc = s
           /\ Running(op, k, s).op = op
           /\ Running(op, k, s).key = k
           /\ Running(op, k, s).result = "none"
BY DEF Running, CallState, Ops, Steps, Results

\* What the records written to the store are.
LEMMA RecordTypes ==
    ASSUME NEW r \in ApiKey, NEW l \in Nat \cup {None}
    PROVE  /\ [r EXCEPT !.revoked = TRUE] \in ApiKey
           /\ [r EXCEPT !.limit = l] \in ApiKey
           /\ [r EXCEPT !.limit = l].expires = r.expires
           /\ [r EXCEPT !.limit = l].revoked = r.revoked
BY DEF ApiKey

\* A call that returns is idle, and no longer relies on anything.
LEMMA Returned ==
    ASSUME KeyInv, NEW c \in Calls, NEW res \in Results, Return(c, res), now' \in Nat
    PROVE  /\ call' \in [Calls -> CallState]
           /\ asked' \in [Calls -> [at : Nat, revoked : BOOLEAN]]
           /\ CallOK(c)'
           /\ call'[c].pc = "idle"
           /\ call'[c].result = res
           /\ \A d \in Calls \ {c} : call'[d] = call[d] /\ asked'[d] = asked[d]
<1>1. /\ call \in [Calls -> CallState]
      /\ asked \in [Calls -> [at : Nat, revoked : BOOLEAN]]
  BY DEF KeyInv, TypeOK
<1>2. call' = [call EXCEPT ![c] = Idle(res)] /\ asked' = [asked EXCEPT ![c] = NotAsked]
  BY DEF Return
<1>3. Idle(res) \in CallState /\ NotAsked \in [at : Nat, revoked : BOOLEAN]
  BY IdleState DEF NotAsked
<1>4. call'[c] = Idle(res) /\ asked'[c].at = 0
  BY <1>1, <1>2 DEF NotAsked
<1>5. call'[c].pc = "idle" /\ call'[c].op = "none" /\ call'[c].result = res
  BY <1>4, IdleState
<1> QED
  BY <1>1, <1>2, <1>3, <1>4, <1>5 DEF CallOK

\* The application undoes a revocation of k, and no validation of k relies on it.
Undoes(k) ==
    /\ Revives(k)
    /\ copy' = None
    /\ k \in revived'
    /\ \A c \in Calls : call[c].key = k => ~asked'[c].revoked

\* What one step of the program may do to a record.
LEMMA RecordStep ==
    ASSUME KeyInv, [Next]_vars, NEW k \in Keys
    PROVE  /\ Stored(k) =>
                 /\ store'[k] \in ApiKey
                 /\ store'[k].expires = store[k].expires
                 /\ store[k].revoked => store'[k].revoked \/ Undoes(k)
           /\ ~Stored(k) /\ store'[k] # None =>
                 /\ \E c \in Calls : Save(c) /\ call[c].found = k
                 /\ store'[k] \in ApiKey
<1>t. /\ store \in [Keys -> ApiKey \cup {None}]
      /\ call \in [Calls -> CallState]
      /\ None \notin ApiKey
  BY NoneIsNoRecord DEF KeyInv, TypeOK
<1>0. CASE UNCHANGED store
  BY <1>0, <1>t DEF Stored
<1>1. ASSUME NEW j \in Keys, NEW x \in ApiKey, Stored(j), store' = [store EXCEPT ![j] = x],
             x.expires = store[j].expires, store[j].revoked => x.revoked \/ Undoes(j)
      PROVE  /\ Stored(k) =>
                   /\ store'[k] \in ApiKey
                   /\ store'[k].expires = store[k].expires
                   /\ store[k].revoked => store'[k].revoked \/ Undoes(k)
             /\ ~Stored(k) => store'[k] = None
  BY <1>1, <1>t DEF Stored
<1>2. ASSUME NEW c \in Calls, UpdateLastUsed(c), store' # store
      PROVE  /\ Stored(call[c].found)
             /\ call[c].found \in Keys
             /\ store' = [store EXCEPT ![call[c].found] = TouchedRecord(c)]
             /\ TouchedRecord(c) \in ApiKey
             /\ TouchedRecord(c).expires = store[call[c].found].expires
             /\ TouchedRecord(c).revoked = store[call[c].found].revoked
  <2>1. call[c].found \in Keys /\ Stored(call[c].found)
    BY <1>2 DEF UpdateLastUsed, KeyInv, CallOK
  <2>2. store[call[c].found] \in ApiKey
    BY <1>t, <2>1 DEF Stored
  <2>3. store' = [store EXCEPT ![call[c].found] = TouchedRecord(c)]
    BY <1>2 DEF UpdateLastUsed, Written, WriteFails
  <2> QED
    BY <2>1, <2>2, <2>3 DEF TouchedRecord, ApiKey
<1>3. ASSUME NEW c \in Calls, Revoke(c), store' # store
      PROVE  /\ Stored(call[c].key)
             /\ call[c].key \in Keys
             /\ store' = [store EXCEPT ![call[c].key] = RevokedRecord(call[c].key)]
             /\ RevokedRecord(call[c].key) \in ApiKey
             /\ RevokedRecord(call[c].key).expires = store[call[c].key].expires
             /\ RevokedRecord(call[c].key).revoked
  <2>1. call[c].key \in Keys /\ Stored(call[c].key)
    BY <1>3 DEF Revoke, KeyInv, CallOK
  <2>2. store[call[c].key] \in ApiKey
    BY <1>t, <2>1 DEF Stored
  <2>3. store' = [store EXCEPT ![call[c].key] = RevokedRecord(call[c].key)]
    BY <1>3 DEF Revoke, Revokes, RevokeFails, Written
  <2> QED
    BY <2>1, <2>2, <2>3 DEF RevokedRecord, ApiKey
<1>4. ASSUME NEW c \in Calls, Save(c), store' # store
      PROVE  /\ ~Stored(call[c].found)
             /\ call[c].found \in Keys
             /\ store' = [store EXCEPT ![call[c].found] = call[c].seen]
             /\ call[c].seen \in ApiKey
  BY <1>4 DEF Save, Written, WriteFails, KeyInv, TypeOK, CallOK
<1>5. ASSUME SaveRecord, store' # store
      PROVE  \E x \in ApiKey : /\ Stored(copy.key)
                               /\ copy.key \in Keys
                               /\ store' = [store EXCEPT ![copy.key] = x]
                               /\ x.expires = store[copy.key].expires
                               /\ store[copy.key].revoked => x.revoked \/ Undoes(copy.key)
  <2>1. /\ copy # None /\ copy' = None
        /\ copy.key \in Keys /\ copy.record \in ApiKey
        /\ Stored(copy.key) /\ copy.record.expires = store[copy.key].expires
    BY <1>5 DEF SaveRecord, KeyInv, TypeOK, CopyOK
  <2>2. PICK l \in Limits \cup {copy.record.limit} :
          store' = [store EXCEPT ![copy.key] = [copy.record EXCEPT !.limit = l]]
    BY <1>5 DEF SaveRecord, Written
  <2> DEFINE x == [copy.record EXCEPT !.limit = l]
  <2>3. x \in ApiKey /\ x.expires = copy.record.expires /\ x.revoked = copy.record.revoked
    <3>1. l \in Nat \cup {None}
      BY <2>1, ApiKeysAssumption DEF ApiKey
    <3> QED
      BY <2>1, <3>1, RecordTypes
  <2>4. ASSUME store[copy.key].revoked, ~x.revoked PROVE Undoes(copy.key)
    <3>1. Revives(copy.key)
      BY <2>1, <2>3, <2>4 DEF Revives, IsRevoked
    <3>2. /\ revived' = revived \cup {k_1 \in Keys : Revives(k_1)}
          /\ asked' = [c \in Calls |-> [asked[c] EXCEPT !.revoked = @ /\ ~Revives(call[c].key)]]
      BY <1>5 DEF SaveRecord
    <3>3. \A c \in Calls : call[c].key = copy.key => ~asked'[c].revoked
      BY <3>1, <3>2 DEF KeyInv, TypeOK
    <3> QED
      BY <2>1, <3>1, <3>2, <3>3 DEF Undoes
  <2> HIDE DEF x
  <2> QED
    BY <2>1, <2>2, <2>3, <2>4 DEF x
<1>6. UNCHANGED store \/ (\E c \in Calls : UpdateLastUsed(c) \/ Revoke(c) \/ Save(c))
        \/ SaveRecord
  BY DEF Next, CallStep, vars, BeginValidate, BeginRotate, BeginRevoke, BeginGenerate, Begin,
         FindByKeyHash, Check, FindById, Build, ReadRecord, Tick
<1> QED
  BY <1>0, <1>1, <1>2, <1>3, <1>4, <1>5, <1>6, <1>t DEF Stored

\* What no step takes back: the clock, the minted ids, where a key came from.
LEMMA Grows ==
    ASSUME KeyInv, [Next]_vars
    PROVE  /\ now' \in Nat /\ now <= now'
           /\ minted \subseteq minted' /\ minted' \subseteq Keys
           /\ \A k \in minted : parent'[k] = parent[k]
           /\ handed \subseteq handed'
<1> USE DEF KeyInv, TypeOK
<1>1. CASE \E c \in Calls : Build(c)
  BY <1>1 DEF Build
<1>2. CASE \E c \in Calls : Save(c)
  BY <1>2 DEF Save
<1>3. CASE Tick
  BY <1>3 DEF Tick
<1>4. CASE UNCHANGED <<now, minted, parent, handed>>
  BY <1>4
<1> QED
  BY <1>1, <1>2, <1>3, <1>4 DEF Next, CallStep, vars, BeginValidate, BeginRotate, BeginRevoke,
     BeginGenerate, Begin, FindByKeyHash, Check, UpdateLastUsed, FindById, Revoke, ReadRecord, SaveRecord

\* Only a revocation takes a key from those the application revived.
LEMMA RevivedGrows ==
    ASSUME KeyInv, [Next]_vars, NEW k \in Keys
    PROVE  k \in revived => k \in revived' \/ IsRevoked(k)'
<1>t. /\ store \in [Keys -> ApiKey \cup {None}]
      /\ revived \subseteq Keys
  BY DEF KeyInv, TypeOK
<1>1. CASE UNCHANGED revived
  BY <1>t, <1>1
<1>2. CASE SaveRecord
  BY <1>t, <1>2 DEF SaveRecord
<1>3. ASSUME NEW c \in Calls, Revoke(c), revived' # revived
      PROVE  k \in revived => k \in revived' \/ IsRevoked(k)'
  <2>1. revived' = revived \ {call[c].key}
        /\ store' = [store EXCEPT ![call[c].key] = RevokedRecord(call[c].key)]
    BY <1>3 DEF Revoke, RevokeFails, Revokes, Written
  <2>2. call[c].key \in Keys /\ store[call[c].key] \in ApiKey
    BY <1>t, <1>3 DEF Revoke, KeyInv, CallOK, Stored
  <2>3. store'[call[c].key] \in ApiKey /\ store'[call[c].key].revoked
    BY <1>t, <2>1, <2>2 DEF RevokedRecord, ApiKey
  <2> QED
    BY <1>t, <2>1, <2>3, NoneIsNoRecord DEF IsRevoked, Stored
<1> QED
  BY <1>1, <1>2, <1>3 DEF Next, CallStep, vars, BeginValidate, BeginRotate, BeginRevoke,
     BeginGenerate, Begin, FindByKeyHash, Check, UpdateLastUsed, FindById, Build, Save,
     ReadRecord, Tick

\* Only keys are revived.
LEMMA RevivedKeys == TypeOK /\ [Next]_vars => revived' \subseteq Keys
<1> SUFFICES ASSUME TypeOK, [Next]_vars PROVE revived' \subseteq Keys
  OBVIOUS
<1>1. \/ UNCHANGED revived
      \/ revived' = revived \cup {k \in Keys : Revives(k)}
      \/ \E c \in Calls : revived' = revived \ {call[c].key}
  BY DEF Next, CallStep, vars, BeginValidate, BeginRotate, BeginRevoke,
     BeginGenerate, Begin, FindByKeyHash, Check, UpdateLastUsed, FindById, Build, Save,
     ReadRecord, Tick, SaveRecord, Revoke, RevokeFails, Revokes
<1> QED
  BY <1>1 DEF TypeOK

\* A stored key stays stored and a barred one barred, whoever takes the step.
LEMMA StaysStored ==
    ASSUME KeyInv, [Next]_vars, NEW k \in Keys
    PROVE  /\ Stored(k) => Stored(k)' /\ store'[k].expires = store[k].expires
           /\ IsRevoked(k) => IsRevoked(k)' \/ Undoes(k)
           /\ Barred(k) => Barred(k)'
BY RecordStep, RevivedGrows, NoneIsNoRecord DEF Stored, IsRevoked, Barred, Undoes

\* What a suspended call relies on survives the steps of all the others.
LEMMA Undisturbed ==
    ASSUME KeyInv, [Next]_vars, NEW d \in Calls, call'[d] = call[d],
           asked'[d].at = asked[d].at, asked'[d].revoked => asked[d].revoked
    PROVE  CallOK(d)'
<1>1. /\ CallOK(d)
      /\ SavesApart
      /\ asked \in [Calls -> [at : Nat, revoked : BOOLEAN]]
      /\ now \in Nat
      /\ call[d].key \in Keys \cup {None}
      /\ minted \subseteq Keys
      /\ None \notin Keys
  BY ApiKeysAssumption DEF KeyInv, TypeOK, CallState
<1>2. asked'[d].at <= now'
  <2>1. asked[d].at \in Nat /\ asked[d].at <= now
    BY <1>1 DEF CallOK
  <2> QED
    BY <1>1, <2>1, Grows
<1>3. call[d].pc = "lookup" /\ asked'[d].revoked => IsRevoked(call[d].key)'
  BY <1>1, StaysStored DEF CallOK, Undoes
<1>4. call[d].pc \in {"check", "touch"} =>
        Stored(call[d].key)' /\ call[d].seen.expires = store'[call[d].key].expires
  BY <1>1, StaysStored DEF CallOK
<1>5. call[d].pc = "revoke" => Stored(call[d].key)'
  BY <1>1, StaysStored DEF CallOK
<1>6. call[d].pc \in {"build", "save"} /\ call[d].key # None => Barred(call[d].key)'
  BY <1>1, StaysStored DEF CallOK
<1>7. call[d].pc = "save" =>
        /\ call[d].found \in minted'
        /\ parent'[call[d].found] = call[d].key
        /\ ~Stored(call[d].found)'
  <2> SUFFICES ASSUME call[d].pc = "save" PROVE ~Stored(call[d].found)'
    BY <1>1, Grows DEF CallOK
  <2>1. call[d].found \in Keys /\ ~Stored(call[d].found)
    BY <1>1 DEF CallOK
  <2>2. ASSUME NEW c \in Calls, Save(c), call[c].found = call[d].found PROVE FALSE
    <3>1. c = d
      BY <1>1, <2>2 DEF Save, SavesApart
    <3>2. call'[d].pc = "idle"
      BY <2>2, <3>1, Returned, Grows DEF Save, Results
    <3> QED
      BY <3>2
  <2> QED
    BY <2>1, <2>2, RecordStep DEF Stored
<1> QED
  BY <1>1, <1>2, <1>3, <1>4, <1>5, <1>6, <1>7 DEF CallOK

CallsOK ==
    /\ call \in [Calls -> CallState]
    /\ asked \in [Calls -> [at : Nat, revoked : BOOLEAN]]
    /\ \A c \in Calls : CallOK(c)

\* A step of one call that leaves it well formed leaves all calls well formed.
LEMMA OneCall ==
    ASSUME KeyInv, [Next]_vars, NEW c \in Calls, NEW r \in CallState,
           NEW a \in [at : Nat, revoked : BOOLEAN],
           call' = [call EXCEPT ![c] = r], asked' = [asked EXCEPT ![c] = a], CallOK(c)'
    PROVE  CallsOK'
<1>1. /\ call \in [Calls -> CallState]
      /\ asked \in [Calls -> [at : Nat, revoked : BOOLEAN]]
  BY DEF KeyInv, TypeOK
<1>2. \A d \in Calls \ {c} : call'[d] = call[d] /\ asked'[d] = asked[d]
  BY <1>1
<1>3. \A d \in Calls : CallOK(d)'
  BY <1>2, Undisturbed
<1> QED
  BY <1>1, <1>3 DEF CallsOK

LEMMA ReturnKeepsCalls ==
    ASSUME KeyInv, [Next]_vars, NEW c \in Calls, NEW res \in Results, Return(c, res)
    PROVE  CallsOK' /\ call'[c].pc = "idle" /\ call'[c].result = res
<1>1. now' \in Nat
  BY Grows
<1> QED
  BY <1>1, Returned, Undisturbed DEF CallsOK

\* The beginnings of the four operations.
LEMMA BeginsKeepCalls ==
    ASSUME KeyInv, [Next]_vars, NEW c \in Calls
    PROVE  /\ BeginValidate(c) => CallsOK' /\ call'[c].pc = "lookup"
           /\ BeginRotate(c) => CallsOK' /\ call'[c].pc = "find"
           /\ BeginRevoke(c) => CallsOK' /\ call'[c].pc = "revoke"
           /\ BeginGenerate(c) => CallsOK' /\ call'[c].pc = "build"
<1>t. /\ call \in [Calls -> CallState]
      /\ asked \in [Calls -> [at : Nat, revoked : BOOLEAN]]
      /\ now \in Nat
      /\ now' \in Nat
      /\ \A d \in Calls : asked[d].at <= now
      /\ handed \subseteq Keys
      /\ \A k \in handed : Stored(k)
      /\ None \notin Keys
  BY Grows, ApiKeysAssumption DEF KeyInv, TypeOK, CallOK, HandedKeysAreStored
<1>0. \A s \in {"lookup", "find", "revoke", "build"} : s \in Steps
  BY DEF Steps
<1>1. ASSUME BeginValidate(c) PROVE CallsOK' /\ call'[c].pc = "lookup"
  <2>1. PICK k \in Keys :
          /\ call' = [call EXCEPT ![c] = Running("validate", k, "lookup")]
          /\ asked' = [asked EXCEPT ![c] = [at |-> now, revoked |-> IsRevoked(k)]]
          /\ UNCHANGED <<now, store>>
    BY <1>1 DEF BeginValidate, Begin
  <2> DEFINE r == Running("validate", k, "lookup")
             a == [at |-> now, revoked |-> IsRevoked(k)]
  <2>2. /\ r \in CallState
        /\ r.pc = "lookup" /\ r.op = "validate" /\ r.key = k /\ r.result = "none"
    BY RunningState DEF Ops, Steps
  <2>3. a \in [at : Nat, revoked : BOOLEAN]
    BY <1>t DEF KeyInv, TypeOK, IsRevoked, Stored, ApiKey
  <2>4. call'[c] = r /\ asked'[c] = a
    BY <1>t, <2>1
  <2>5. asked'[c].at <= now' /\ (asked'[c].revoked => IsRevoked(k)')
    <3>1. asked'[c].at = now /\ (asked'[c].revoked => IsRevoked(k))
      BY <2>4
    <3>2. IsRevoked(k)' <=> IsRevoked(k)
      BY <2>1 DEF IsRevoked, Stored
    <3> QED
      BY <1>t, <2>1, <3>1, <3>2
  <2> HIDE DEF r, a
  <2>6. CallOK(c)'
    BY <2>2, <2>4, <2>5 DEF CallOK
  <2> QED
    BY <2>1, <2>2, <2>3, <2>4, <2>6, OneCall DEF r, a
<1>2. ASSUME NEW op \in Ops \ {"validate"}, NEW k \in Keys \cup {None}, NEW s \in Steps,
             call' = [call EXCEPT ![c] = Running(op, k, s)], UNCHANGED asked,
             \/ s = "find" /\ op = "rotate" /\ k \in Keys
             \/ s = "revoke" /\ k \in Keys /\ Stored(k)'
             \/ s = "build" /\ k = None
      PROVE  CallsOK' /\ call'[c].pc = s
  <2> DEFINE r == Running(op, k, s)
  <2>1. r \in CallState /\ r.pc = s /\ r.op = op /\ r.key = k
    BY RunningState
  <2>2. call'[c] = r /\ asked'[c] = asked[c] /\ asked' = [asked EXCEPT ![c] = asked[c]]
    BY <1>t, <1>2
  <2>3. asked'[c].at <= now'
    BY <1>t, <2>2, Grows
  <2> HIDE DEF r
  <2>4. CallOK(c)'
    BY <1>2, <2>1, <2>2, <2>3 DEF CallOK
  <2> QED
    BY <1>t, <1>2, <2>1, <2>2, <2>4, OneCall DEF r
<1>3. BeginRotate(c) => CallsOK' /\ call'[c].pc = "find"
  BY <1>0, <1>2 DEF BeginRotate, Begin, Ops
<1>4. BeginRevoke(c) => CallsOK' /\ call'[c].pc = "revoke"
  BY <1>0, <1>2, <1>t DEF BeginRevoke, Begin, Ops, Stored
<1>5. BeginGenerate(c) => CallsOK' /\ call'[c].pc = "build"
  BY <1>0, <1>2 DEF BeginGenerate, Begin, Ops
<1> QED
  BY <1>1, <1>3, <1>4, <1>5

\* validate's lookup leaves the call with the presented key's own record.
LEMMA FindByKeyHashKeepsCalls ==
    ASSUME KeyInv, [Next]_vars, NEW c \in Calls, FindByKeyHash(c)
    PROVE  CallsOK' /\ call'[c].pc # "save" /\ call'[c].result # "ok"
<1>t. /\ call \in [Calls -> CallState]
      /\ asked \in [Calls -> [at : Nat, revoked : BOOLEAN]]
      /\ store \in [Keys -> ApiKey \cup {None}]
      /\ CallOK(c)
      /\ now' = now /\ store' = store
      /\ call[c].pc = "lookup"
  BY DEF FindByKeyHash, KeyInv, TypeOK
<1>1. CASE Return(c, "absent") \/ Return(c, "storage")
  BY <1>1, ReturnKeepsCalls DEF Results
<1>2. CASE ~(Return(c, "absent") \/ Return(c, "storage"))
  <2>1. PICK j \in Keys :
          /\ j = call[c].key /\ Stored(j)
          /\ call' = [call EXCEPT ![c] = [call[c] EXCEPT !.pc = "check", !.found = j,
                                                       !.seen = store[j]]]
          /\ UNCHANGED asked
    BY <1>2 DEF FindByKeyHash, Matches, SameHash
  <2> DEFINE x == store[j]
             r == [call[c] EXCEPT !.pc = "check", !.found = j, !.seen = x]
  <2>2. x \in ApiKey /\ x.expires = store[j].expires /\ x.revoked = store[j].revoked
    BY <1>t, <2>1 DEF Stored
  <2>3. /\ r \in CallState
        /\ r.pc = "check" /\ r.found = j /\ r.seen = x
        /\ r.key = call[c].key /\ r.op = call[c].op /\ r.result = call[c].result
    <3> HIDE DEF x
    <3>1. call[c] \in CallState /\ "check" \in Steps
      BY <1>t DEF Steps
    <3>2. r \in CallState
      BY <2>2, <3>1, Moved
    <3> QED
      BY <3>1, <3>2 DEF CallState
  <2>4. call'[c] = r /\ asked' = [asked EXCEPT ![c] = asked[c]] /\ asked'[c] = asked[c]
    BY <1>t, <2>1
  <2>5. call[c].op = "validate" /\ call[c].key = j /\ call[c].result = "none"
        /\ asked[c].at <= now' /\ (asked[c].revoked => IsRevoked(j))
    BY <1>t, <2>1 DEF CallOK
  <2>6. (asked'[c].revoked => x.revoked) /\ Stored(j)' /\ x.expires = store'[j].expires
    BY <1>t, <2>1, <2>2, <2>4, <2>5 DEF IsRevoked, Stored
  <2> HIDE DEF x, r
  <2>7. CallOK(c)'
    BY <2>2, <2>3, <2>4, <2>5, <2>6 DEF CallOK
  <2> QED
    <3>1. call'[c].pc = "check" /\ call'[c].result = "none"
      BY <2>3, <2>4, <2>5
    <3>2. CallsOK'
      BY <1>t, <2>1, <2>3, <2>4, <2>7, OneCall DEF r, x
    <3> QED
      BY <3>1, <3>2
<1> QED
  BY <1>1, <1>2

\* validate's checks let only a live record through.
LEMMA CheckKeepsCalls ==
    ASSUME KeyInv, [Next]_vars, NEW c \in Calls, Check(c)
    PROVE  CallsOK' /\ call'[c].result # "ok"
<1>t. /\ call \in [Calls -> CallState]
      /\ asked \in [Calls -> [at : Nat, revoked : BOOLEAN]]
      /\ CallOK(c)
      /\ now' = now /\ store' = store /\ now \in Nat
      /\ call[c].pc = "check"
  BY DEF Check, KeyInv, TypeOK
<1>1. CASE Return(c, "revoked") \/ Return(c, "expired") \/ Return(c, "limited")
  BY <1>1, ReturnKeepsCalls DEF Results
<1>2. CASE ~(Return(c, "revoked") \/ Return(c, "expired") \/ Return(c, "limited"))
  <2>1. /\ Verdict(call[c].seen, now) = "ok"
        /\ call' = [call EXCEPT ![c] = [call[c] EXCEPT !.pc = "touch"]]
        /\ asked' = asked
    BY <1>2 DEF Check, Proceed, Verdict
  <2> DEFINE r == [call[c] EXCEPT !.pc = "touch"]
  <2>2. /\ r \in CallState
        /\ r.pc = "touch" /\ r.found = call[c].found /\ r.seen = call[c].seen
        /\ r.key = call[c].key /\ r.op = call[c].op /\ r.result = call[c].result
    <3>1. call[c] \in CallState /\ "touch" \in Steps
      BY <1>t DEF Steps
    <3>2. r \in CallState
      BY <1>t, <3>1, Moved
    <3> QED
      BY <3>1, <3>2 DEF CallState
  <2>3. call'[c] = r /\ asked' = [asked EXCEPT ![c] = asked[c]] /\ asked'[c] = asked[c]
    BY <1>t, <2>1
  <2>4. /\ call[c].op = "validate" /\ call[c].key \in Keys /\ call[c].result = "none"
        /\ asked[c].at <= now /\ call[c].found = call[c].key
        /\ Stored(call[c].key) /\ call[c].seen \in ApiKey
        /\ call[c].seen.expires = store[call[c].key].expires
        /\ asked[c].revoked => call[c].seen.revoked
    BY <1>t DEF CallOK
  <2>5. ~call[c].seen.revoked /\ ~Expired(call[c].seen, now)
    BY <2>1 DEF Verdict
  <2>6. ~Expired(call[c].seen, asked[c].at)
    <3>1. asked[c].at \in Nat /\ call[c].seen.expires \in Nat \cup {None}
      BY <1>t, <2>4 DEF ApiKey
    <3> QED
      BY <1>t, <2>4, <2>5, <3>1 DEF Expired
  <2>7. store'[call[c].key] # None /\ call[c].seen.expires = store'[call[c].key].expires
    BY <1>t, <2>4 DEF Stored
  <2> HIDE DEF r
  <2>8. CallOK(c)'
    BY <2>2, <2>3, <2>4, <2>5, <2>6, <2>7, <1>t DEF CallOK, Stored
  <2> QED
    <3>1. call'[c].result = "none"
      BY <2>2, <2>3, <2>4
    <3>2. CallsOK'
      BY <1>t, <2>1, <2>2, <2>3, <2>8, OneCall DEF r
    <3> QED
      BY <3>1, <3>2
<1> QED
  BY <1>1, <1>2

\* rotate moves on to revoke a stored key, and to mint once that key is revoked.
LEMMA RotateKeepsCalls ==
    ASSUME KeyInv, [Next]_vars, NEW c \in Calls, FindById(c) \/ Revoke(c)
    PROVE  CallsOK'
<1>t. /\ call \in [Calls -> CallState]
      /\ asked \in [Calls -> [at : Nat, revoked : BOOLEAN]]
      /\ store \in [Keys -> ApiKey \cup {None}]
      /\ CallOK(c)
      /\ now' = now
  BY DEF FindById, Revoke, KeyInv, TypeOK
<1>1. CASE \E res \in Results : Return(c, res)
  BY <1>1, ReturnKeepsCalls
<1>2. ASSUME NEW s \in {"revoke", "build"}, call' = [call EXCEPT ![c] = [call[c] EXCEPT !.pc = s]],
             UNCHANGED asked, call[c].key \in Keys, call[c].op # "validate",
             s = "revoke" => store'[call[c].key] # None,
             s = "build" => store'[call[c].key] # None /\ store'[call[c].key].revoked
      PROVE  CallsOK'
  <2> DEFINE r == [call[c] EXCEPT !.pc = s]
  <2>1. r \in CallState /\ r.pc = s /\ r.key = call[c].key /\ r.op = call[c].op
    <3>1. call[c] \in CallState /\ s \in Steps
      BY <1>t, <1>2 DEF Steps
    <3>2. r \in CallState
      BY <3>1, Moved
    <3> QED
      BY <3>1, <3>2 DEF CallState
  <2>2. call'[c] = r /\ asked' = [asked EXCEPT ![c] = asked[c]] /\ asked'[c] = asked[c]
    BY <1>t, <1>2
  <2>3. asked[c].at <= now'
    BY <1>t DEF CallOK
  <2> HIDE DEF r
  <2>4. CallOK(c)'
    BY <1>2, <2>1, <2>2, <2>3 DEF CallOK, Stored, IsRevoked, Barred
  <2> QED
    BY <1>t, <1>2, <2>1, <2>2, <2>4, OneCall DEF r
<1>3. CASE FindById(c) /\ ~\E res \in Results : Return(c, res)
  BY <1>t, <1>2, <1>3 DEF FindById, Results, CallOK, Stored
<1>4. CASE Revoke(c) /\ ~\E res \in Results : Return(c, res)
  <2>1. /\ store' = [store EXCEPT ![call[c].key] = RevokedRecord(call[c].key)]
        /\ call[c].op = "rotate"
        /\ call' = [call EXCEPT ![c] = [call[c] EXCEPT !.pc = "build"]]
        /\ UNCHANGED asked
    BY <1>4 DEF Revoke, Revokes, Written, Results
  <2>2. call[c].key \in Keys /\ Stored(call[c].key)
    BY <1>t, <1>4 DEF Revoke, CallOK
  <2>3. store'[call[c].key] \in ApiKey /\ store'[call[c].key].revoked
    BY <1>t, <2>1, <2>2 DEF RevokedRecord, Stored, ApiKey
  <2> QED
    BY <1>2, <2>1, <2>2, <2>3, NoneIsNoRecord
<1> QED
  BY <1>1, <1>3, <1>4

LEMMA FreshRecordType ==
    ASSUME now \in Nat PROVE FreshRecord \in ApiKey /\ ~FreshRecord.revoked
BY ApiKeysAssumption DEF FreshRecord, ApiKey

\* Minting gives the call an id that was never drawn and a record to save.
LEMMA BuildKeepsCalls ==
    ASSUME KeyInv, [Next]_vars, NEW c \in Calls, Build(c)
    PROVE  /\ CallsOK'
           /\ \E k \in Keys \ minted :
                 /\ call'[c].pc = "save" /\ call'[c].found = k
                 /\ minted' = minted \cup {k}
                 /\ \A j \in Keys \ {k} : parent'[j] = parent[j]
           /\ parent' \in [Keys -> Keys \cup {None}]
           /\ \A d \in Calls \ {c} : call'[d] = call[d]
<1>t. /\ call \in [Calls -> CallState]
      /\ asked \in [Calls -> [at : Nat, revoked : BOOLEAN]]
      /\ parent \in [Keys -> Keys \cup {None}]
      /\ CallOK(c)
      /\ now' = now /\ store' = store /\ asked' = asked /\ revived' = revived
      /\ call[c].pc = "build"
      /\ call[c].key \in Keys \cup {None}
      /\ FreshRecord \in ApiKey
      /\ \A k \in Keys : Stored(k) => k \in minted
  BY FreshRecordType DEF Build, KeyInv, TypeOK, CallState
<1>1. PICK k \in Keys \ minted :
        /\ minted' = minted \cup {k}
        /\ call' = [call EXCEPT ![c].pc = "save", ![c].found = k, ![c].seen = FreshRecord]
        /\ parent' = [parent EXCEPT ![k] = call[c].key]
  BY DEF Build
<1>a. call' = [call EXCEPT ![c] = [call[c] EXCEPT !.pc = "save", !.found = k,
                                                 !.seen = FreshRecord]]
  <2> HIDE DEF FreshRecord
  <2> QED
    BY <1>t, <1>1
<1> DEFINE r == [call[c] EXCEPT !.pc = "save", !.found = k, !.seen = FreshRecord]
<1>2. /\ r \in CallState
      /\ r.pc = "save" /\ r.found = k /\ r.seen = FreshRecord
      /\ r.key = call[c].key /\ r.op = call[c].op
  <2>1. call[c] \in CallState /\ "save" \in Steps
    BY <1>t DEF Steps
  <2> HIDE DEF FreshRecord
  <2>2. r \in CallState
    BY <1>t, <2>1, Moved
  <2> QED
    BY <2>1, <2>2 DEF CallState
<1>3. call'[c] = r /\ asked' = [asked EXCEPT ![c] = asked[c]] /\ asked'[c] = asked[c]
  BY <1>t, <1>a
<1>4. /\ call[c].op # "validate" /\ asked[c].at <= now'
      /\ call[c].key # None => Barred(call[c].key)'
  <2>1. /\ call[c].op # "validate" /\ asked[c].at <= now
        /\ call[c].key # None => Barred(call[c].key)
    BY <1>t DEF CallOK
  <2>2. call[c].key # None => Barred(call[c].key)'
    <3>1. ASSUME NEW k1 \in Keys, Barred(k1) PROVE Barred(k1)'
      BY <3>1, StaysStored
    <3>2. call'[c].key = call[c].key
      BY <1>2, <1>3
    <3> QED
      BY <1>t, <2>1, <3>1, <3>2 DEF Barred, IsRevoked, Stored
  <2>3. asked[c].at <= now'
    BY <1>t, <2>1
  <2> QED
    BY <2>1, <2>2, <2>3
<1>5. k \in minted' /\ store'[k] = None /\ parent'[k] = call[c].key
  BY <1>t, <1>1 DEF Stored
<1> HIDE DEF r
<1>6. CallOK(c)'
  BY <1>t, <1>2, <1>3, <1>4, <1>5 DEF CallOK, Stored
<1>7. CallsOK'
  BY <1>t, <1>a, <1>2, <1>3, <1>6, OneCall DEF r
<1>8. call'[c].pc = "save" /\ call'[c].found = k
  BY <1>2, <1>3
<1>9. \A j \in Keys \ {k} : parent'[j] = parent[j]
  BY <1>t, <1>1
<1>10. parent' \in [Keys -> Keys \cup {None}] /\ \A d \in Calls \ {c} : call'[d] = call[d]
  BY <1>t, <1>1
<1> QED
  BY <1>1, <1>7, <1>8, <1>9, <1>10

LEMMA StepsKeepCalls ==
    ASSUME KeyInv, [Next]_vars, NEW c \in Calls, CallStep(c)
    PROVE  CallsOK'
<1>1. CASE UpdateLastUsed(c) \/ Save(c)
  BY <1>1, ReturnKeepsCalls DEF UpdateLastUsed, Save, Results
<1> QED
  BY <1>1, FindByKeyHashKeepsCalls, CheckKeepsCalls, RotateKeepsCalls, BuildKeepsCalls
     DEF CallStep

\* The variables but the calls keep their types.
LEMMA NextTypes ==
    ASSUME KeyInv, [Next]_vars
    PROVE  /\ store' \in [Keys -> ApiKey \cup {None}]
           /\ DOMAIN counters' \subseteq Keys
           /\ \A k \in DOMAIN counters' : counters'[k] \in Entry
           /\ lastSweep' \in Nat
           /\ parent' \in [Keys -> Keys \cup {None}]
           /\ handed' \subseteq Keys
           /\ copy' \in [key : Keys, record : ApiKey] \cup {None}
<1>t. TypeOK /\ now \in Nat /\ DOMAIN counters \subseteq Keys
  BY DEF KeyInv, TypeOK
<1>1. store' \in [Keys -> ApiKey \cup {None}]
  <2>1. store \in [Keys -> ApiKey \cup {None}]
    BY <1>t DEF TypeOK
  <2>2. UNCHANGED store \/ \E k, x : store' = [store EXCEPT ![k] = x]
    <3>1. CASE SaveRecord
      BY <3>1 DEF SaveRecord, Written
    <3>2. ASSUME NEW c \in Calls, UpdateLastUsed(c) \/ Revoke(c) \/ Save(c)
          PROVE UNCHANGED store \/ \E k, x : store' = [store EXCEPT ![k] = x]
      BY <3>2 DEF UpdateLastUsed, Revoke, Revokes, RevokeFails, Save, Written, WriteFails
    <3> QED
      BY <3>1, <3>2 DEF Next, CallStep, vars, BeginValidate, BeginRotate, BeginRevoke,
         BeginGenerate, Begin, FindByKeyHash, Check, FindById, Build, ReadRecord, Tick
  <2>3. \A k \in Keys : store'[k] \in ApiKey \cup {None}
    BY RecordStep DEF Stored
  <2>4. CASE UNCHANGED store
    BY <2>1, <2>4
  <2>5. ASSUME NEW k, NEW x, store' = [store EXCEPT ![k] = x]
        PROVE store' \in [Keys -> ApiKey \cup {None}]
    BY <2>1, <2>3, <2>5
  <2> QED
    BY <2>2, <2>4, <2>5
<1>2. ASSUME NEW c \in Calls, Check(c)
      PROVE  /\ DOMAIN counters' \subseteq Keys
             /\ \A k \in DOMAIN counters' : counters'[k] \in Entry
             /\ lastSweep' \in Nat
  <2>1. CASE UNCHANGED <<counters, lastSweep>>
    BY <1>t, <2>1 DEF TypeOK
  <2>2. CASE CountAndSweep(call[c].found)
    <3> DEFINE k == call[c].found
               m == CountRequest(counters, k, now)
    <3>1. k \in Keys
      BY <1>2 DEF Check, KeyInv, CallOK
    <3>2. DOMAIN m \subseteq Keys /\ \A x \in DOMAIN m : m[x] \in Entry
      BY <1>t, <3>1, CountedTypes DEF TypeOK
    <3>3. \/ counters' = Swept(m, now) /\ lastSweep' = Seconds(now)
          \/ counters' = m /\ lastSweep' = lastSweep
      BY <2>2 DEF CountAndSweep
    <3> HIDE DEF m
    <3>4. DOMAIN Swept(m, now) \subseteq Keys /\ \A x \in DOMAIN Swept(m, now) : Swept(m, now)[x] \in Entry
      BY <1>t, <3>2, SweptTypes
    <3> QED
      BY <1>t, <3>2, <3>3, <3>4, SecondsType DEF TypeOK
  <2> QED
    BY <1>2, <2>1, <2>2 DEF Check
<1>3. ASSUME \A c \in Calls : ~Check(c)
      PROVE  /\ DOMAIN counters' \subseteq Keys
             /\ \A k \in DOMAIN counters' : counters'[k] \in Entry
             /\ lastSweep' \in Nat
  <2>1. UNCHANGED <<counters, lastSweep>>
    BY <1>3 DEF Next, CallStep, vars, BeginValidate, BeginRotate, BeginRevoke, BeginGenerate,
           Begin, FindByKeyHash, UpdateLastUsed, FindById, Revoke, Build, Save, ReadRecord, SaveRecord, Tick
  <2> QED
    BY <1>t, <2>1 DEF TypeOK
<1>4. parent' \in [Keys -> Keys \cup {None}]
  <2>1. CASE \E c \in Calls : Build(c)
    BY <2>1, BuildKeepsCalls
  <2>2. CASE \A c \in Calls : ~Build(c)
    <3>1. UNCHANGED parent
      BY <2>2 DEF Next, CallStep, vars, BeginValidate, BeginRotate, BeginRevoke, BeginGenerate,
         Begin, FindByKeyHash, Check, UpdateLastUsed, FindById, Revoke, Save, ReadRecord, SaveRecord, Tick
    <3> QED
      BY <1>t, <3>1 DEF TypeOK
  <2> QED
    BY <2>1, <2>2
<1>5. handed' \subseteq Keys
  <2>1. ASSUME NEW c \in Calls, Save(c) PROVE handed' \subseteq Keys
    <3>1. call[c].found \in minted /\ minted \subseteq Keys /\ handed \subseteq Keys
      BY <2>1 DEF Save, KeyInv, CallOK, TypeOK
    <3> QED
      BY <2>1, <3>1 DEF Save
  <2>2. CASE UNCHANGED handed
    BY <1>t, <2>2 DEF TypeOK
  <2> QED
    BY <2>1, <2>2 DEF Next, CallStep, vars, BeginValidate, BeginRotate, BeginRevoke,
       BeginGenerate, Begin, FindByKeyHash, Check, UpdateLastUsed, FindById, Revoke, Build,
       ReadRecord, SaveRecord, Tick
<1>6. copy' \in [key : Keys, record : ApiKey] \cup {None}
  <2>1. ASSUME NEW k \in Keys, ReadRecord(k) PROVE copy' \in [key : Keys, record : ApiKey]
    BY <1>t, <2>1 DEF ReadRecord, Stored, TypeOK
  <2>2. CASE SaveRecord
    BY <2>2 DEF SaveRecord
  <2>3. CASE UNCHANGED copy
    BY <1>t, <2>3 DEF TypeOK
  <2> QED
    BY <2>1, <2>2, <2>3 DEF Next, CallStep, vars, BeginValidate, BeginRotate, BeginRevoke,
       BeginGenerate, Begin, FindByKeyHash, Check, UpdateLastUsed, FindById, Revoke, Build, Save,
       Tick
<1> QED
  BY <1>1, <1>2, <1>3, <1>4, <1>5, <1>6

\* The copy stays one of a stored key.
LEMMA NextCopyOK ==
    ASSUME KeyInv, [Next]_vars PROVE CopyOK'
<1>t. /\ CopyOK
      /\ copy # None => copy.key \in Keys
  BY DEF KeyInv, TypeOK
<1>1. ASSUME NEW k \in Keys, ReadRecord(k) PROVE CopyOK'
  <2>1. copy' = [key |-> k, record |-> store[k]] /\ store' = store /\ Stored(k)
    BY <1>1 DEF ReadRecord
  <2> QED
    BY <2>1 DEF CopyOK, Stored
<1>2. CASE SaveRecord
  BY <1>2 DEF SaveRecord, CopyOK
<1>3. CASE UNCHANGED copy
  BY <1>t, <1>3, StaysStored DEF CopyOK
<1> QED
  BY <1>1, <1>2, <1>3 DEF Next, CallStep, vars, BeginValidate, BeginRotate, BeginRevoke,
     BeginGenerate, Begin, FindByKeyHash, Check, UpdateLastUsed, FindById, Revoke, Build, Save,
     Tick

\* All calls stay well formed.
LEMMA NextCallsOK ==
    ASSUME KeyInv, [Next]_vars PROVE CallsOK'
<1>1. CASE UNCHANGED <<call, asked>>
  BY <1>1, Undisturbed DEF CallsOK, KeyInv, TypeOK
<1>4. CASE SaveRecord /\ ~UNCHANGED asked
  <2>1. /\ call \in [Calls -> CallState] /\ call' = call
        /\ asked \in [Calls -> [at : Nat, revoked : BOOLEAN]]
        /\ asked' = [c \in Calls |-> [asked[c] EXCEPT !.revoked = @ /\ ~Revives(call[c].key)]]
    BY <1>4 DEF SaveRecord, KeyInv, TypeOK
  <2>2. ASSUME NEW c \in Calls
        PROVE  /\ asked'[c] \in [at : Nat, revoked : BOOLEAN]
               /\ asked'[c].at = asked[c].at
               /\ asked'[c].revoked => asked[c].revoked
    BY <2>1
  <2>3. asked' \in [Calls -> [at : Nat, revoked : BOOLEAN]]
    BY <2>1, <2>2
  <2> QED
    BY <2>1, <2>2, <2>3, Undisturbed DEF CallsOK
<1>2. CASE \E c \in Calls : BeginValidate(c) \/ BeginRotate(c) \/ BeginRevoke(c) \/ BeginGenerate(c)
  BY <1>2, BeginsKeepCalls
<1>3. CASE \E c \in Calls : CallStep(c)
  BY <1>3, StepsKeepCalls
<1> QED
  BY <1>1, <1>2, <1>3, <1>4 DEF Next, vars, ReadRecord, SaveRecord, Tick

\* A step that changes a call is a step of that call.
LEMMA OneActs ==
    ASSUME KeyInv, NEW c \in Calls, call'[c] # call[c], NEW d \in Calls,
           BeginValidate(d) \/ BeginRotate(d) \/ BeginRevoke(d) \/ BeginGenerate(d) \/ CallStep(d)
    PROVE  d = c
<1>1. call \in [Calls -> CallState]
  BY DEF KeyInv, TypeOK
<1> QED
  BY <1>1 DEF CallStep, BeginValidate, BeginRotate, BeginRevoke, BeginGenerate, Begin, Return,
              FindByKeyHash, Check, Proceed, UpdateLastUsed, FindById, Revoke, Build, Save

\* Only minting makes a call that saves, and with an id of its own.
LEMMA NextSavesApart ==
    ASSUME KeyInv, [Next]_vars PROVE SavesApart'
<1>t. /\ call \in [Calls -> CallState]
      /\ minted \subseteq Keys
      /\ SavesApart
      /\ \A c \in Calls : call[c].pc = "save" => call[c].found \in minted
  BY DEF KeyInv, TypeOK, CallOK
<1>1. ASSUME NEW c \in Calls, Build(c) PROVE SavesApart'
  <2>1. PICK k \in Keys \ minted : call'[c].found = k
    BY <1>1, BuildKeepsCalls
  <2>2. \A d \in Calls \ {c} : call'[d] = call[d]
    BY <1>1, BuildKeepsCalls
  <2> QED
    BY <1>t, <2>1, <2>2 DEF SavesApart
<1>2. ASSUME \A c \in Calls : ~Build(c) PROVE SavesApart'
  <2>1. \A c \in Calls : call'[c].pc = "save" => call'[c] = call[c]
    <3> SUFFICES ASSUME NEW c \in Calls, call'[c] # call[c] PROVE call'[c].pc # "save"
      OBVIOUS
    <3>1. ASSUME NEW res \in Results, Return(c, res) PROVE call'[c].pc # "save"
      BY <3>1, ReturnKeepsCalls
    <3>2. CASE FindByKeyHash(c) /\ ~\E res \in Results : Return(c, res)
      BY <3>2, FindByKeyHashKeepsCalls
    <3>3. CASE Check(c) /\ ~\E res \in Results : Return(c, res)
      BY <1>t, <3>3 DEF Check, Verdict, Proceed, Results, CallState
    <3>4. CASE (FindById(c) \/ Revoke(c)) /\ ~\E res \in Results : Return(c, res)
      BY <1>t, <3>4 DEF FindById, Revoke, Results, CallState
    <3>5. CASE UpdateLastUsed(c) \/ Save(c)
      BY <3>1, <3>5 DEF UpdateLastUsed, Save, Results
    <3>6. CASE BeginValidate(c) \/ BeginRotate(c) \/ BeginRevoke(c) \/ BeginGenerate(c)
      BY <3>6, BeginsKeepCalls
    <3>8. ~UNCHANGED call
      OBVIOUS
    <3> QED
      BY <1>2, <3>1, <3>2, <3>3, <3>4, <3>5, <3>6, <3>8, OneActs
         DEF Next, CallStep, vars, ReadRecord, SaveRecord, Tick
  <2> QED
    BY <1>t, <2>1 DEF SavesApart
<1> QED
  BY <1>1, <1>2

\* Every step keeps the invariant.
LEMMA NextKeyInv == KeyInv /\ [Next]_vars => KeyInv'
<1> SUFFICES ASSUME KeyInv, [Next]_vars PROVE KeyInv'
  OBVIOUS
<1>1. TypeOK'
  <2>1. revived' \subseteq Keys
    BY RevivedKeys DEF KeyInv
  <2> QED
    BY <2>1, NextTypes, NextCallsOK, Grows DEF TypeOK, CallsOK
<1>2. \A c \in Calls : CallOK(c)'
  BY NextCallsOK DEF CallsOK
<1>3. \A k \in Keys : Stored(k)' => k \in minted'
  BY RecordStep, Grows DEF KeyInv, CallOK, Save, Stored
<1>4. HandedKeysAreStored'
  <2>1. \A k \in handed' \ handed : Stored(k)'
    <3>2. ASSUME NEW c \in Calls, Save(c), NEW k \in handed' \ handed PROVE Stored(k)'
      <4>1. call[c].found \in Keys /\ call[c].seen \in ApiKey
        BY <3>2 DEF Save, KeyInv, TypeOK, CallOK
      <4>2. k = call[c].found /\ store' = [store EXCEPT ![k] = call[c].seen]
        BY <3>2 DEF Save, Written
      <4> QED
        BY <4>1, <4>2, NoneIsNoRecord DEF KeyInv, TypeOK, Stored
    <3>3. (\E c \in Calls : Save(c)) \/ UNCHANGED handed
      BY DEF Next, CallStep, vars, BeginValidate, BeginRotate, BeginRevoke, BeginGenerate, Begin,
         FindByKeyHash, Check, UpdateLastUsed, FindById, Revoke, Build, ReadRecord, SaveRecord, Tick
    <3> QED
      BY <3>2, <3>3
  <2> QED
    BY <2>1, StaysStored DEF KeyInv, TypeOK, HandedKeysAreStored
<1>5. ReplacedKeyIsRevoked'
  <2> SUFFICES ASSUME NEW k \in Keys, Stored(k)', parent'[k] # None PROVE Barred(parent[k])'
    BY DEF ReplacedKeyIsRevoked
  <2>0. parent \in [Keys -> Keys \cup {None}]
    BY DEF KeyInv, TypeOK
  <2>1. CASE Stored(k)
    <3>1. parent'[k] = parent[k]
      BY <2>1, Grows DEF KeyInv
    <3>2. Barred(parent[k]) /\ parent[k] \in Keys
      BY <2>0, <2>1, <3>1 DEF KeyInv, ReplacedKeyIsRevoked
    <3> QED
      BY <3>1, <3>2, StaysStored DEF Barred, IsRevoked, Stored
  <2>2. CASE ~Stored(k)
    <3>1. PICK c \in Calls : Save(c) /\ call[c].found = k
      BY <2>2, RecordStep DEF Stored
    <3>2. k \in minted /\ parent[k] = call[c].key
             /\ (call[c].key # None => Barred(call[c].key))
      BY <3>1 DEF Save, KeyInv, CallOK
    <3>3. parent'[k] = parent[k]
      BY <3>2, Grows
    <3>4. Barred(parent[k]) /\ parent[k] \in Keys
      BY <2>0, <3>2, <3>3
    <3> QED
      BY <3>3, <3>4, StaysStored DEF Barred, IsRevoked, Stored
  <2> QED
    BY <2>1, <2>2
<1> QED
  BY <1>1, <1>2, <1>3, <1>4, <1>5, NextSavesApart, NextCopyOK DEF KeyInv

-----------------------------------------------------------------------------
\* The variables always have their types.
THEOREM TypeCorrect == Spec => []TypeOK
<1>1. KeyInv => TypeOK
  BY DEF KeyInv
<1> QED
  BY <1>1, InitKeyInv, NextKeyInv, PTL DEF Spec

\* rotate never leaves the old key usable beside its stored replacement, for any
\* number of concurrent calls and whichever store operations fail.
THEOREM RotationRevokes == Spec => []ReplacedKeyIsRevoked
<1>1. KeyInv => ReplacedKeyIsRevoked
  BY DEF KeyInv
<1> QED
  BY <1>1, InitKeyInv, NextKeyInv, PTL DEF Spec

\* Every plaintext a caller was given belongs to a key that is in the store.
THEOREM HandedIsStored == Spec => []HandedKeysAreStored
<1>1. KeyInv => HandedKeysAreStored
  BY DEF KeyInv
<1> QED
  BY <1>1, InitKeyInv, NextKeyInv, PTL DEF Spec

\* No step of the manager un-revokes a key or changes its expiry; only a save by the
\* application, of a copy from before the revocation, does.
THEOREM RevocationIsPermanent == Spec => RevocationIsFinal
<1>1. KeyInv /\ [Next]_vars =>
        [\A k \in Keys : Stored(k) =>
            /\ store'[k] # None
            /\ store'[k].expires = store[k].expires
            /\ store[k].revoked /\ ~store'[k].revoked => Revives(k) /\ copy' = None]_vars
  BY RecordStep, NoneIsNoRecord DEF Undoes
<1> QED
  BY <1>1, InitKeyInv, NextKeyInv, PTL DEF Spec, RevocationIsFinal

\* If the application never has a copy in hand from before a revocation, because it
\* locks the record or reads it again, then revocation is final without exception.
THEOREM OrderlySavesKeepRevocations ==
    Spec /\ [](\A k \in Keys : ~Revives(k)) =>
        [][\A k \in Keys : IsRevoked(k) => IsRevoked(k)']_vars
<1>1. KeyInv /\ [Next]_vars /\ (\A k \in Keys : ~Revives(k)) =>
        [\A k \in Keys : IsRevoked(k) => IsRevoked(k)']_vars
  BY StaysStored DEF Undoes
<1> QED
  BY <1>1, InitKeyInv, NextKeyInv, PTL DEF Spec

\* A validation is accepted only for a key that was stored, neither revoked ever since
\* the call began nor expired when it began.
THEOREM AcceptanceIsSound == Spec => AcceptedWasLive
<1>1. KeyInv /\ [Next]_vars =>
        [\A c \in Calls :
           LET k == call[c].key IN
           call[c].op = "validate" /\ call'[c].result = "ok" =>
              /\ Stored(k)
              /\ ~asked[c].revoked
              /\ ~Expired(store[k], asked[c].at)]_vars
  <2> SUFFICES ASSUME KeyInv, [Next]_vars, NEW c \in Calls,
                      call[c].op = "validate", call'[c].result = "ok"
               PROVE  /\ Stored(call[c].key)
                      /\ ~asked[c].revoked
                      /\ ~Expired(store[call[c].key], asked[c].at)
    OBVIOUS
  <2>1. /\ call[c].pc \in {"lookup", "check", "touch"}
        /\ call[c].result = "none"
        /\ CallOK(c)
    BY DEF KeyInv, CallOK
  <2>2. call[c].pc = "touch"
    <3>1. call'[c] # call[c]
      BY <2>1
    <3>3. CallStep(c)
      BY <2>1, <3>1, OneActs DEF Next, vars, ReadRecord, SaveRecord, Tick, BeginValidate, BeginRotate, BeginRevoke,
                              BeginGenerate, Begin
    <3>4. FindByKeyHash(c) \/ Check(c) \/ UpdateLastUsed(c)
      BY <2>1, <3>3 DEF CallStep, FindById, Revoke, Build, Save
    <3> QED
      BY <3>4, FindByKeyHashKeepsCalls, CheckKeepsCalls DEF UpdateLastUsed
  <2> QED
    BY <2>1, <2>2 DEF CallOK, Expired
<1> QED
  BY <1>1, InitKeyInv, NextKeyInv, PTL DEF Spec, AcceptedWasLive

-----------------------------------------------------------------------------
(***************************************************************************)
(* The rate limiter.                                                       *)
(***************************************************************************)

\* Requests are served by the threads and for the keys of the load.
LoadOK ==
    /\ \A t \in Threads : req[t].pc # "idle" => t \in load.threads /\ req[t].key \in load.keys
    /\ DOMAIN rateCounters \subseteq load.keys

\* If nothing is ever swept, the counters are as if nothing were.
NeverSwept ==
    Unswept =>
        /\ rateCounters = unswept
        /\ \A t \in Threads : req[t].pc \notin {"cas", "retain"}

\* One after the other, a counter is as if nothing were swept, or it was swept and
\* the next request would start it afresh; a request is counted as it would be.
SweptIsOver ==
    InOrder =>
        \A t \in load.threads :
            /\ req[t].at <= clock
            /\ DOMAIN rateCounters \subseteq DOMAIN unswept
            /\ \A k \in DOMAIN unswept :
                  /\ unswept[k].start <= req[t].at
                  /\ IF k \in DOMAIN rateCounters THEN rateCounters[k] = unswept[k]
                                                  ELSE Elapsed(unswept[k], req[t].at)
            /\ req[t].pc \in CountedSteps =>
                  /\ req[t].key \in DOMAIN unswept
                  /\ req[t].entry = unswept[req[t].key]
                  /\ ~Elapsed(req[t].entry, req[t].at)

\* Requests let through, and those counted that will be, on the window of k that
\* starts at s.
Through(k, s) == {a \in admitted : a.key = k /\ a.start = s}
ToPass(k, s) ==
    {t \in Threads : /\ req[t].pc \in CountedSteps
                     /\ req[t].key = k
                     /\ req[t].entry.start = s
                     /\ Allowed(req[t].entry.count)}
Passing(k, s) == Cardinality(Through(k, s)) + Cardinality(ToPass(k, s))

\* No window passes more than the limit or than were counted in it, and none that
\* would start later than the counter passes any.
SlotsOK ==
    Unswept \/ InOrder =>
        \A k \in Keys, s \in Nat :
            /\ Passing(k, s) <= Limit
            /\ k \in DOMAIN unswept /\ s = unswept[k].start => Passing(k, s) <= unswept[k].count
            /\ (k \in DOMAIN unswept => s > unswept[k].start) => Passing(k, s) = 0

\* One after the other, the windows requests were let through on do not overlap.
WindowsApart ==
    InOrder =>
        \A a \in admitted :
            /\ a.start <= a.at /\ a.at <= a.start + Window
            /\ a.key \in DOMAIN unswept
            /\ a.start = unswept[a.key].start \/ a.start + Window < unswept[a.key].start
            /\ \A b \in admitted :
                  \/ b.key # a.key
                  \/ b.start = a.start
                  \/ a.start + Window < b.start
                  \/ b.start + Window < a.start

\* The instant the last sweep is recorded with, in ticks.
LastSweep == lastSweepUnix * TicksPerSecond

\* One after the other, a sweep leaves no counter that was over when it began, and
\* those since are later.
LateCounters ==
    InOrder =>
        \A t \in load.threads :
            /\ LastSweep <= req[t].at
            /\ \A k \in DOMAIN rateCounters :
                  \/ LastSweep <= rateCounters[k].start + Window
                  \/ req[t].pc = "retain" /\ k \in req[t].todo
            /\ req[t].pc = "cas" => req[t].last = lastSweepUnix
            /\ req[t].pc = "retain" => LastSweep + TicksPerSecond > req[t].at
            /\ req[t].pc = "decide" =>
                  \/ ~(Cardinality(DOMAIN rateCounters) >= SweepThreshold)
                  \/ req[t].at < LastSweep + WindowSeconds * TicksPerSecond

\* Each request has an id of its own, and the clock stays within its bound.
IdsOK ==
    /\ served <= MaxRequests
    /\ clock <= load.until
    /\ \A t \in Threads :
          req[t].pc # "idle" =>
              /\ req[t].id < served
              /\ req[t].at <= load.until
              /\ \A u \in Threads : u # t /\ req[u].pc # "idle" => req[u].id # req[t].id
              /\ \A a \in admitted : a.id # req[t].id
    /\ \A a \in admitted : a.id < served

LimiterInv ==
    /\ LimiterTypeOK
    /\ IsFiniteSet(admitted)
    /\ LoadOK
    /\ IdsOK
    /\ NeverSwept
    /\ SweptIsOver
    /\ SlotsOK
    /\ WindowsApart
    /\ LateCounters

\* An entry after one more request: a fresh window if the old one was over.
LEMMA CountedIs ==
    ASSUME NEW e \in Entry, NEW t \in Nat
    PROVE  /\ Counted(e, t) \in Entry
           /\ Elapsed(e, t) => Counted(e, t).start = t /\ Counted(e, t).count = 1
           /\ ~Elapsed(e, t) => /\ Counted(e, t).start = e.start
                                /\ Counted(e, t).count = e.count + 1
           /\ e.start <= t => Counted(e, t).start <= t
           /\ ~Elapsed(Counted(e, t), t)
BY RateWindowAssumption DEF Counted, Elapsed, Entry

\* The map after a request is a map of entries.
LEMMA CountRequestType ==
    ASSUME NEW m, m \in [DOMAIN m -> Entry], NEW k, NEW t \in Nat
    PROVE  /\ CountRequest(m, k, t) \in [DOMAIN m \cup {k} -> Entry]
           /\ CountRequest(m, k, t)[k] \in Entry
<1>1. [start |-> t, count |-> 1] \in Entry
  BY DEF Entry
<1>2. \A x \in DOMAIN m : m[x] \in Entry /\ Counted(m[x], t) \in Entry
  BY CountedIs
<1>3. \A x \in DOMAIN m \cup {k} :
         (IF x # k THEN m[x]
          ELSE IF k \in DOMAIN m THEN Counted(m[k], t)
          ELSE [start |-> t, count |-> 1]) \in Entry
  BY <1>1, <1>2
<1>4. CountRequest(m, k, t) \in [DOMAIN m \cup {k} -> Entry]
  BY <1>3 DEF CountRequest
<1> QED
  BY <1>4

\* The types of what a request is counted in.
LEMMA CountItTypes ==
    ASSUME LimiterTypeOK, NEW t \in Threads, CountIt(t)
    PROVE  /\ rateCounters' \in [DOMAIN rateCounters' -> Entry]
           /\ DOMAIN rateCounters' = DOMAIN rateCounters \cup {req[t].key}
           /\ rateCounters'[req[t].key] \in Entry
           /\ unswept' \in [DOMAIN unswept' -> Entry]
           /\ DOMAIN unswept' = DOMAIN unswept \cup {req[t].key}
           /\ unswept'[req[t].key] \in Entry
<1> DEFINE k == req[t].key
<1>t. k \in Keys /\ req[t].at \in Nat
  BY DEF LimiterTypeOK, Request
<1>2. rateCounters' = CountRequest(rateCounters, k, req[t].at)
      /\ unswept' = CountRequest(unswept, k, req[t].at)
  BY DEF CountIt
<1>3. rateCounters \in [DOMAIN rateCounters -> Entry] /\ unswept \in [DOMAIN unswept -> Entry]
  BY DEF LimiterTypeOK
<1> QED
  BY <1>t, <1>2, <1>3, CountRequestType

\* The steps of a request, as they change req.
LEMMA LimiterTypes ==
    LimiterTypeOK /\ [LimiterNext]_limiterVars => LimiterTypeOK'
<1> SUFFICES ASSUME LimiterTypeOK, [LimiterNext]_limiterVars PROVE LimiterTypeOK'
  OBVIOUS
<1>t. /\ load \in Loads /\ clock \in Nat /\ setBack \in BOOLEAN
      /\ DOMAIN rateCounters \subseteq Keys /\ rateCounters \in [DOMAIN rateCounters -> Entry]
      /\ DOMAIN unswept \subseteq Keys /\ unswept \in [DOMAIN unswept -> Entry]
      /\ lastSweepUnix \in Nat /\ req \in [Threads -> Request]
      /\ admitted \subseteq Admission /\ served \in Nat
  BY DEF LimiterTypeOK
<1>e. NoEntry \in Entry
  BY DEF NoEntry, Entry
<1>1. ASSUME NEW t \in Threads, NEW k \in Keys, Arrive(t, k) PROVE LimiterTypeOK'
  <2>1. [pc |-> "lookup", id |-> served, key |-> k, at |-> clock, entry |-> NoEntry,
         last |-> 0, todo |-> {}] \in Request
    BY <1>t, <1>e DEF Request, RequestSteps
  <2>2. req' \in [Threads -> Request]
    BY <1>1, <1>t, <2>1 DEF Arrive
  <2> QED
    BY <1>1, <1>t, <2>2 DEF Arrive, LimiterTypeOK
<1>c. ASSUME NEW t \in Threads, CountIt(t),
             UNCHANGED <<load, clock, setBack, lastSweepUnix, admitted, served>>
      PROVE  LimiterTypeOK'
  <2>1. PICK e \in Entry : req' = [req EXCEPT ![t].pc = "sweep", ![t].entry = e]
    BY <1>c, CountItTypes DEF CountIt
  <2>2. [req[t] EXCEPT !.pc = "sweep", !.entry = e] \in Request
    BY <1>t DEF Request, RequestSteps
  <2>3. req' \in [Threads -> Request]
    BY <1>t, <2>1, <2>2
  <2>4. req[t].key \in Keys
    BY <1>t DEF Request
  <2> QED
    BY <1>c, <1>t, <2>3, <2>4, CountItTypes DEF LimiterTypeOK
<1>2. ASSUME NEW t \in Threads, Lookup(t) PROVE LimiterTypeOK'
  <2>1. CASE CountIt(t)
    BY <1>2, <1>c, <2>1 DEF Lookup
  <2>2. CASE ~CountIt(t)
    <3>1. [req[t] EXCEPT !.pc = "insert"] \in Request
      BY <1>t DEF Request, RequestSteps
    <3> QED
      BY <1>2, <1>t, <2>2, <3>1 DEF Lookup, LimiterTypeOK
  <2> QED
    BY <2>1, <2>2
<1>3. ASSUME NEW t \in Threads, Insert(t) PROVE LimiterTypeOK'
  BY <1>3, <1>c DEF Insert
<1>4. ASSUME NEW t \in Threads, Sweep(t) PROVE LimiterTypeOK'
  <2>1. /\ [req[t] EXCEPT !.pc = "cas", !.last = lastSweepUnix] \in Request
        /\ [req[t] EXCEPT !.pc = "decide"] \in Request
    BY <1>t DEF Request, RequestSteps
  <2> QED
    BY <1>4, <1>t, <2>1 DEF Sweep, LimiterTypeOK
<1>5. ASSUME NEW t \in Threads, CompareExchange(t) PROVE LimiterTypeOK'
  <2>1. /\ [req[t] EXCEPT !.pc = "retain", !.todo = Keys] \in Request
        /\ [req[t] EXCEPT !.pc = "decide"] \in Request
        /\ req[t].at \in Nat
    BY <1>t DEF Request, RequestSteps
  <2>2. Seconds(req[t].at) \in Nat
    BY <2>1, SecondsType
  <2> QED
    BY <1>5, <1>t, <2>1, <2>2 DEF CompareExchange, LimiterTypeOK
<1>6. ASSUME NEW t \in Threads, Retain(t) PROVE LimiterTypeOK'
  <2>1. PICK k \in req[t].todo :
          /\ req' = [req EXCEPT ![t].todo = req[t].todo \ {k},
                                ![t].pc = IF req[t].todo = {k} THEN "decide" ELSE "retain"]
          /\ rateCounters' = [x \in {y \in DOMAIN rateCounters :
                                       y = k => Retained(rateCounters[y], req[t].at)}
                                 |-> rateCounters[x]]
    BY <1>6, <1>t DEF Retain
  <2>2. [req[t] EXCEPT !.todo = req[t].todo \ {k},
                       !.pc = IF req[t].todo = {k} THEN "decide" ELSE "retain"] \in Request
    BY <1>t DEF Request, RequestSteps
  <2> QED
    BY <1>6, <1>t, <2>1, <2>2 DEF Retain, LimiterTypeOK
<1>7. ASSUME NEW t \in Threads, Decide(t) PROVE LimiterTypeOK'
  <2>1. [req[t] EXCEPT !.pc = "idle", !.entry = NoEntry, !.last = 0] \in Request
    BY <1>t, <1>e DEF Request, RequestSteps
  <2>2. Answer(t) \in Admission
    BY <1>t DEF Answer, Request, Admission, Entry
  <2>3. req' \in [Threads -> Request] /\ admitted' \subseteq Admission
    BY <1>7, <1>t, <2>1, <2>2 DEF Decide
  <2> QED
    BY <1>7, <1>t, <2>3 DEF Decide, LimiterTypeOK
<1>8. CASE LimiterTick
  BY <1>8, <1>t DEF LimiterTick, LimiterTypeOK
<1>9. CASE SetBack
  <2>1. clock' \in Nat
    BY <1>9, <1>t DEF SetBack
  <2> QED
    BY <1>9, <1>t, <2>1 DEF SetBack, LimiterTypeOK
<1>10. CASE UNCHANGED limiterVars
  BY <1>10, <1>t DEF limiterVars, LimiterTypeOK
<1> QED
  BY <1>1, <1>2, <1>3, <1>4, <1>5, <1>6, <1>7, <1>8, <1>9, <1>10
  DEF LimiterNext, RequestStep

\* What a step of thread t leaves alone in the requests.
Others(t) == \A u \in Threads : u # t => req'[u] = req[u]
SameRequest(t) ==
    req'[t].id = req[t].id /\ req'[t].key = req[t].key /\ req'[t].at = req[t].at
SameEntry(t) == req'[t].entry = req[t].entry

\* Each step of a request, field by field.
LEMMA ArriveIs ==
    ASSUME LimiterTypeOK, NEW t \in Threads, NEW k \in Keys, Arrive(t, k)
    PROVE  /\ Others(t)
           /\ req[t].pc = "idle" /\ req'[t].pc = "lookup"
           /\ req'[t].id = served /\ req'[t].key = k /\ req'[t].at = clock
           /\ served < MaxRequests /\ served' = served + 1
           /\ t \in load.threads /\ k \in load.keys
           /\ UNCHANGED <<load, clock, setBack, rateCounters, lastSweepUnix, unswept, admitted>>
BY DEF LimiterTypeOK, Arrive, Others

LEMMA MissIs ==
    ASSUME LimiterTypeOK, NEW t \in Threads, Lookup(t), ~CountIt(t)
    PROVE  /\ Others(t) /\ SameRequest(t)
           /\ req[t].pc = "lookup" /\ req'[t].pc = "insert"
           /\ UNCHANGED <<load, clock, setBack, rateCounters, lastSweepUnix, unswept, admitted, served>>
BY DEF LimiterTypeOK, Lookup, Others, SameRequest, Request

LEMMA CountIs ==
    ASSUME LimiterTypeOK, NEW t \in Threads, Lookup(t) \/ Insert(t), CountIt(t)
    PROVE  /\ Others(t) /\ SameRequest(t)
           /\ req[t].pc \in {"lookup", "insert"} /\ req'[t].pc = "sweep"
           /\ rateCounters' = CountRequest(rateCounters, req[t].key, req[t].at)
           /\ unswept' = CountRequest(unswept, req[t].key, req[t].at)
           /\ req'[t].entry = rateCounters'[req[t].key]
           /\ UNCHANGED <<load, clock, setBack, lastSweepUnix, admitted, served>>
<1>1. /\ rateCounters' = CountRequest(rateCounters, req[t].key, req[t].at)
      /\ unswept' = CountRequest(unswept, req[t].key, req[t].at)
      /\ req' = [req EXCEPT ![t].pc = "sweep", ![t].entry = rateCounters'[req[t].key]]
  BY DEF CountIt
<1>2. /\ req[t].pc \in {"lookup", "insert"}
      /\ UNCHANGED <<load, clock, setBack, lastSweepUnix, admitted, served>>
  BY DEF Lookup, Insert
<1> QED
  BY <1>1, <1>2 DEF LimiterTypeOK, Others, SameRequest, Request

LEMMA SweepIs ==
    ASSUME LimiterTypeOK, NEW t \in Threads, Sweep(t)
    PROVE  /\ Others(t) /\ SameRequest(t) /\ SameEntry(t)
           /\ req[t].pc = "sweep"
           /\ \/ /\ SweepDue(rateCounters, lastSweepUnix, req[t].at)
                 /\ req'[t].pc = "cas" /\ req'[t].last = lastSweepUnix
              \/ /\ ~SweepDue(rateCounters, lastSweepUnix, req[t].at)
                 /\ req'[t].pc = "decide"
           /\ UNCHANGED <<load, clock, setBack, rateCounters, lastSweepUnix, unswept, admitted, served>>
BY DEF LimiterTypeOK, Sweep, Others, SameRequest, SameEntry, Request

LEMMA CompareExchangeIs ==
    ASSUME LimiterTypeOK, NEW t \in Threads, CompareExchange(t)
    PROVE  /\ Others(t) /\ SameRequest(t) /\ SameEntry(t)
           /\ req[t].pc = "cas"
           /\ \/ /\ lastSweepUnix = req[t].last /\ lastSweepUnix' = Seconds(req[t].at)
                 /\ req'[t].pc = "retain" /\ req'[t].todo = Keys
              \/ /\ lastSweepUnix # req[t].last /\ lastSweepUnix' = lastSweepUnix
                 /\ req'[t].pc = "decide"
           /\ UNCHANGED <<load, clock, setBack, rateCounters, unswept, admitted, served>>
BY DEF LimiterTypeOK, CompareExchange, Others, SameRequest, SameEntry, Request

LEMMA RetainIs ==
    ASSUME LimiterTypeOK, NEW t \in Threads, Retain(t)
    PROVE  \E k \in req[t].todo :
             /\ Others(t) /\ SameRequest(t) /\ SameEntry(t)
             /\ req[t].pc = "retain"
             /\ req'[t].todo = req[t].todo \ {k}
             /\ req'[t].pc \in {"decide", "retain"}
             /\ req'[t].pc = "decide" => req'[t].todo = {}
             /\ DOMAIN rateCounters' = {y \in DOMAIN rateCounters :
                                          y = k => Retained(rateCounters[y], req[t].at)}
             /\ \A y \in DOMAIN rateCounters' : rateCounters'[y] = rateCounters[y]
             /\ UNCHANGED <<load, clock, setBack, lastSweepUnix, unswept, admitted, served>>
<1>1. PICK k \in req[t].todo :
          /\ req' = [req EXCEPT ![t].todo = @ \ {k},
                                ![t].pc = IF req[t].todo = {k} THEN "decide" ELSE "retain"]
          /\ rateCounters' = [x \in {y \in DOMAIN rateCounters :
                                       y = k => Retained(rateCounters[y], req[t].at)}
                                 |-> rateCounters[x]]
  BY DEF Retain
<1>2. /\ req'[t].todo = req[t].todo \ {k}
      /\ req'[t].pc = IF req[t].todo = {k} THEN "decide" ELSE "retain"
      /\ Others(t) /\ SameRequest(t) /\ SameEntry(t)
  BY <1>1 DEF LimiterTypeOK, Others, SameRequest, SameEntry, Request
<1> QED
  BY <1>1, <1>2 DEF Retain

LEMMA DecideIs ==
    ASSUME LimiterTypeOK, NEW t \in Threads, Decide(t)
    PROVE  /\ Others(t) /\ SameRequest(t)
           /\ req[t].pc = "decide" /\ req'[t].pc = "idle"
           /\ admitted' = IF Allowed(req[t].entry.count) THEN admitted \cup {Answer(t)}
                                                         ELSE admitted
           /\ UNCHANGED <<load, clock, setBack, rateCounters, lastSweepUnix, unswept, served>>
BY DEF LimiterTypeOK, Decide, Others, SameRequest, Request

\* A step is one of these.
LEMMA LimiterSteps ==
    ASSUME [LimiterNext]_limiterVars
    PROVE  \/ \E t \in Threads, k \in Keys : Arrive(t, k)
           \/ \E t \in Threads : \/ Lookup(t) /\ ~CountIt(t)
                                 \/ (Lookup(t) \/ Insert(t)) /\ CountIt(t)
                                 \/ Sweep(t)
                                 \/ CompareExchange(t)
                                 \/ Retain(t)
                                 \/ Decide(t)
           \/ LimiterTick
           \/ SetBack
           \/ UNCHANGED limiterVars
BY DEF LimiterNext, RequestStep, Insert

\* The keys of a load are finitely many.
LEMMA LoadIsFinite ==
    ASSUME LimiterTypeOK
    PROVE  IsFiniteSet(load.keys) /\ IsFiniteSet(load.threads) /\ load.threads \subseteq Threads
<1>1. load \in Loads
  BY DEF LimiterTypeOK
<1>2. load.threads \in SUBSET Threads
  BY <1>1, RateLimiterAssumption
<1> QED
  BY <1>1, <1>2, RateLimiterAssumption, FS_Subset

\* One after the other there is one thread.
LEMMA OneThread ==
    ASSUME LimiterTypeOK, InOrder, NEW t \in load.threads
    PROVE  load.threads = {t}
<1>1. IsFiniteSet(load.threads)
  BY LoadIsFinite
<1>2. Cardinality(load.threads) = 1
  BY DEF InOrder, Sequential
<1>3. PICK x : load.threads = {x}
  BY <1>1, <1>2, FS_Singleton
<1> QED
  BY <1>3

\* Requests stay within the load.
LEMMA LoadStep ==
    ASSUME LimiterTypeOK, LoadOK, [LimiterNext]_limiterVars
    PROVE  LoadOK' /\ load' = load
<1>1. ASSUME NEW t \in Threads, NEW k \in Keys, Arrive(t, k) PROVE LoadOK' /\ load' = load
  BY <1>1, ArriveIs DEF LoadOK, Others
<1>2. ASSUME NEW t \in Threads, Lookup(t), ~CountIt(t) PROVE LoadOK' /\ load' = load
  BY <1>2, MissIs DEF LoadOK, Others, SameRequest
<1>3. ASSUME NEW t \in Threads, Lookup(t) \/ Insert(t), CountIt(t) PROVE LoadOK' /\ load' = load
  <2>1. DOMAIN rateCounters' = DOMAIN rateCounters \cup {req[t].key}
    BY <1>3, CountItTypes
  <2> QED
    BY <1>3, <2>1, CountIs DEF LoadOK, Others, SameRequest
<1>4. ASSUME NEW t \in Threads, Sweep(t) PROVE LoadOK' /\ load' = load
  BY <1>4, SweepIs DEF LoadOK, Others, SameRequest
<1>5. ASSUME NEW t \in Threads, CompareExchange(t) PROVE LoadOK' /\ load' = load
  BY <1>5, CompareExchangeIs DEF LoadOK, Others, SameRequest
<1>6. ASSUME NEW t \in Threads, Retain(t) PROVE LoadOK' /\ load' = load
  BY <1>6, RetainIs DEF LoadOK, Others, SameRequest
<1>7. ASSUME NEW t \in Threads, Decide(t) PROVE LoadOK' /\ load' = load
  BY <1>7, DecideIs DEF LoadOK, Others, SameRequest
<1>8. CASE LimiterTick \/ SetBack \/ UNCHANGED limiterVars
  BY <1>8 DEF LimiterTick, SetBack, limiterVars, LoadOK
<1> QED
  BY <1>1, <1>2, <1>3, <1>4, <1>5, <1>6, <1>7, <1>8, LimiterSteps

\* Ids stay apart.
LEMMA IdsStep ==
    ASSUME LimiterTypeOK, IdsOK, [LimiterNext]_limiterVars
    PROVE  IdsOK'
<1>n. /\ served \in Nat /\ clock \in Nat /\ MaxRequests \in Nat /\ load.until \in Nat
      /\ \A t \in Threads : req[t].id \in Nat /\ req[t].at \in Nat
      /\ \A a \in admitted : a.id \in Nat
  <2>1. load \in Loads
    BY DEF LimiterTypeOK
  <2>2. load.until \in Nat
    BY <2>1, RateLimiterAssumption
  <2> QED
    BY <2>2, RateLimiterAssumption DEF LimiterTypeOK, Request, Admission
<1>1. ASSUME NEW t \in Threads, NEW k \in Keys, Arrive(t, k) PROVE IdsOK'
  <2>1. /\ Others(t) /\ req'[t].id = served /\ req'[t].at = clock
        /\ req[t].pc = "idle" /\ served < MaxRequests /\ served' = served + 1
        /\ load' = load /\ clock' = clock /\ admitted' = admitted
    BY <1>1, ArriveIs
  <2> QED
    BY <1>n, <2>1 DEF IdsOK, Others
<1>2. ASSUME NEW t \in Threads, Others(t), SameRequest(t), req[t].pc # "idle",
             load' = load, clock' = clock, served' = served, admitted' = admitted
      PROVE  IdsOK'
  BY <1>2 DEF IdsOK, Others, SameRequest
<1>3. ASSUME NEW t \in Threads, Decide(t) PROVE IdsOK'
  <2>1. /\ Others(t) /\ req[t].pc = "decide" /\ req'[t].pc = "idle"
        /\ admitted' = admitted \/ admitted' = admitted \cup {Answer(t)}
        /\ load' = load /\ clock' = clock /\ served' = served
    BY <1>3, DecideIs
  <2>2. Answer(t).id = req[t].id
    BY DEF Answer
  <2> QED
    BY <2>1, <2>2 DEF IdsOK, Others
<1>4. ASSUME NEW t \in Threads,
             \/ Lookup(t) /\ ~CountIt(t)
             \/ (Lookup(t) \/ Insert(t)) /\ CountIt(t)
             \/ Sweep(t)
             \/ CompareExchange(t)
             \/ Retain(t)
      PROVE  IdsOK'
  <2>1. /\ Others(t) /\ SameRequest(t) /\ req[t].pc # "idle"
        /\ load' = load /\ clock' = clock /\ served' = served /\ admitted' = admitted
    BY <1>4, MissIs, CountIs, SweepIs, CompareExchangeIs, RetainIs
  <2> QED
    BY <1>2, <2>1
<1>5. CASE LimiterTick
  BY <1>5, <1>n DEF LimiterTick, IdsOK
<1>6. CASE SetBack
  <2>1. clock' \in Nat /\ clock' <= clock
    BY <1>6, <1>n DEF SetBack
  <2> QED
    BY <1>6, <1>n, <2>1 DEF SetBack, IdsOK
<1>7. CASE UNCHANGED limiterVars
  BY <1>7 DEF limiterVars, IdsOK
<1> QED
  BY <1>1, <1>3, <1>4, <1>5, <1>6, <1>7, LimiterSteps

\* At most one request is let through at a time.
LEMMA AdmittedStep ==
    ASSUME LimiterTypeOK, IsFiniteSet(admitted), [LimiterNext]_limiterVars
    PROVE  IsFiniteSet(admitted')
<1>1. \/ admitted' = admitted
      \/ \E a : admitted' = admitted \cup {a}
  BY LimiterSteps, ArriveIs, MissIs, CountIs, SweepIs, CompareExchangeIs, RetainIs, DecideIs
     DEF LimiterTick, SetBack, limiterVars
<1> QED
  BY <1>1, FS_AddElement

\* Below the threshold nothing is swept.
LEMMA NeverSweptStep ==
    ASSUME LimiterTypeOK, LoadOK, NeverSwept, [LimiterNext]_limiterVars
    PROVE  NeverSwept'
<1> SUFFICES ASSUME Unswept'
             PROVE  /\ rateCounters' = unswept'
                    /\ \A t \in Threads : req'[t].pc \notin {"cas", "retain"}
  BY DEF NeverSwept
<1>u. Unswept
  BY LoadStep DEF Unswept
<1>i. rateCounters = unswept /\ \A t \in Threads : req[t].pc \notin {"cas", "retain"}
  BY <1>u DEF NeverSwept
<1>n. \A l, a : ~SweepDue(rateCounters, l, a)
  <2>1. Cardinality(DOMAIN rateCounters) <= Cardinality(load.keys)
        /\ Cardinality(DOMAIN rateCounters) \in Nat /\ Cardinality(load.keys) \in Nat
    BY LoadIsFinite, FS_Subset, FS_CardinalityType DEF LoadOK
  <2>2. SweepThreshold \in Nat
    BY RateWindowAssumption
  <2> QED
    BY <1>u, <2>1, <2>2 DEF SweepDue, Unswept
<1>1. ASSUME NEW t \in Threads, NEW k \in Keys, Arrive(t, k)
      PROVE  rateCounters' = unswept' /\ \A u \in Threads : req'[u].pc \notin {"cas", "retain"}
  BY <1>1, <1>i, ArriveIs DEF Others
<1>2. ASSUME NEW t \in Threads, Lookup(t), ~CountIt(t)
      PROVE  rateCounters' = unswept' /\ \A u \in Threads : req'[u].pc \notin {"cas", "retain"}
  BY <1>2, <1>i, MissIs DEF Others
<1>3. ASSUME NEW t \in Threads, Lookup(t) \/ Insert(t), CountIt(t)
      PROVE  rateCounters' = unswept' /\ \A u \in Threads : req'[u].pc \notin {"cas", "retain"}
  BY <1>3, <1>i, CountIs DEF Others
<1>4. ASSUME NEW t \in Threads, Sweep(t)
      PROVE  rateCounters' = unswept' /\ \A u \in Threads : req'[u].pc \notin {"cas", "retain"}
  BY <1>4, <1>i, <1>n, SweepIs DEF Others
<1>5. ASSUME NEW t \in Threads, CompareExchange(t) \/ Retain(t) PROVE FALSE
  BY <1>5, <1>i, CompareExchangeIs, RetainIs
<1>6. ASSUME NEW t \in Threads, Decide(t)
      PROVE  rateCounters' = unswept' /\ \A u \in Threads : req'[u].pc \notin {"cas", "retain"}
  BY <1>6, <1>i, DecideIs DEF Others
<1>7. CASE LimiterTick \/ SetBack \/ UNCHANGED limiterVars
  BY <1>7, <1>i DEF LimiterTick, SetBack, limiterVars
<1> QED
  BY <1>1, <1>2, <1>3, <1>4, <1>5, <1>6, <1>7, LimiterSteps

\* The clock is set back once and for all.
LEMMA InOrderStep ==
    ASSUME LimiterTypeOK, LoadOK, [LimiterNext]_limiterVars, InOrder'
    PROVE  InOrder /\ ~SetBack
<1>1. load' = load
  BY LoadStep
<1>2. setBack' = setBack \/ SetBack
  BY LimiterSteps, ArriveIs, MissIs, CountIs, SweepIs, CompareExchangeIs, RetainIs, DecideIs
     DEF LimiterTick, limiterVars
<1> QED
  BY <1>1, <1>2 DEF InOrder, Sequential, SetBack

\* The entry and the history of the entry of a key, after a request for it.
LEMMA CountedTogether ==
    ASSUME LimiterTypeOK, LoadOK, SweptIsOver, InOrder, NEW t \in load.threads,
           Lookup(t) \/ Insert(t), CountIt(t)
    PROVE  /\ rateCounters'[req[t].key] = unswept'[req[t].key]
           /\ unswept'[req[t].key].start <= req[t].at
           /\ ~Elapsed(unswept'[req[t].key], req[t].at)
<1>t. t \in Threads
  BY LoadIsFinite
<1> DEFINE k == req[t].key
           at == req[t].at
<1>1. k \in Keys /\ at \in Nat
  BY <1>t DEF LimiterTypeOK, Request
<1>2. /\ rateCounters' = CountRequest(rateCounters, k, at)
      /\ unswept' = CountRequest(unswept, k, at)
  BY <1>t, CountIs
<1>3. /\ rateCounters'[k] = IF k \in DOMAIN rateCounters THEN Counted(rateCounters[k], at)
                                                          ELSE [start |-> at, count |-> 1]
      /\ unswept'[k] = IF k \in DOMAIN unswept THEN Counted(unswept[k], at)
                                               ELSE [start |-> at, count |-> 1]
  BY <1>2 DEF CountRequest
<1>4. /\ DOMAIN rateCounters \subseteq DOMAIN unswept
      /\ k \in DOMAIN unswept =>
            /\ unswept[k] \in Entry
            /\ unswept[k].start <= at
            /\ IF k \in DOMAIN rateCounters THEN rateCounters[k] = unswept[k]
                                            ELSE Elapsed(unswept[k], at)
  BY DEF SweptIsOver, LimiterTypeOK
<1>5. CASE k \notin DOMAIN unswept
  <2>1. ~Elapsed([start |-> at, count |-> 1], at)
    BY <1>1, RateWindowAssumption DEF Elapsed
  <2> QED
    BY <1>1, <1>3, <1>4, <1>5, <2>1
<1>6. CASE k \in DOMAIN unswept
  <2>1. /\ Counted(unswept[k], at).start <= at
        /\ ~Elapsed(Counted(unswept[k], at), at)
    BY <1>1, <1>4, <1>6, CountedIs
  <2>2. k \notin DOMAIN rateCounters => Counted(unswept[k], at) = [start |-> at, count |-> 1]
    BY <1>4, <1>6 DEF Counted
  <2> QED
    BY <1>3, <1>4, <1>6, <2>1, <2>2
<1> QED
  BY <1>5, <1>6

LEMMA CountedAlike ==
    ASSUME LimiterTypeOK, LoadOK, NeverSwept, SweptIsOver, Unswept \/ InOrder,
           NEW t \in Threads, Lookup(t) \/ Insert(t), CountIt(t)
    PROVE  rateCounters'[req[t].key] = unswept'[req[t].key]
<1>1. CASE Unswept
  BY <1>1, CountIs DEF NeverSwept
<1>2. CASE InOrder
  <2>1. t \in load.threads
    BY CountIs DEF LoadOK
  <2> QED
    BY <1>2, <2>1, CountedTogether
<1> QED
  BY <1>1, <1>2

\* One after the other, sweeping a counter or not makes no difference.
LEMMA SweptIsOverStep ==
    ASSUME LimiterTypeOK, LoadOK, SweptIsOver, [LimiterNext]_limiterVars
    PROVE  SweptIsOver'
<1> SUFFICES ASSUME InOrder', NEW t \in load'.threads
             PROVE  /\ req'[t].at <= clock'
                    /\ DOMAIN rateCounters' \subseteq DOMAIN unswept'
                    /\ \A k \in DOMAIN unswept' :
                          /\ unswept'[k].start <= req'[t].at
                          /\ IF k \in DOMAIN rateCounters' THEN rateCounters'[k] = unswept'[k]
                                                           ELSE Elapsed(unswept'[k], req'[t].at)
                    /\ req'[t].pc \in CountedSteps =>
                          /\ req'[t].key \in DOMAIN unswept'
                          /\ req'[t].entry = unswept'[req'[t].key]
                          /\ ~Elapsed(req'[t].entry, req'[t].at)
  BY DEF SweptIsOver
<1> DEFINE Goal == /\ req'[t].at <= clock'
                   /\ DOMAIN rateCounters' \subseteq DOMAIN unswept'
                   /\ \A k \in DOMAIN unswept' :
                         /\ unswept'[k].start <= req'[t].at
                         /\ IF k \in DOMAIN rateCounters' THEN rateCounters'[k] = unswept'[k]
                                                          ELSE Elapsed(unswept'[k], req'[t].at)
                   /\ req'[t].pc \in CountedSteps =>
                         /\ req'[t].key \in DOMAIN unswept'
                         /\ req'[t].entry = unswept'[req'[t].key]
                         /\ ~Elapsed(req'[t].entry, req'[t].at)
<1>o. InOrder /\ ~SetBack
  BY InOrderStep
<1>t. t \in Threads /\ t \in load.threads
  BY LoadStep, LoadIsFinite
<1>one. \A u \in load.threads : u = t
  BY <1>o, <1>t, OneThread
<1>i. /\ req[t].at <= clock
      /\ DOMAIN rateCounters \subseteq DOMAIN unswept
      /\ \A k \in DOMAIN unswept :
            /\ unswept[k].start <= req[t].at
            /\ IF k \in DOMAIN rateCounters THEN rateCounters[k] = unswept[k]
                                            ELSE Elapsed(unswept[k], req[t].at)
      /\ req[t].pc \in CountedSteps =>
            /\ req[t].key \in DOMAIN unswept
            /\ req[t].entry = unswept[req[t].key]
            /\ ~Elapsed(req[t].entry, req[t].at)
  BY <1>o, <1>t DEF SweptIsOver
<1>n. /\ clock \in Nat /\ req[t].at \in Nat /\ req[t].key \in Keys
      /\ \A k \in DOMAIN unswept : unswept[k] \in Entry /\ unswept[k].start \in Nat
      /\ \A u \in Threads : req[u].pc # "idle" => u = t
  BY <1>t, <1>one DEF LimiterTypeOK, Request, Entry, LoadOK
<1>1. ASSUME NEW u \in Threads, NEW k \in Keys, Arrive(u, k) PROVE Goal
  <2>1. u = t
    BY <1>1, <1>one, ArriveIs
  <2>2. \A x \in DOMAIN unswept : Elapsed(unswept[x], req[t].at) => Elapsed(unswept[x], clock)
    BY <1>i, <1>n, RateWindowAssumption DEF Elapsed
  <2>3. \A x \in DOMAIN unswept : unswept[x].start <= clock
    BY <1>i, <1>n
  <2>4. /\ req'[t].pc = "lookup" /\ req'[t].at = clock
        /\ clock' = clock /\ rateCounters' = rateCounters /\ unswept' = unswept
    BY <1>1, <2>1, ArriveIs
  <2> QED
    BY <1>i, <1>n, <2>2, <2>3, <2>4 DEF CountedSteps
<1>2. ASSUME NEW u \in Threads, Lookup(u), ~CountIt(u) PROVE Goal
  <2>1. u = t
    BY <1>2, <1>n, MissIs
  <2>2. /\ req'[t].pc = "insert" /\ req'[t].at = req[t].at
        /\ clock' = clock /\ rateCounters' = rateCounters /\ unswept' = unswept
    BY <1>2, <2>1, MissIs DEF SameRequest
  <2> QED
    BY <1>i, <2>2 DEF CountedSteps
<1>3. ASSUME NEW u \in Threads, Lookup(u) \/ Insert(u), CountIt(u) PROVE Goal
  <2>1. u = t
    BY <1>3, <1>n, CountIs
  <2> DEFINE k == req[t].key
  <2>2. /\ req'[t].pc = "sweep" /\ req'[t].at = req[t].at /\ req'[t].key = k
        /\ req'[t].entry = rateCounters'[k]
        /\ clock' = clock
        /\ rateCounters' = CountRequest(rateCounters, k, req[t].at)
        /\ unswept' = CountRequest(unswept, k, req[t].at)
    BY <1>3, <2>1, CountIs DEF SameRequest
  <2>3. /\ rateCounters'[k] = unswept'[k]
        /\ unswept'[k].start <= req[t].at
        /\ ~Elapsed(unswept'[k], req[t].at)
    BY <1>3, <1>o, <1>t, <2>1, CountedTogether
  <2>4. /\ DOMAIN rateCounters' = DOMAIN rateCounters \cup {k}
        /\ DOMAIN unswept' = DOMAIN unswept \cup {k}
        /\ \A x \in DOMAIN rateCounters : x # k => rateCounters'[x] = rateCounters[x]
        /\ \A x \in DOMAIN unswept : x # k => unswept'[x] = unswept[x]
    BY <2>2 DEF CountRequest
  <2> QED
    BY <1>i, <2>2, <2>3, <2>4
<1>4. ASSUME NEW u \in Threads, Sweep(u) \/ CompareExchange(u) PROVE Goal
  <2>1. u = t
    BY <1>4, <1>n, SweepIs, CompareExchangeIs
  <2>2. /\ req[t].pc \in CountedSteps /\ req'[t].at = req[t].at /\ req'[t].key = req[t].key
        /\ req'[t].entry = req[t].entry
        /\ clock' = clock /\ rateCounters' = rateCounters /\ unswept' = unswept
    BY <1>4, <2>1, SweepIs, CompareExchangeIs DEF SameRequest, SameEntry, CountedSteps
  <2> QED
    BY <1>i, <2>2
<1>5. ASSUME NEW u \in Threads, Retain(u) PROVE Goal
  <2>1. u = t
    BY <1>5, <1>n, RetainIs
  <2>2. PICK k \in req[t].todo :
             /\ req[t].pc \in CountedSteps /\ req'[t].at = req[t].at /\ req'[t].key = req[t].key
             /\ req'[t].entry = req[t].entry
             /\ DOMAIN rateCounters' = {y \in DOMAIN rateCounters :
                                          y = k => Retained(rateCounters[y], req[t].at)}
             /\ \A y \in DOMAIN rateCounters' : rateCounters'[y] = rateCounters[y]
             /\ clock' = clock /\ unswept' = unswept
    BY <1>5, <2>1, RetainIs DEF SameRequest, SameEntry, CountedSteps
  <2>3. ASSUME NEW x \in DOMAIN rateCounters, ~Retained(rateCounters[x], req[t].at)
        PROVE  Elapsed(unswept[x], req[t].at)
    BY <2>3, <1>i, <1>n, RateWindowAssumption DEF Retained, Elapsed
  <2> QED
    BY <1>i, <2>2, <2>3
<1>6. ASSUME NEW u \in Threads, Decide(u) PROVE Goal
  <2>1. u = t
    BY <1>6, <1>n, DecideIs
  <2>2. /\ req'[t].pc = "idle" /\ req'[t].at = req[t].at
        /\ clock' = clock /\ rateCounters' = rateCounters /\ unswept' = unswept
    BY <1>6, <2>1, DecideIs DEF SameRequest
  <2> QED
    BY <1>i, <2>2 DEF CountedSteps
<1>7. CASE LimiterTick
  <2>1. /\ clock' = clock + 1 /\ req' = req /\ rateCounters' = rateCounters /\ unswept' = unswept
    BY <1>7 DEF LimiterTick
  <2> QED
    BY <1>i, <1>n, <2>1
<1>8. CASE UNCHANGED limiterVars
  BY <1>8, <1>i DEF limiterVars
<1> QED
  BY <1>o, <1>1, <1>2, <1>3, <1>4, <1>5, <1>6, <1>7, <1>8, LimiterSteps

\* The requests that pass are a number.
LEMMA PassingType ==
    ASSUME IsFiniteSet(admitted), NEW k, NEW s
    PROVE  /\ IsFiniteSet(Through(k, s)) /\ Cardinality(Through(k, s)) \in Nat
           /\ IsFiniteSet(ToPass(k, s)) /\ Cardinality(ToPass(k, s)) \in Nat
           /\ Passing(k, s) \in Nat
<1>1. Through(k, s) \subseteq admitted /\ ToPass(k, s) \subseteq Threads
  BY DEF Through, ToPass
<1>2. IsFiniteSet(Threads)
  BY RateLimiterAssumption
<1>3. IsFiniteSet(Through(k, s)) /\ IsFiniteSet(ToPass(k, s))
  BY <1>1, <1>2, FS_Subset
<1>4. Cardinality(Through(k, s)) \in Nat /\ Cardinality(ToPass(k, s)) \in Nat
  BY <1>3, FS_CardinalityType
<1> QED
  BY <1>3, <1>4 DEF Passing

LEMMA PassingTypeNext ==
    ASSUME IsFiniteSet(admitted'), NEW k, NEW s
    PROVE  Passing(k, s)' \in Nat
<1>1. Through(k, s)' \subseteq admitted' /\ ToPass(k, s)' \subseteq Threads
  BY DEF Through, ToPass
<1>2. IsFiniteSet(Threads)
  BY RateLimiterAssumption
<1>3. IsFiniteSet(Through(k, s)') /\ IsFiniteSet(ToPass(k, s)')
  BY <1>1, <1>2, FS_Subset
<1>4. Cardinality(Through(k, s)') \in Nat /\ Cardinality(ToPass(k, s)') \in Nat
  BY <1>3, FS_CardinalityType
<1> QED
  BY <1>4 DEF Passing

\* A step that counts and decides nothing changes no request that passes.
LEMMA PassingSame ==
    ASSUME LimiterTypeOK, NEW t \in Threads, Others(t), SameRequest(t), admitted' = admitted,
           \/ req[t].pc \notin CountedSteps /\ req'[t].pc \notin CountedSteps
           \/ req[t].pc \in CountedSteps /\ req'[t].pc \in CountedSteps /\ SameEntry(t),
           NEW k, NEW s
    PROVE  Passing(k, s)' = Passing(k, s)
<1>1. Through(k, s)' = Through(k, s)
  BY DEF Through
<1>2. ToPass(k, s)' = ToPass(k, s)
  BY DEF ToPass, Others, SameRequest, SameEntry
<1> QED
  BY <1>1, <1>2 DEF Passing

\* A request that is counted passes if its count is within the limit.
LEMMA PassingCounted ==
    ASSUME LimiterTypeOK, IsFiniteSet(admitted), NEW t \in Threads,
           Lookup(t) \/ Insert(t), CountIt(t), NEW k, NEW s
    PROVE  LET e == rateCounters'[req[t].key] IN
           Passing(k, s)' = IF k = req[t].key /\ s = e.start /\ Allowed(e.count)
                            THEN Passing(k, s) + 1 ELSE Passing(k, s)
<1> DEFINE e == rateCounters'[req[t].key]
<1>c. /\ Others(t) /\ req'[t].key = req[t].key
      /\ req[t].pc \in {"lookup", "insert"} /\ req'[t].pc = "sweep"
      /\ req'[t].entry = e /\ admitted' = admitted
  BY CountIs DEF SameRequest
<1>1. Through(k, s)' = Through(k, s)
  BY <1>c DEF Through
<1>2. t \notin ToPass(k, s)
  BY <1>c DEF ToPass, CountedSteps
<1>3. CASE k = req[t].key /\ s = e.start /\ Allowed(e.count)
  <2>1. ToPass(k, s)' = ToPass(k, s) \cup {t}
    BY <1>c, <1>3 DEF ToPass, CountedSteps, Others
  <2>2. Cardinality(ToPass(k, s) \cup {t}) = Cardinality(ToPass(k, s)) + 1
    BY <1>2, PassingType, FS_AddElement
  <2>3. Passing(k, s)' = Cardinality(Through(k, s)) + (Cardinality(ToPass(k, s)) + 1)
    BY <1>1, <2>1, <2>2 DEF Passing
  <2>4. Passing(k, s)' = Passing(k, s) + 1
    BY <2>3, PassingType DEF Passing
  <2> QED
    BY <1>3, <2>4
<1>4. CASE ~(k = req[t].key /\ s = e.start /\ Allowed(e.count))
  <2>1. ToPass(k, s)' = ToPass(k, s)
    BY <1>c, <1>2, <1>4 DEF ToPass, CountedSteps, Others
  <2> QED
    BY <1>1, <1>4, <2>1 DEF Passing
<1> QED
  BY <1>3, <1>4

\* One element more.
LEMMA AddAtMostOne ==
    ASSUME NEW S, NEW x, IsFiniteSet(S)
    PROVE  Cardinality(S \cup {x}) \in Nat /\ Cardinality(S \cup {x}) <= Cardinality(S) + 1
<1>1. Cardinality(S) \in Nat
  BY FS_CardinalityType
<1>2. Cardinality(S \cup {x}) = Cardinality(S) \/ Cardinality(S \cup {x}) = Cardinality(S) + 1
  BY FS_AddElement
<1> QED
  BY <1>1, <1>2

\* A request that is decided passes as it did before.
LEMMA PassingDecided ==
    ASSUME LimiterTypeOK, IsFiniteSet(admitted), NEW t \in Threads, Decide(t), NEW k, NEW s
    PROVE  Passing(k, s)' <= Passing(k, s)
<1> DEFINE a == Answer(t)
<1>d. /\ Others(t) /\ req[t].pc = "decide" /\ req'[t].pc = "idle"
      /\ a.key = req[t].key /\ a.start = req[t].entry.start
      /\ admitted' = IF Allowed(req[t].entry.count) THEN admitted \cup {a} ELSE admitted
  BY DecideIs DEF Answer
<1> HIDE DEF a
<1>t. /\ IsFiniteSet(Through(k, s)) /\ Cardinality(Through(k, s)) \in Nat
      /\ IsFiniteSet(ToPass(k, s)) /\ Cardinality(ToPass(k, s)) \in Nat
  BY PassingType
<1>1. ToPass(k, s)' = ToPass(k, s) \ {t}
  BY <1>d DEF ToPass, CountedSteps, Others
<1>2. CASE t \in ToPass(k, s)
  <2>1. Through(k, s)' = Through(k, s) \cup {a}
    BY <1>d, <1>2 DEF Through, ToPass
  <2>2. Cardinality(Through(k, s) \cup {a}) <= Cardinality(Through(k, s)) + 1
    BY <1>t, AddAtMostOne
  <2>3. Cardinality(ToPass(k, s) \ {t}) = Cardinality(ToPass(k, s)) - 1
    BY <1>t, <1>2, FS_RemoveElement
  <2>4. Cardinality(Through(k, s) \cup {a}) \in Nat
    BY <1>t, AddAtMostOne
  <2>5. Cardinality(Through(k, s)') + Cardinality(ToPass(k, s)')
           <= Cardinality(Through(k, s)) + Cardinality(ToPass(k, s))
    BY <1>t, <1>1, <2>1, <2>2, <2>3, <2>4
  <2> QED
    BY <2>5 DEF Passing
<1>3. CASE t \notin ToPass(k, s)
  <2>1. Through(k, s)' = Through(k, s)
    BY <1>d, <1>3 DEF Through, ToPass, CountedSteps
  <2>2. ToPass(k, s)' = ToPass(k, s)
    BY <1>1, <1>3
  <2>3. Cardinality(Through(k, s)') + Cardinality(ToPass(k, s)')
           <= Cardinality(Through(k, s)) + Cardinality(ToPass(k, s))
    BY <1>t, <2>1, <2>2
  <2> QED
    BY <2>3 DEF Passing
<1> QED
  BY <1>2, <1>3

\* The slots of the window of key k that starts at s.
SlotsOf(k, s) ==
    /\ Passing(k, s) <= Limit
    /\ k \in DOMAIN unswept /\ s = unswept[k].start => Passing(k, s) <= unswept[k].count
    /\ (k \in DOMAIN unswept => s > unswept[k].start) => Passing(k, s) = 0

\* No window passes more than its limit.
LEMMA SlotsStep ==
    ASSUME LimiterTypeOK, IsFiniteSet(admitted), LoadOK, NeverSwept, SweptIsOver, SlotsOK,
           [LimiterNext]_limiterVars
    PROVE  SlotsOK'
<1> SUFFICES ASSUME (Unswept \/ InOrder)', NEW k \in Keys, NEW s \in Nat
             PROVE  SlotsOf(k, s)'
  BY DEF SlotsOK, SlotsOf
<1>o. Unswept \/ InOrder
  BY LoadStep, InOrderStep DEF Unswept
<1>i. \A i \in Nat : SlotsOf(k, i)
  BY <1>o DEF SlotsOK, SlotsOf
<1>n. Passing(k, s) \in Nat /\ Passing(k, s)' \in Nat
  BY AdmittedStep, PassingType, PassingTypeNext
<1>l. Limit \in Nat
  BY RateLimiterAssumption
<1>u. k \in DOMAIN unswept => unswept[k] \in Entry /\ unswept[k].start \in Nat
                                                   /\ unswept[k].count \in Nat
  BY DEF LimiterTypeOK, Entry
<1>s. ASSUME Passing(k, s)' <= Passing(k, s), unswept' = unswept PROVE SlotsOf(k, s)'
  BY <1>s, <1>i, <1>n, <1>l, <1>u DEF SlotsOf
<1>1. ASSUME NEW t \in Threads, NEW c \in Keys, Arrive(t, c) PROVE SlotsOf(k, s)'
  <2>1. Through(k, s)' = Through(k, s)
    BY <1>1, ArriveIs DEF Through
  <2>2. ToPass(k, s)' = ToPass(k, s)
    BY <1>1, ArriveIs DEF ToPass, Others, CountedSteps
  <2>3. Passing(k, s)' = Passing(k, s)
    BY <2>1, <2>2 DEF Passing
  <2> QED
    BY <1>1, <1>n, <1>s, <2>3, ArriveIs
<1>2. ASSUME NEW t \in Threads, Lookup(t), ~CountIt(t) PROVE SlotsOf(k, s)'
  <2>1. Passing(k, s)' = Passing(k, s)
    BY <1>2, MissIs, PassingSame DEF CountedSteps
  <2> QED
    BY <1>2, <1>n, <1>s, <2>1, MissIs
<1>3. ASSUME NEW t \in Threads, Lookup(t) \/ Insert(t), CountIt(t) PROVE SlotsOf(k, s)'
  <2> DEFINE c == req[t].key
             at == req[t].at
             e == unswept'[c]
  <2>t. c \in Keys /\ at \in Nat
    BY DEF LimiterTypeOK, Request
  <2>1. /\ rateCounters' = CountRequest(rateCounters, c, at)
        /\ unswept' = CountRequest(unswept, c, at)
        /\ req[t].pc # "idle"
    BY <1>3, CountIs
  <2>2. /\ DOMAIN unswept' = DOMAIN unswept \cup {c}
        /\ \A x \in DOMAIN unswept : x # c => unswept'[x] = unswept[x]
        /\ e = IF c \in DOMAIN unswept THEN Counted(unswept[c], at)
               ELSE [start |-> at, count |-> 1]
    BY <2>1 DEF CountRequest
  <2>3. rateCounters'[c] = e
    BY <1>3, <1>o, CountedAlike
  <2>4. Passing(k, s)' = IF k = c /\ s = e.start /\ Allowed(e.count)
                         THEN Passing(k, s) + 1 ELSE Passing(k, s)
    BY <1>3, <2>3, PassingCounted
  <2>5. CASE k # c
    BY <1>i, <2>2, <2>4, <2>5 DEF SlotsOf
  <2>6. CASE k = c /\ c \in DOMAIN unswept /\ ~Elapsed(unswept[c], at)
    <3>e. unswept[c] \in Entry
      BY <1>u, <2>6
    <3>c. /\ Counted(unswept[c], at).start = unswept[c].start
          /\ Counted(unswept[c], at).count = unswept[c].count + 1
      BY <2>6, <2>t, <3>e, CountedIs
    <3>1. e.start = unswept[c].start /\ e.count = unswept[c].count + 1
      BY <2>2, <2>6, <3>c
    <3> QED
      BY <1>i, <1>n, <1>l, <1>u, <2>2, <2>4, <2>6, <3>1 DEF SlotsOf, Allowed
  <2>7. CASE k = c /\ (c \in DOMAIN unswept => Elapsed(unswept[c], at))
    <3>c. c \in DOMAIN unswept => /\ Counted(unswept[c], at).start = at
                                  /\ Counted(unswept[c], at).count = 1
      <4>1. c \in DOMAIN unswept => unswept[c] \in Entry
        BY <1>u, <2>7
      <4> QED
        BY <2>7, <2>t, <4>1, CountedIs
    <3>1. e.start = at /\ e.count = 1
      BY <2>2, <2>7, <3>c
    <3>2. c \in DOMAIN unswept => at > unswept[c].start
      BY <1>u, <2>7, <2>t, RateWindowAssumption DEF Elapsed
    <3>3. s >= at => Passing(k, s) = 0
      BY <1>i, <1>u, <2>7, <2>t, <3>2 DEF SlotsOf
    <3> QED
      BY <1>i, <1>n, <1>l, <1>u, <2>2, <2>4, <2>7, <2>t, <3>1, <3>3 DEF SlotsOf, Allowed
  <2> QED
    BY <2>5, <2>6, <2>7
<1>4. ASSUME NEW t \in Threads, Sweep(t) PROVE SlotsOf(k, s)'
  <2>1. Passing(k, s)' = Passing(k, s)
    BY <1>4, SweepIs, PassingSame DEF CountedSteps
  <2> QED
    BY <1>4, <1>n, <1>s, <2>1, SweepIs
<1>5. ASSUME NEW t \in Threads, CompareExchange(t) PROVE SlotsOf(k, s)'
  <2>1. Passing(k, s)' = Passing(k, s)
    BY <1>5, CompareExchangeIs, PassingSame DEF CountedSteps
  <2> QED
    BY <1>5, <1>n, <1>s, <2>1, CompareExchangeIs
<1>6. ASSUME NEW t \in Threads, Retain(t) PROVE SlotsOf(k, s)'
  <2>1. /\ Others(t) /\ SameRequest(t) /\ SameEntry(t)
        /\ req[t].pc \in CountedSteps /\ req'[t].pc \in CountedSteps
        /\ admitted' = admitted /\ unswept' = unswept
    BY <1>6, RetainIs DEF CountedSteps
  <2>2. Passing(k, s)' = Passing(k, s)
    BY <2>1, PassingSame
  <2> QED
    BY <1>n, <1>s, <2>1, <2>2
<1>7. ASSUME NEW t \in Threads, Decide(t) PROVE SlotsOf(k, s)'
  BY <1>7, <1>s, PassingDecided, DecideIs
<1>8. CASE LimiterTick \/ SetBack \/ UNCHANGED limiterVars
  <2>1. req' = req /\ admitted' = admitted /\ unswept' = unswept
    BY <1>8 DEF LimiterTick, SetBack, limiterVars
  <2>2. Passing(k, s)' = Passing(k, s)
    BY <2>1 DEF Passing, Through, ToPass
  <2> QED
    BY <1>n, <1>s, <2>1, <2>2
<1> QED
  BY <1>1, <1>2, <1>3, <1>4, <1>5, <1>6, <1>7, <1>8, LimiterSteps

\* One after the other, the windows on which requests were let through lie apart.
LEMMA WindowsStep ==
    ASSUME LimiterTypeOK, LoadOK, SweptIsOver, WindowsApart, [LimiterNext]_limiterVars
    PROVE  WindowsApart'
<1> SUFFICES ASSUME InOrder', NEW a \in admitted'
             PROVE  /\ a.start <= a.at /\ a.at <= a.start + Window
                    /\ a.key \in DOMAIN unswept'
                    /\ a.start = unswept'[a.key].start \/ a.start + Window < unswept'[a.key].start
                    /\ \A b \in admitted' :
                          \/ b.key # a.key
                          \/ b.start = a.start
                          \/ a.start + Window < b.start
                          \/ b.start + Window < a.start
  BY DEF WindowsApart
<1> DEFINE Apart(x, y) == \/ y.key # x.key
                          \/ y.start = x.start
                          \/ x.start + Window < y.start
                          \/ y.start + Window < x.start
           Lies(x, u) == /\ x.start <= x.at /\ x.at <= x.start + Window
                         /\ x.key \in DOMAIN u
                         /\ x.start = u[x.key].start \/ x.start + Window < u[x.key].start
           Goal == Lies(a, unswept') /\ \A b \in admitted' : Apart(a, b)
<1>o. InOrder /\ ~SetBack
  BY InOrderStep
<1>i. \A x \in admitted : Lies(x, unswept) /\ \A y \in admitted : Apart(x, y)
  BY <1>o DEF WindowsApart
<1>w. Window \in Nat
  BY RateWindowAssumption
<1>n. /\ \A x \in admitted : x.start \in Nat /\ x.at \in Nat /\ x.key \in Keys
      /\ \A x \in DOMAIN unswept : unswept[x] \in Entry /\ unswept[x].start \in Nat
  BY DEF LimiterTypeOK, Admission, Entry
<1>1. CASE admitted' = admitted /\ unswept' = unswept
  BY <1>1, <1>i
<1>2. ASSUME NEW t \in Threads, Lookup(t) \/ Insert(t), CountIt(t) PROVE Goal
  <2> DEFINE c == req[t].key
             at == req[t].at
  <2>t. c \in Keys /\ at \in Nat /\ t \in load.threads
    BY <1>2, CountIs DEF LimiterTypeOK, Request, LoadOK
  <2>1. admitted' = admitted /\ unswept' = CountRequest(unswept, c, at)
    BY <1>2, CountIs
  <2>2. /\ DOMAIN unswept' = DOMAIN unswept \cup {c}
        /\ \A x \in DOMAIN unswept : x # c => unswept'[x] = unswept[x]
        /\ c \in DOMAIN unswept => unswept'[c] = Counted(unswept[c], at)
    BY <2>1 DEF CountRequest
  <2>3. a \in admitted /\ Lies(a, unswept) /\ \A b \in admitted : Apart(a, b)
    BY <1>i, <2>1
  <2>4. CASE a.key # c
    BY <2>1, <2>2, <2>3, <2>4
  <2>5. CASE a.key = c
    <3>1. unswept[c] \in Entry /\ unswept[c].start \in Nat
      BY <1>n, <2>3, <2>5
    <3>2. CASE ~Elapsed(unswept[c], at)
      <4>1. unswept'[c].start = unswept[c].start
        BY <2>2, <2>3, <2>5, <2>t, <3>1, <3>2, CountedIs
      <4> QED
        BY <2>1, <2>2, <2>3, <2>5, <4>1
    <3>3. CASE Elapsed(unswept[c], at)
      <4>1. unswept'[c].start = at
        BY <2>2, <2>3, <2>5, <2>t, <3>1, <3>3, CountedIs
      <4>2. unswept[c].start + Window < at
        BY <1>w, <2>t, <3>1, <3>3 DEF Elapsed
      <4>3. a.start + Window < at
        BY <1>n, <1>w, <2>3, <2>5, <2>t, <3>1, <4>2
      <4> QED
        BY <2>1, <2>2, <2>3, <2>5, <4>1, <4>3
    <3> QED
      BY <3>2, <3>3
  <2> QED
    BY <2>4, <2>5
<1>3. ASSUME NEW t \in Threads, Decide(t) PROVE Goal
  <2> DEFINE d == Answer(t)
  <2>t. t \in load.threads /\ req[t].pc \in CountedSteps
    BY <1>3, DecideIs DEF LoadOK, CountedSteps
  <2>1. /\ admitted' = admitted \/ admitted' = admitted \cup {d}
        /\ unswept' = unswept
    BY <1>3, DecideIs
  <2>2. /\ req[t].key \in DOMAIN unswept
        /\ req[t].entry = unswept[req[t].key]
        /\ unswept[req[t].key].start <= req[t].at
        /\ ~Elapsed(unswept[req[t].key], req[t].at)
    BY <1>o, <2>t DEF SweptIsOver
  <2>3. req[t].at \in Nat
    BY DEF LimiterTypeOK, Request
  <2>4. /\ d.key = req[t].key /\ d.at = req[t].at /\ d.start = unswept[d.key].start
        /\ d.start \in Nat /\ d.at \in Nat
        /\ Lies(d, unswept)
    BY <1>n, <1>w, <2>2, <2>3 DEF Elapsed, Answer
  <2>5. \A x \in admitted : Apart(d, x) /\ Apart(x, d)
    BY <1>i, <1>n, <1>w, <2>4
  <2>6. Apart(d, d)
    OBVIOUS
  <2> HIDE DEF d, Apart, Lies
  <2> QED
    BY <1>i, <2>1, <2>4, <2>5, <2>6
<1>4. ASSUME NEW t \in Threads,
             \/ \E k \in Keys : Arrive(t, k)
             \/ Lookup(t) /\ ~CountIt(t)
             \/ Sweep(t) \/ CompareExchange(t) \/ Retain(t)
      PROVE  admitted' = admitted /\ unswept' = unswept
  BY <1>4, ArriveIs, MissIs, SweepIs, CompareExchangeIs, RetainIs
<1>5. CASE LimiterTick \/ UNCHANGED limiterVars
  BY <1>1, <1>5 DEF LimiterTick, limiterVars
<1> QED
  BY <1>o, <1>1, <1>2, <1>3, <1>4, <1>5, LimiterSteps

\* Whole seconds, in ticks.
LEMMA SecondsBound ==
    ASSUME NEW t \in Nat
    PROVE  /\ Seconds(t) \in Nat
           /\ Seconds(t) * TicksPerSecond <= t
           /\ t < (Seconds(t) + 1) * TicksPerSecond
<1>1. TicksPerSecond \in Nat /\ TicksPerSecond > 0
  BY RateWindowAssumption
<1> QED
  BY <1>1 DEF Seconds

\* An instant fewer than w whole seconds after second l.
LEMMA SecondsSince ==
    ASSUME NEW t \in Nat, NEW l \in Nat, NEW w \in Nat, Seconds(t) - l < w
    PROVE  t < l * TicksPerSecond + w * TicksPerSecond
<1>1. TicksPerSecond \in Nat /\ TicksPerSecond > 0
  BY RateWindowAssumption
<1>2. Seconds(t) \in Nat /\ t < (Seconds(t) + 1) * TicksPerSecond
  BY SecondsBound
<1>3. Seconds(t) + 1 <= l + w
  BY <1>2
<1>4. (Seconds(t) + 1) * TicksPerSecond <= (l + w) * TicksPerSecond
  BY <1>1, <1>2, <1>3
<1>5. (l + w) * TicksPerSecond = l * TicksPerSecond + w * TicksPerSecond
  BY <1>1
<1>6. (l + w) * TicksPerSecond \in Nat /\ (Seconds(t) + 1) * TicksPerSecond \in Nat
  BY <1>1, <1>2
<1> QED
  BY <1>2, <1>4, <1>5, <1>6

LEMMA WindowSecondsType ==
    /\ WindowSeconds \in Nat
    /\ WindowSeconds >= 1
    /\ WindowSeconds * TicksPerSecond >= TicksPerSecond
    /\ WindowSeconds * TicksPerSecond \in Nat
<1>1. TicksPerSecond \in Nat /\ TicksPerSecond > 0 /\ Window \in Nat
  BY RateWindowAssumption
<1>2. Seconds(Window) \in Nat
  BY <1>1, SecondsBound
<1>3. WindowSeconds \in Nat /\ WindowSeconds >= 1
  BY <1>2 DEF WindowSeconds
<1>4. WindowSeconds * TicksPerSecond \in Nat /\ WindowSeconds * TicksPerSecond >= 1 * TicksPerSecond
  BY <1>1, <1>3
<1> QED
  BY <1>1, <1>3, <1>4

\* What LateCounters says of the one thread.
LateFor(t) ==
    /\ LastSweep <= req[t].at
    /\ \A k \in DOMAIN rateCounters :
          \/ LastSweep <= rateCounters[k].start + Window
          \/ req[t].pc = "retain" /\ k \in req[t].todo
    /\ req[t].pc = "cas" => req[t].last = lastSweepUnix
    /\ req[t].pc = "retain" => LastSweep + TicksPerSecond > req[t].at
    /\ req[t].pc = "decide" =>
          \/ ~(Cardinality(DOMAIN rateCounters) >= SweepThreshold)
          \/ req[t].at < LastSweep + WindowSeconds * TicksPerSecond

\* One after the other, what a sweep leaves or counts from then on is late.
LEMMA LateStep ==
    ASSUME LimiterTypeOK, LoadOK, SweptIsOver, LateCounters, [LimiterNext]_limiterVars
    PROVE  LateCounters'
<1> SUFFICES ASSUME InOrder', NEW t \in load'.threads PROVE LateFor(t)'
  BY DEF LateCounters, LateFor
<1>o. InOrder /\ ~SetBack
  BY InOrderStep
<1>t. t \in Threads /\ t \in load.threads
  BY LoadStep, LoadIsFinite
<1>one. \A u \in load.threads : u = t
  BY <1>o, <1>t, OneThread
<1>i. LateFor(t)
  BY <1>o, <1>t DEF LateCounters, LateFor
<1>n. /\ clock \in Nat /\ req[t].at \in Nat /\ req[t].key \in Keys /\ req[t].at <= clock
      /\ \A k \in DOMAIN rateCounters : rateCounters[k] \in Entry /\ rateCounters[k].start \in Nat
      /\ DOMAIN rateCounters \subseteq Keys
      /\ \A u \in Threads : req[u].pc # "idle" => u = t
  BY <1>o, <1>t, <1>one DEF LimiterTypeOK, Request, Entry, LoadOK, SweptIsOver
<1>w. Window \in Nat /\ TicksPerSecond \in Nat
  BY RateWindowAssumption
<1>l. /\ lastSweepUnix \in Nat /\ LastSweep \in Nat
      /\ lastSweepUnix' = lastSweepUnix => LastSweep' = LastSweep
  BY <1>w DEF LimiterTypeOK, LastSweep
<1>1. ASSUME NEW u \in Threads, NEW k \in Keys, Arrive(u, k) PROVE LateFor(t)'
  <2>1. u = t
    BY <1>1, <1>one, ArriveIs
  <2>2. /\ req[t].pc = "idle" /\ req'[t].pc = "lookup" /\ req'[t].at = clock
        /\ rateCounters' = rateCounters /\ lastSweepUnix' = lastSweepUnix
    BY <1>1, <2>1, ArriveIs
  <2>3. LastSweep <= clock
    BY <1>i, <1>l, <1>n DEF LateFor
  <2> QED
    BY <1>i, <1>l, <2>2, <2>3 DEF LateFor
<1>2. ASSUME NEW u \in Threads, Lookup(u), ~CountIt(u) PROVE LateFor(t)'
  <2>1. u = t
    BY <1>2, <1>n, MissIs
  <2>2. /\ req[t].pc = "lookup" /\ req'[t].pc = "insert" /\ req'[t].at = req[t].at
        /\ rateCounters' = rateCounters /\ lastSweepUnix' = lastSweepUnix
    BY <1>2, <2>1, MissIs DEF SameRequest
  <2> QED
    BY <1>i, <1>l, <2>2 DEF LateFor
<1>3. ASSUME NEW u \in Threads, Lookup(u) \/ Insert(u), CountIt(u) PROVE LateFor(t)'
  <2>1. u = t
    BY <1>3, <1>n, CountIs
  <2> DEFINE k == req[t].key
             at == req[t].at
  <2>2. /\ req[t].pc \notin {"retain"} /\ req'[t].pc = "sweep" /\ req'[t].at = at
        /\ rateCounters' = CountRequest(rateCounters, k, at)
        /\ lastSweepUnix' = lastSweepUnix
    BY <1>3, <2>1, CountIs DEF SameRequest
  <2>3. /\ DOMAIN rateCounters' = DOMAIN rateCounters \cup {k}
        /\ \A x \in DOMAIN rateCounters : x # k => rateCounters'[x] = rateCounters[x]
        /\ rateCounters'[k] = IF k \in DOMAIN rateCounters THEN Counted(rateCounters[k], at)
                              ELSE [start |-> at, count |-> 1]
    BY <2>2 DEF CountRequest
  <2>4. LastSweep <= at /\ \A x \in DOMAIN rateCounters : LastSweep <= rateCounters[x].start + Window
    BY <1>i, <2>2 DEF LateFor
  <2>5. k \in DOMAIN rateCounters =>
           \/ Counted(rateCounters[k], at).start = at
           \/ Counted(rateCounters[k], at).start = rateCounters[k].start
    BY <1>n, CountedIs
  <2>6. LastSweep <= rateCounters'[k].start + Window
    BY <1>l, <1>n, <1>w, <2>3, <2>4, <2>5
  <2> QED
    BY <1>l, <2>2, <2>3, <2>4, <2>6 DEF LateFor
<1>4. ASSUME NEW u \in Threads, Sweep(u) PROVE LateFor(t)'
  <2>1. u = t
    BY <1>4, <1>n, SweepIs
  <2>2. /\ req[t].pc = "sweep" /\ req'[t].at = req[t].at
        /\ \/ req'[t].pc = "cas" /\ req'[t].last = lastSweepUnix
           \/ ~SweepDue(rateCounters, lastSweepUnix, req[t].at) /\ req'[t].pc = "decide"
        /\ rateCounters' = rateCounters /\ lastSweepUnix' = lastSweepUnix
    BY <1>4, <2>1, SweepIs DEF SameRequest
  <2>3. ~SweepDue(rateCounters, lastSweepUnix, req[t].at) =>
          \/ ~(Cardinality(DOMAIN rateCounters) >= SweepThreshold)
          \/ req[t].at < LastSweep + WindowSeconds * TicksPerSecond
    <3>1. ~(Seconds(req[t].at) - lastSweepUnix >= WindowSeconds) =>
             Seconds(req[t].at) - lastSweepUnix < WindowSeconds
      BY <1>l, <1>n, SecondsBound, WindowSecondsType
    <3>2. Seconds(req[t].at) - lastSweepUnix < WindowSeconds =>
             req[t].at < LastSweep + WindowSeconds * TicksPerSecond
      BY <1>l, <1>n, WindowSecondsType, SecondsSince DEF LastSweep
    <3> QED
      BY <3>1, <3>2 DEF SweepDue
  <2> QED
    BY <1>i, <1>l, <2>2, <2>3 DEF LateFor
<1>5. ASSUME NEW u \in Threads, CompareExchange(u) PROVE LateFor(t)'
  <2>1. u = t
    BY <1>5, <1>n, CompareExchangeIs
  <2>2. /\ req[t].pc = "cas" /\ req'[t].at = req[t].at
        /\ \/ lastSweepUnix' = Seconds(req[t].at) /\ req'[t].pc = "retain" /\ req'[t].todo = Keys
           \/ lastSweepUnix # req[t].last
        /\ rateCounters' = rateCounters
    BY <1>5, <2>1, CompareExchangeIs DEF SameRequest
  <2>3. lastSweepUnix = req[t].last
    BY <1>i, <2>2 DEF LateFor
  <2>4. LastSweep' = Seconds(req[t].at) * TicksPerSecond
    BY <2>2, <2>3 DEF LastSweep
  <2>5. LastSweep' <= req[t].at /\ LastSweep' + TicksPerSecond > req[t].at
    <3>1. Seconds(req[t].at) \in Nat
      BY <1>n, SecondsBound
    <3>2. (Seconds(req[t].at) + 1) * TicksPerSecond
             = Seconds(req[t].at) * TicksPerSecond + TicksPerSecond
      BY <1>w, <3>1
    <3>3. Seconds(req[t].at) * TicksPerSecond \in Nat
      BY <1>w, <3>1
    <3> QED
      BY <1>n, <1>w, <2>4, <3>2, <3>3, SecondsBound
  <2> QED
    BY <1>n, <2>2, <2>3, <2>5 DEF LateFor
<1>6. ASSUME NEW u \in Threads, Retain(u) PROVE LateFor(t)'
  <2>1. u = t
    BY <1>6, <1>n, RetainIs
  <2>2. PICK k \in req[t].todo :
             /\ req[t].pc = "retain" /\ req'[t].at = req[t].at
             /\ req'[t].todo = req[t].todo \ {k}
             /\ req'[t].pc \in {"decide", "retain"}
             /\ req'[t].pc = "decide" => req'[t].todo = {}
             /\ DOMAIN rateCounters' = {y \in DOMAIN rateCounters :
                                          y = k => Retained(rateCounters[y], req[t].at)}
             /\ \A y \in DOMAIN rateCounters' : rateCounters'[y] = rateCounters[y]
             /\ lastSweepUnix' = lastSweepUnix
    BY <1>6, <2>1, RetainIs DEF SameRequest
  <2>3. LastSweep <= req[t].at /\ LastSweep + TicksPerSecond > req[t].at
    BY <1>i, <2>2 DEF LateFor
  <2>4. req[t].at < LastSweep + WindowSeconds * TicksPerSecond
    BY <1>l, <1>n, <1>w, <2>3, WindowSecondsType
  <2>5. ASSUME NEW x \in DOMAIN rateCounters'
        PROVE  LastSweep <= rateCounters'[x].start + Window \/ x \in req'[t].todo
    <3>1. x \in DOMAIN rateCounters /\ rateCounters'[x] = rateCounters[x]
      BY <2>2
    <3>2. CASE x = k
      <4>1. Retained(rateCounters[x], req[t].at)
        BY <2>2, <3>2
      <4> QED
        BY <1>l, <1>n, <1>w, <2>3, <3>1, <4>1 DEF Retained
    <3>3. CASE x # k
      BY <1>i, <2>2, <3>1, <3>3 DEF LateFor
    <3> QED
      BY <3>2, <3>3
  <2> QED
    BY <1>l, <2>2, <2>3, <2>4, <2>5 DEF LateFor
<1>7. ASSUME NEW u \in Threads, Decide(u) PROVE LateFor(t)'
  <2>1. u = t
    BY <1>7, <1>n, DecideIs
  <2>2. /\ req[t].pc = "decide" /\ req'[t].pc = "idle" /\ req'[t].at = req[t].at
        /\ rateCounters' = rateCounters /\ lastSweepUnix' = lastSweepUnix
    BY <1>7, <2>1, DecideIs DEF SameRequest
  <2> QED
    BY <1>i, <1>l, <2>2 DEF LateFor
<1>8. CASE LimiterTick \/ UNCHANGED limiterVars
  <2>1. req' = req /\ rateCounters' = rateCounters /\ lastSweepUnix' = lastSweepUnix
    BY <1>8 DEF LimiterTick, limiterVars
  <2> QED
    BY <1>i, <1>l, <2>1 DEF LateFor
<1> QED
  BY <1>o, <1>1, <1>2, <1>3, <1>4, <1>5, <1>6, <1>7, <1>8, LimiterSteps

LEMMA InitLimiterInv == LimiterInit => LimiterInv
<1> SUFFICES ASSUME LimiterInit PROVE LimiterInv
  OBVIOUS
<1> DEFINE K == CHOOSE k \in Keys : TRUE
<1>1. K \in Keys
  BY RateLimiterAssumption
<1>2. /\ load \in Loads /\ clock = 0 /\ setBack = FALSE /\ lastSweepUnix = 0
      /\ admitted = {} /\ served = 0
      /\ DOMAIN rateCounters = {} /\ DOMAIN unswept = {} /\ rateCounters = unswept
      /\ rateCounters \in [{} -> Entry]
      /\ req = [t \in Threads |-> [pc |-> "idle", id |-> 0, key |-> K, at |-> 0,
                                   entry |-> NoEntry, last |-> 0, todo |-> {}]]
  BY DEF LimiterInit, NoCounters
<1> HIDE DEF K
<1>3. [pc |-> "idle", id |-> 0, key |-> K, at |-> 0, entry |-> NoEntry,
       last |-> 0, todo |-> {}] \in Request
  BY <1>1 DEF Request, RequestSteps, NoEntry, Entry
<1>4. req \in [Threads -> Request]
  BY <1>2, <1>3
<1>5. LimiterTypeOK
  BY <1>2, <1>4 DEF LimiterTypeOK
<1>6. \A t \in Threads : req[t].pc = "idle" /\ req[t].at = 0
  BY <1>2
<1>7. load.threads \subseteq Threads
  BY <1>5, LoadIsFinite
<1>8. IsFiniteSet(admitted) /\ LoadOK /\ IdsOK /\ NeverSwept /\ SweptIsOver /\ WindowsApart
  <2>1. load.until \in Nat /\ MaxRequests \in Nat
    BY <1>2, RateLimiterAssumption
  <2> QED
    BY <1>2, <1>6, <1>7, <2>1, FS_EmptySet
       DEF LoadOK, IdsOK, NeverSwept, SweptIsOver, WindowsApart, CountedSteps
<1>9. SlotsOK
  <2>1. ASSUME NEW k \in Keys, NEW s \in Nat PROVE Passing(k, s) = 0
    <3>1. Through(k, s) = {} /\ ToPass(k, s) = {}
      BY <1>2, <1>6 DEF Through, ToPass, CountedSteps
    <3> QED
      BY <3>1, FS_EmptySet DEF Passing
  <2> QED
    BY <1>2, <2>1, RateLimiterAssumption DEF SlotsOK
<1>10. LateCounters
  <2>1. LastSweep = 0
    BY <1>2, RateWindowAssumption DEF LastSweep
  <2> QED
    BY <1>2, <1>6, <1>7, <2>1 DEF LateCounters
<1> QED
  BY <1>5, <1>8, <1>9, <1>10 DEF LimiterInv

LEMMA NextLimiterInv == LimiterInv /\ [LimiterNext]_limiterVars => LimiterInv'
<1> SUFFICES ASSUME LimiterInv, [LimiterNext]_limiterVars PROVE LimiterInv'
  OBVIOUS
<1>1. /\ LimiterTypeOK /\ IsFiniteSet(admitted) /\ LoadOK /\ IdsOK /\ NeverSwept
      /\ SweptIsOver /\ SlotsOK /\ WindowsApart /\ LateCounters
  BY DEF LimiterInv
<1>2. LimiterTypeOK'
  BY <1>1, LimiterTypes
<1>3. IsFiniteSet(admitted') /\ LoadOK' /\ IdsOK'
  BY <1>1, AdmittedStep, LoadStep, IdsStep
<1>4. NeverSwept' /\ SweptIsOver'
  BY <1>1, NeverSweptStep, SweptIsOverStep
<1>5. SlotsOK' /\ WindowsApart' /\ LateCounters'
  BY <1>1, SlotsStep, WindowsStep, LateStep
<1> QED
  BY <1>2, <1>3, <1>4, <1>5 DEF LimiterInv

LEMMA LimiterInvariant == LimiterSpec => []LimiterInv
BY InitLimiterInv, NextLimiterInv, PTL DEF LimiterSpec

\* No more than the limit were let through on one window.
LEMMA ThroughLimited ==
    ASSUME LimiterInv, Unswept \/ InOrder, NEW k \in Keys, NEW s \in Nat
    PROVE  IsFiniteSet(Through(k, s)) /\ Cardinality(Through(k, s)) <= Limit
<1>1. Passing(k, s) <= Limit
  BY DEF LimiterInv, SlotsOK
<1>2. /\ IsFiniteSet(Through(k, s)) /\ Cardinality(Through(k, s)) \in Nat
      /\ Cardinality(ToPass(k, s)) \in Nat
  BY PassingType DEF LimiterInv
<1> QED
  BY <1>1, <1>2, RateLimiterAssumption DEF Passing

\* What lies within two sets of at most n elements has at most 2 * n.
LEMMA WithinTwo ==
    ASSUME NEW n \in Nat, NEW S, NEW T, NEW A, A \subseteq S \cup T,
           IsFiniteSet(S), IsFiniteSet(T), Cardinality(S) <= n, Cardinality(T) <= n
    PROVE  Cardinality(A) <= 2 * n
<1>1. IsFiniteSet(S \cup T)
      /\ Cardinality(S \cup T) = Cardinality(S) + Cardinality(T) - Cardinality(S \cap T)
  BY FS_Union
<1>2. IsFiniteSet(S \cap T)
  BY FS_Intersection
<1>3. Cardinality(A) <= Cardinality(S \cup T)
  BY <1>1, FS_Subset
<1>4. IsFiniteSet(A)
  BY <1>1, FS_Subset
<1>5. /\ Cardinality(S) \in Nat /\ Cardinality(T) \in Nat
      /\ Cardinality(S \cap T) \in Nat /\ Cardinality(A) \in Nat
  BY <1>2, <1>4, FS_CardinalityType
<1> QED
  BY <1>1, <1>3, <1>5

\* The state of the limiter has the shape the code gives it, whatever the threads
\* interleave: a DateTime and an unsigned count per tracked key, a position in
\* check_rate_limit per thread.
THEOREM LimiterTypeCorrect == LimiterSpec => []LimiterTypeOK
<1>1. LimiterInv => LimiterTypeOK
  BY DEF LimiterInv
<1> QED
  BY <1>1, LimiterInvariant, PTL

\* Whatever the threads interleave, and even when the clock is set back, at most Limit
\* requests are let through on one window of a key that is not swept; one after the
\* other and by a clock that goes on, even on one that is.
THEOREM WindowsAreLimited == LimiterSpec => []AdmittedPerWindow
<1>1. LimiterInv => AdmittedPerWindow
  <2> SUFFICES ASSUME LimiterInv, Unswept \/ InOrder, NEW a \in admitted
               PROVE  Cardinality({b \in admitted : b.key = a.key /\ b.start = a.start}) <= Limit
    BY DEF AdmittedPerWindow
  <2>1. a.key \in Keys /\ a.start \in Nat
    BY DEF LimiterInv, LimiterTypeOK, Admission
  <2>2. Cardinality(Through(a.key, a.start)) <= Limit
    BY <2>1, ThroughLimited
  <2> QED
    BY <2>2 DEF Through
<1> QED
  BY <1>1, LimiterInvariant, PTL

\* One after the other, and by a clock that goes on, at most twice the limit are let
\* through in any stretch as long as a window: it meets at most two windows of the key.
THEOREM StretchesAreLimited == LimiterSpec => []AtMostTwiceTheLimit
<1>1. LimiterInv => AtMostTwiceTheLimit
  <2> SUFFICES ASSUME LimiterInv, InOrder, NEW k \in Keys, NEW lo \in 0 .. clock
               PROVE  AdmittedBetween(k, lo, lo + Window) <= 2 * Limit
    BY DEF AtMostTwiceTheLimit
  <2> DEFINE A == {a \in admitted : a.key = k /\ a.at \in lo .. lo + Window}
  <2>w. Window \in Nat /\ Limit \in Nat
    BY RateWindowAssumption, RateLimiterAssumption
  <2>n. /\ lo \in Nat
        /\ \A a \in A : /\ a \in admitted /\ a.key = k
                        /\ a.at \in Nat /\ a.start \in Nat
                        /\ lo <= a.at /\ a.at <= lo + Window
    BY <2>w DEF LimiterInv, LimiterTypeOK, Admission
  <2>a. \A a \in A : /\ a.start <= a.at /\ a.at <= a.start + Window
                     /\ \A b \in A : \/ b.start = a.start
                                     \/ a.start + Window < b.start
                                     \/ b.start + Window < a.start
    BY <2>n DEF LimiterInv, WindowsApart
  <2> HIDE DEF A
  <2>1. \A a, b, c \in A : a.start < b.start /\ b.start < c.start => FALSE
    BY <2>w, <2>n, <2>a
  <2>2. \E s1, s2 \in Nat : \A a \in A : a.start = s1 \/ a.start = s2
    <3>1. CASE A = {}
      BY <3>1
    <3>2. ASSUME NEW a \in A, \A b \in A : b.start = a.start
          PROVE  \E s1, s2 \in Nat : \A c \in A : c.start = s1 \/ c.start = s2
      BY <2>n, <3>2
    <3>3. ASSUME NEW a \in A, NEW b \in A, b.start # a.start
          PROVE  \E s1, s2 \in Nat : \A c \in A : c.start = s1 \/ c.start = s2
      <4>1. \A c \in A : c.start = a.start \/ c.start = b.start
        BY <2>1, <2>n, <3>3
      <4> QED
        BY <2>n, <4>1
    <3> QED
      BY <3>1, <3>2, <3>3
  <2>3. PICK s1 \in Nat, s2 \in Nat : \A a \in A : a.start = s1 \/ a.start = s2
    BY <2>2
  <2>4. A \subseteq Through(k, s1) \cup Through(k, s2)
    BY <2>n, <2>3 DEF Through
  <2>5. /\ Cardinality(Through(k, s1)) <= Limit /\ Cardinality(Through(k, s2)) <= Limit
        /\ IsFiniteSet(Through(k, s1)) /\ IsFiniteSet(Through(k, s2))
    BY ThroughLimited
  <2>6. Cardinality(A) <= 2 * Limit
    BY <2>w, <2>4, <2>5, WithinTwo
  <2> QED
    BY <2>6 DEF A, AdmittedBetween
<1> QED
  BY <1>1, LimiterInvariant, PTL

\* One after the other, and by a clock that goes on, a map over the threshold holds
\* only counters of the last two windows once a request is through with the sweep.
THEOREM SweepsReclaim == LimiterSpec => []SweepReclaims
<1>1. LimiterInv => SweepReclaims
  <2> SUFFICES ASSUME LimiterInv, InOrder, NEW t \in Threads, req[t].pc = "decide",
                      Cardinality(DOMAIN rateCounters) >= SweepThreshold,
                      NEW k \in DOMAIN rateCounters
               PROVE  req[t].at - rateCounters[k].start < ReclaimHorizon
    BY DEF SweepReclaims
  <2>1. t \in load.threads
    BY DEF LimiterInv, LoadOK
  <2>2. /\ LastSweep <= rateCounters[k].start + Window
        /\ req[t].at < LastSweep + WindowSeconds * TicksPerSecond
    BY <2>1 DEF LimiterInv, LateCounters
  <2>3. /\ req[t].at \in Nat /\ rateCounters[k].start \in Nat
        /\ lastSweepUnix \in Nat /\ Window \in Nat /\ TicksPerSecond \in Nat
    BY RateWindowAssumption DEF LimiterInv, LimiterTypeOK, Request, Entry
  <2>4. LastSweep \in Nat
    BY <2>3 DEF LastSweep
  <2>5. (WindowSeconds + 1) * TicksPerSecond = WindowSeconds * TicksPerSecond + TicksPerSecond
    BY <2>3, WindowSecondsType
  <2>6. TicksPerSecond > 0
    BY RateWindowAssumption
  <2> QED
    BY <2>2, <2>3, <2>4, <2>5, <2>6, WindowSecondsType DEF ReclaimHorizon
<1> QED
  BY <1>1, LimiterInvariant, PTL

\* The answer of each request is settled when it is counted.
LEMMA PassedSame ==
    ASSUME LimiterTypeOK, NEW t \in Threads, Others(t), admitted' = admitted,
           \/ req[t].pc \notin CountedSteps /\ req'[t].pc \notin CountedSteps
           \/ /\ req[t].pc \in CountedSteps /\ req'[t].pc \in CountedSteps
              /\ SameRequest(t) /\ SameEntry(t)
    PROVE  Passed' = Passed
<1> DEFINE Going(u) == req[u].pc \in CountedSteps /\ Allowed(req[u].entry.count)
<1>1. \A u \in Threads : Going(u)' <=> Going(u)
  BY DEF Others, SameEntry
<1>2. \A u \in Threads : Going(u) => Answer(u)' = Answer(u)
  BY DEF Others, SameRequest, SameEntry, Answer
<1> QED
  BY <1>1, <1>2 DEF Passed

LEMMA PassedDecided ==
    ASSUME LimiterTypeOK, NEW t \in Threads, Decide(t)
    PROVE  Passed' = Passed
<1> DEFINE Going(u) == req[u].pc \in CountedSteps /\ Allowed(req[u].entry.count)
<1>d. /\ Others(t) /\ req[t].pc = "decide" /\ req'[t].pc = "idle"
      /\ admitted' = IF Allowed(req[t].entry.count) THEN admitted \cup {Answer(t)} ELSE admitted
  BY DecideIs
<1>1. \A u \in Threads : Going(u)' <=> u # t /\ Going(u)
  BY <1>d DEF Others, CountedSteps
<1>2. \A u \in Threads : u # t => Answer(u)' = Answer(u)
  BY <1>d DEF Others, Answer
<1>3. Going(t) <=> Allowed(req[t].entry.count)
  BY <1>d DEF CountedSteps
<1>4. Passed = admitted \cup {Answer(u) : u \in {x \in Threads : Going(x)}}
  BY DEF Passed
<1>5. Passed' = admitted' \cup {Answer(u) : u \in {x \in Threads : x # t /\ Going(x)}}
  BY <1>1, <1>2 DEF Passed
<1> HIDE DEF Going
<1>6. CASE Allowed(req[t].entry.count)
  BY <1>d, <1>3, <1>4, <1>5, <1>6
<1>7. CASE ~Allowed(req[t].entry.count)
  BY <1>d, <1>3, <1>4, <1>5, <1>7
<1> QED
  BY <1>6, <1>7

LEMMA PassedCounted ==
    ASSUME LimiterTypeOK, NEW t \in Threads, Lookup(t) \/ Insert(t), CountIt(t)
    PROVE  LET e == rateCounters'[req[t].key]
               a == [id |-> req[t].id, key |-> req[t].key, at |-> req[t].at, start |-> e.start]
           IN  Passed' = IF Allowed(e.count) THEN Passed \cup {a} ELSE Passed
<1> DEFINE Going(u) == req[u].pc \in CountedSteps /\ Allowed(req[u].entry.count)
           e == rateCounters'[req[t].key]
           a == [id |-> req[t].id, key |-> req[t].key, at |-> req[t].at, start |-> e.start]
<1>c. /\ Others(t) /\ SameRequest(t)
      /\ req[t].pc \in {"lookup", "insert"} /\ req'[t].pc = "sweep"
      /\ req'[t].entry = e /\ admitted' = admitted
  BY CountIs
<1>1. \A u \in Threads : Going(u)' <=> (u = t /\ Allowed(e.count)) \/ Going(u)
  BY <1>c DEF Others, CountedSteps
<1>2. \A u \in Threads : u # t => Answer(u)' = Answer(u)
  BY <1>c DEF Others, Answer
<1>3. ~Going(t)
  BY <1>c DEF CountedSteps
<1>4. Answer(t)' = a
  BY <1>c DEF Answer, SameRequest
<1>5. Passed = admitted \cup {Answer(u) : u \in {x \in Threads : Going(x)}}
  BY DEF Passed
<1>6. Passed' = admitted \cup {Answer(u)' : u \in {x \in Threads : Going(x)'}}
  BY <1>c DEF Passed
<1>7. \A u \in {x \in Threads : Going(x)'} : u = t \/ (Going(u) /\ Answer(u)' = Answer(u))
  BY <1>1, <1>2
<1>8. \A u \in {x \in Threads : Going(x)} : Going(u)' /\ Answer(u)' = Answer(u)
  BY <1>1, <1>2, <1>3
<1>9. Passed' = IF Allowed(e.count) THEN Passed \cup {a} ELSE Passed
  <2>1. Going(t)' <=> Allowed(e.count)
    BY <1>1, <1>3
  <2> HIDE DEF Going, e, a
  <2>2. CASE Allowed(e.count)
    <3>1. Passed' \subseteq Passed \cup {a}
      BY <1>4, <1>5, <1>6, <1>7
    <3>2. Passed \cup {a} \subseteq Passed'
      BY <1>4, <1>5, <1>6, <1>8, <2>1, <2>2
    <3> QED
      BY <2>2, <3>1, <3>2
  <2>3. CASE ~Allowed(e.count)
    <3>1. Passed' \subseteq Passed
      BY <1>5, <1>6, <1>7, <2>1, <2>3
    <3>2. Passed \subseteq Passed'
      BY <1>5, <1>6, <1>8
    <3> QED
      BY <2>3, <3>1, <3>2
  <2> QED
    BY <2>2, <2>3
<1> QED
  BY <1>9

LEMMA InitAtomic == LimiterInit => Atomic!Init
<1> SUFFICES ASSUME LimiterInit PROVE Atomic!Init
  OBVIOUS
<1>1. unswept = Atomic!NoCounters
  BY DEF LimiterInit, NoCounters, Atomic!NoCounters
<1>2. admitted = {} /\ \A t \in Threads : req[t].pc = "idle"
  BY DEF LimiterInit
<1>3. Passed = {}
  BY <1>2 DEF Passed, CountedSteps
<1> QED
  BY <1>1, <1>3 DEF Atomic!Init

\* What the abstract limiter counts is what RateWindow counts.
LEMMA AtomicCounts ==
    ASSUME NEW m, NEW k, NEW t
    PROVE  Atomic!CountRequest(m, k, t) = CountRequest(m, k, t)
BY DEF Atomic!CountRequest, CountRequest, Atomic!Counted, Counted, Atomic!Elapsed, Elapsed

\* A request is made within the bounds, by an id nobody has.
LEMMA FreshRequest ==
    ASSUME LimiterInv, NEW t \in Threads, req[t].pc \in {"lookup", "insert"}
    PROVE  /\ req[t].key \in Keys /\ req[t].id \in Ids /\ req[t].at \in Ticks
           /\ \A p \in Passed : p.id # req[t].id
<1>1. /\ LimiterTypeOK /\ IdsOK /\ load \in Loads
      /\ req[t].key \in Keys /\ req[t].id \in Nat /\ req[t].at \in Nat /\ served \in Nat
  BY DEF LimiterInv, LimiterTypeOK, Request
<1>2. /\ req[t].id < served /\ served <= MaxRequests /\ req[t].at <= load.until
      /\ \A u \in Threads : u # t /\ req[u].pc # "idle" => req[u].id # req[t].id
      /\ \A a \in admitted : a.id # req[t].id
  BY <1>1 DEF IdsOK
<1>3. load.until \in Nat /\ MaxRequests \in Nat
  BY <1>1, RateLimiterAssumption
<1>4. req[t].id \in Ids
  BY <1>1, <1>2, <1>3 DEF Ids
<1>5. req[t].at \in Ticks
  <2>1. req[t].at \in 0 .. load.until
    BY <1>1, <1>2, <1>3
  <2> QED
    BY <1>1, <2>1 DEF Ticks
<1>6. ASSUME NEW u \in Threads, req[u].pc \in CountedSteps
      PROVE  Answer(u).id # req[t].id
  BY <1>2, <1>6 DEF Answer, CountedSteps
<1> QED
  BY <1>1, <1>2, <1>4, <1>5, <1>6 DEF Passed

\* Counting a request is its step in the abstract limiter; no other step is one.
LEMMA NextAtomic ==
    ASSUME LimiterInv, [LimiterNext]_limiterVars, Unswept \/ InOrder'
    PROVE  Atomic!Next \/ (unswept' = unswept /\ Passed' = Passed)
<1>i. /\ LimiterTypeOK /\ LoadOK /\ NeverSwept /\ SweptIsOver
      /\ Unswept \/ InOrder
  BY InOrderStep DEF LimiterInv
<1>1. ASSUME NEW t \in Threads, Lookup(t) \/ Insert(t), CountIt(t) PROVE Atomic!Next
  <2> DEFINE k == req[t].key
             at == req[t].at
             e == rateCounters'[k]
             a == [id |-> req[t].id, key |-> k, at |-> at, start |-> e.start]
  <2>1. /\ k \in Keys /\ req[t].id \in Ids /\ at \in Ticks
        /\ \A p \in Passed : p.id # req[t].id
    BY <1>i, <1>1, CountIs, FreshRequest
  <2>2. unswept' = Atomic!CountRequest(unswept, k, at) /\ e = unswept'[k]
    BY <1>i, <1>1, CountIs, CountedAlike, AtomicCounts
  <2>3. Passed' = IF Allowed(e.count) THEN Passed \cup {a} ELSE Passed
    BY <1>i, <1>1, PassedCounted
  <2>4. e.count \in Nat /\ Limit \in Nat
    BY <1>i, <1>1, CountItTypes, RateLimiterAssumption DEF Entry
  <2>5. CASE Allowed(e.count)
    <3>1. unswept'[k].count <= Limit
      BY <2>2, <2>5 DEF Allowed
    <3>2. Passed' = Passed \cup {[id |-> req[t].id, key |-> k, at |-> at,
                                  start |-> unswept'[k].start]}
      BY <2>2, <2>3, <2>5
    <3>3. Atomic!Serve(k, at)
      BY <2>1, <2>2, <3>1, <3>2 DEF Atomic!Serve
    <3> QED
      BY <2>1, <3>3 DEF Atomic!Next
  <2>6. CASE ~Allowed(e.count)
    <3>1. unswept'[k].count > Limit
      BY <2>2, <2>4, <2>6 DEF Allowed
    <3>2. Atomic!Serve(k, at)
      BY <2>2, <2>3, <2>6, <3>1 DEF Atomic!Serve
    <3> QED
      BY <2>1, <3>2 DEF Atomic!Next
  <2> QED
    BY <2>5, <2>6
<1>2. ASSUME NEW t \in Threads, NEW k \in Keys, Arrive(t, k)
      PROVE  unswept' = unswept /\ Passed' = Passed
  BY <1>i, <1>2, ArriveIs, PassedSame DEF CountedSteps
<1>3. ASSUME NEW t \in Threads, Lookup(t), ~CountIt(t)
      PROVE  unswept' = unswept /\ Passed' = Passed
  BY <1>i, <1>3, MissIs, PassedSame DEF CountedSteps
<1>4. ASSUME NEW t \in Threads, Sweep(t) \/ CompareExchange(t) \/ Retain(t)
      PROVE  unswept' = unswept /\ Passed' = Passed
  <2>1. /\ Others(t) /\ SameRequest(t) /\ SameEntry(t)
        /\ req[t].pc \in CountedSteps /\ req'[t].pc \in CountedSteps
        /\ admitted' = admitted /\ unswept' = unswept
    BY <1>i, <1>4, SweepIs, CompareExchangeIs, RetainIs DEF CountedSteps
  <2> QED
    BY <1>i, <2>1, PassedSame
<1>5. ASSUME NEW t \in Threads, Decide(t) PROVE unswept' = unswept /\ Passed' = Passed
  BY <1>i, <1>5, DecideIs, PassedDecided
<1>6. CASE LimiterTick \/ SetBack \/ UNCHANGED limiterVars
  <2>1. req' = req /\ admitted' = admitted /\ unswept' = unswept
    BY <1>6 DEF LimiterTick, SetBack, limiterVars
  <2> QED
    BY <2>1 DEF Passed, Answer
<1> QED
  BY <1>1, <1>2, <1>3, <1>4, <1>5, <1>6, LimiterSteps

\* However the accesses of the threads interleave, each request is answered as if it
\* were counted at one instant in a map that is never swept; with sweeps, if there is
\* one thread and the clock goes on.
THEOREM LimiterIsAtomic == LimiterSpec => ImplementsAtomicLimiter
<1>1. LimiterInv /\ [LimiterNext]_limiterVars =>
         [Unswept \/ InOrder' => Atomic!Next]_<<unswept, Passed>>
  BY NextAtomic
<1> QED
  BY <1>1, InitAtomic, LimiterInvariant, PTL
     DEF LimiterSpec, ImplementsAtomicLimiter, Atomic!atomicVars

\* For loads of fewer keys than the threshold the limiter implements the abstract one.
THEOREM UnsweptLimiterIsAtomic ==
    ASSUME \A l \in Loads : Cardinality(l.keys) < SweepThreshold
    PROVE  LimiterSpec => Atomic!Spec
<1>1. LimiterInv => Unswept
  BY DEF LimiterInv, LimiterTypeOK, Unswept
<1>2. LimiterInv /\ [LimiterNext]_limiterVars => [Atomic!Next]_<<unswept, Passed>>
  BY <1>1, NextAtomic
<1> QED
  BY <1>2, InitAtomic, LimiterInvariant, PTL DEF LimiterSpec, Atomic!Spec, Atomic!atomicVars

\* The comment on sweep_expired_windows, where it is right: a counter that was evicted
\* at one instant is counted at a later one as if it had not been.
THEOREM EvictionChangesNoCount ==
    ASSUME NEW m, m \in [DOMAIN m -> Entry], NEW k,
           NEW t \in Nat, NEW later \in Nat, t <= later
    PROVE  CountRequest(Swept(m, t), k, later)[k] = CountRequest(m, k, later)[k]
<1>1. CASE k \notin DOMAIN m
  BY <1>1 DEF CountRequest, Swept
<1>2. CASE k \in DOMAIN m /\ Retained(m[k], t)
  BY <1>2 DEF CountRequest, Swept
<1>3. CASE k \in DOMAIN m /\ ~Retained(m[k], t)
  <2>1. m[k] \in Entry /\ m[k].start \in Nat
    BY <1>3 DEF Entry
  <2>2. Elapsed(m[k], later)
    BY <1>3, <2>1, RateWindowAssumption DEF Retained, Elapsed
  <2>3. CountRequest(m, k, later)[k] = [start |-> later, count |-> 1]
    BY <1>3, <2>2 DEF CountRequest, Counted
  <2>4. k \notin DOMAIN Swept(m, t)
    BY <1>3 DEF Swept
  <2>5. CountRequest(Swept(m, t), k, later)[k] = [start |-> later, count |-> 1]
    BY <2>4 DEF CountRequest
  <2> QED
    BY <2>3, <2>5
<1> QED
  BY <1>1, <1>2, <1>3
=============================================================================
