-------------------------- MODULE MagicLink_proofs --------------------------
(***************************************************************************)
(* Proofs about MagicLink, for every number of tokens and callers: types,  *)
(* and that redemption implements OneTime.                                 *)
(***************************************************************************)
EXTENDS MagicLink, TLAPS

\* Where a call stands determines what it holds: only a fresh token is being
\* saved, by one call, and only mailed tokens are claimed.
CallsOK ==
    \A c \in Calls :
        /\ call[c].pc = "save" =>
              /\ call[c].token \in Tokens \ delivered
              /\ expires[call[c].token] # None
              /\ \A d \in Calls : call[d].pc = "save" /\ call[d].token = call[c].token => d = c
        /\ call[c].pc = "claim" => call[c].token \in delivered \cup {None}
        /\ call[c].pc \in {"consume", "persist"} => call[c].token \in delivered
        /\ call[c].pc = "persist" => call[c].record = "used" /\ keeper = "caller"

TypeInv ==
    /\ TypeOK
    /\ CallsOK
    /\ \A t \in delivered : expires[t] # None

\* What a call may become.
LEMMA CallStates ==
    /\ Idle \in CallState
    /\ \A t \in Tokens : [pc |-> "save", token |-> t, record |-> "unused"] \in CallState
    /\ \A t \in Tokens \cup {None} :
          [pc |-> "claim", token |-> t, record |-> "absent"] \in CallState
    /\ \A t \in Tokens, s \in Records :
          [pc |-> "consume", token |-> t, record |-> s] \in CallState
    /\ \A t \in Tokens : [pc |-> "persist", token |-> t, record |-> "used"] \in CallState
BY DEF CallState, Idle, Steps, Records

\* Every step keeps the types and the calls well formed.
LEMMA NextTypeInv == TypeInv /\ [Next]_vars => TypeInv'
<1> SUFFICES ASSUME TypeInv, [Next]_vars PROVE TypeInv'
  OBVIOUS
<1> USE MagicLinkAssumption DEF TypeInv, TypeOK, CallsOK
<1>0. Idle.pc = "idle"
  BY DEF Idle
<1>1. ASSUME NEW c \in Calls, Generate(c) PROVE TypeInv'
  <2>1. PICK t \in Tokens :
          /\ expires[t] = None
          /\ expires' = [expires EXCEPT ![t] = Expiry]
          /\ call' = [call EXCEPT ![c] = [pc |-> "save", token |-> t, record |-> "unused"]]
    BY <1>1 DEF Generate
  <2>2. t \notin delivered /\ Expiry \in Nat
    BY <2>1 DEF Expiry
  <2>3. call' \in [Calls -> CallState] /\ expires' \in [Tokens -> Nat \cup {None}]
    BY <2>1, <2>2, CallStates
  <2>4. CallsOK'
    BY <1>1, <2>1, <2>2 DEF Generate
  <2> QED
    BY <1>1, <2>1, <2>2, <2>3, <2>4 DEF Generate
<1>2. ASSUME NEW c \in Calls, Save(c) PROVE TypeInv'
  <2>1. call'[c] = Idle \/ call' = call
    BY <1>2 DEF Save
  <2>2. \A d \in Calls \ {c} : call'[d] = call[d]
    BY <1>2 DEF Save
  <2>3. call' \in [Calls -> CallState]
    BY <1>2, CallStates DEF Save
  <2>4. records' \in [Tokens -> Records] /\ delivered' \subseteq Tokens
    BY <1>2 DEF Save, Insert, Records
  <2>5. CallsOK'
    BY <1>0, <1>2, <2>1, <2>2 DEF Save
  <2> QED
    BY <1>2, <2>3, <2>4, <2>5 DEF Save
<1>3. ASSUME NEW c \in Calls, BeginRedeem(c) PROVE TypeInv'
  <2>1. PICK t \in delivered \cup {None} :
          call' = [call EXCEPT ![c] = [pc |-> "claim", token |-> t, record |-> "absent"]]
    BY <1>3 DEF BeginRedeem
  <2>2. call' \in [Calls -> CallState]
    BY <2>1, CallStates
  <2>3. CallsOK'
    BY <1>3, <2>1 DEF BeginRedeem
  <2> QED
    BY <1>3, <2>2, <2>3 DEF BeginRedeem
<1>4. ASSUME NEW c \in Calls, Claim(c) PROVE TypeInv'
  <2> DEFINE t == call[c].token
  <2>1. \/ call' = [call EXCEPT ![c] = Idle]
        \/ /\ Present(t)
           /\ call' = [call EXCEPT ![c] =
                              [pc |-> "consume", token |-> t, record |-> records[t]]]
    BY <1>4 DEF Claim
  <2>2. Present(t) => t \in delivered /\ records[t] \in Records
    BY <1>4 DEF Claim, Present
  <2>3. PICK r \in CallState :
          /\ call' = [call EXCEPT ![c] = r]
          /\ r = Idle \/ (r.pc = "consume" /\ r.token \in delivered)
    <3>1. CASE call' = [call EXCEPT ![c] = Idle]
      BY <3>1, CallStates
    <3>2. CASE /\ Present(t)
               /\ call' = [call EXCEPT ![c] =
                              [pc |-> "consume", token |-> t, record |-> records[t]]]
      <4> DEFINE r == [pc |-> "consume", token |-> t, record |-> records[t]]
      <4>1. t \in delivered /\ t \in Tokens /\ records[t] \in Records
        BY <2>2, <3>2
      <4>2. r \in CallState
        BY <4>1, CallStates
      <4>3. r.pc = "consume" /\ r.token = t /\ call' = [call EXCEPT ![c] = r]
        BY <3>2
      <4> HIDE DEF r
      <4> QED
        BY <4>1, <4>2, <4>3
    <3> QED
      BY <2>1, <3>1, <3>2
  <2>4. records' \in [Tokens -> Records] /\ dropped' \subseteq Tokens
    BY <1>4, <2>2 DEF Claim, Claimed, Records
  <2>5. /\ call' \in [Calls -> CallState]
        /\ \A d \in Calls :
             \/ call'[d] = call[d]
             \/ call'[d] = Idle
             \/ call'[d].pc = "consume" /\ call'[d].token \in delivered
    BY <2>3
  <2>6. CallsOK'
    BY <1>0, <1>4, <2>5 DEF Claim
  <2> QED
    BY <1>4, <2>4, <2>5, <2>6 DEF Claim
<1>5. ASSUME NEW c \in Calls, Consume(c) PROVE TypeInv'
  <2> DEFINE t == call[c].token
             r == [pc |-> "persist", token |-> t, record |-> "used"]
  <2>1. t \in Tokens /\ t \in delivered
    BY <1>5 DEF Consume
  <2>2. uses' = uses \/ uses' = [uses EXCEPT ![t] = uses[t] + 1]
    BY <1>5 DEF Consume
  <2>3. uses' \in [Tokens -> Nat]
    BY <2>1, <2>2
  <2>4. r \in CallState /\ r.pc = "persist" /\ r.token = t /\ r.record = "used"
    BY <2>1, CallStates
  <2>5. \/ call' = [call EXCEPT ![c] = Idle]
        \/ keeper = "caller" /\ call' = [call EXCEPT ![c] = r]
    BY <1>5 DEF Consume
  <2> HIDE DEF r
  <2>6. call' \in [Calls -> CallState]
    BY <2>4, <2>5, CallStates
  <2>7. \A d \in Calls :
          call'[d] = call[d] \/ call'[d] = Idle \/ (call'[d] = r /\ keeper = "caller")
    BY <2>5
  <2>8. CallsOK'
    BY <1>0, <1>5, <2>1, <2>4, <2>7 DEF Consume
  <2> QED
    BY <1>5, <2>3, <2>6, <2>8 DEF Consume
<1>9. ASSUME NEW c \in Calls, Load(c) PROVE TypeInv'
  <2> DEFINE t == call[c].token
             r == [pc |-> "consume", token |-> t, record |-> records[t]]
  <2>1. call' = [call EXCEPT ![c] = Idle] \/ (Present(t) /\ call' = [call EXCEPT ![c] = r])
    BY <1>9 DEF Load
  <2>2. Present(t) => t \in delivered /\ records[t] \in Records
    BY <1>9 DEF Load, Present
  <2>3. Present(t) => r \in CallState /\ r.pc = "consume" /\ r.token \in delivered
    BY <2>2, CallStates
  <2> HIDE DEF r
  <2>4. call' \in [Calls -> CallState]
    BY <2>1, <2>3, CallStates
  <2>5. \A d \in Calls :
          \/ call'[d] = call[d]
          \/ call'[d] = Idle
          \/ call'[d].pc = "consume" /\ call'[d].token \in delivered
    BY <2>1, <2>3
  <2>6. CallsOK'
    BY <1>0, <1>9, <2>5 DEF Load
  <2> QED
    BY <1>9, <2>4, <2>6 DEF Load
<1>10. ASSUME NEW c \in Calls, Persist(c) PROVE TypeInv'
  <2> DEFINE t == call[c].token
  <2>1. t \in Tokens /\ t \in delivered /\ call[c].record = "used"
    BY <1>10 DEF Persist
  <2>2. uses' = uses \/ uses' = [uses EXCEPT ![t] = uses[t] + 1]
    BY <1>10 DEF Persist
  <2>3. uses' \in [Tokens -> Nat]
    BY <2>1, <2>2
  <2>4. records' = records \/ records' = [records EXCEPT ![t] = "used"]
    BY <1>10, <2>1 DEF Persist, Insert
  <2>5. records' \in [Tokens -> Records] /\ dropped' \subseteq Tokens
    BY <1>10, <2>1, <2>4 DEF Persist, Records
  <2>6. call' = [call EXCEPT ![c] = Idle]
    BY <1>10 DEF Persist
  <2>7. call' \in [Calls -> CallState]
    BY <2>6, CallStates
  <2>8. \A d \in Calls : call'[d] = call[d] \/ call'[d] = Idle
    BY <2>6
  <2>9. CallsOK'
    BY <1>0, <1>10, <2>8 DEF Persist
  <2> QED
    BY <1>10, <2>3, <2>5, <2>7, <2>9 DEF Persist
<1>6. CASE PruneExpired
  BY <1>6 DEF PruneExpired, Records
<1>7. CASE Tick
  BY <1>7 DEF Tick
<1>8. CASE UNCHANGED vars
  BY <1>8 DEF vars
<1> QED
  BY <1>1, <1>2, <1>3, <1>4, <1>5, <1>6, <1>7, <1>8, <1>9, <1>10 DEF Next

\* Initially no call runs.
LEMMA InitTypeInv == Init => TypeInv
BY MagicLinkAssumption DEF Init, TypeInv, TypeOK, CallsOK, Idle, CallState, Steps, Records

\* The variables always have their types.
THEOREM TypeCorrect == Spec => []TypeOK
<1>1. TypeInv => TypeOK
  BY DEF TypeInv
<1> QED
  BY <1>1, InitTypeInv, NextTypeInv, PTL DEF Spec

-----------------------------------------------------------------------------
\* Who may still redeem a link: at most one call holds its record unused, and
\* while the store or a call has it unused, it was never redeemed.  A store has
\* parted with the record that is held; the application has it until it persists.
OneHolder ==
    /\ \A t \in Tokens : uses[t] \in {0, 1}
    /\ \A t \in Tokens \ delivered : uses[t] = 0
    /\ \A t \in Tokens : records[t] = "unused" => uses[t] = 0
    /\ \A c \in Calls, t \in Tokens :
          Holds(c, t) =>
             /\ (records[t] = "unused") = (keeper = "caller")
             /\ uses[t] = 0
             /\ \A d \in Calls : Holds(d, t) => d = c

RedeemInv == TypeInv /\ OneHolder /\ ValidLinksSurvive

LEMMA InitRedeemInv == Init => RedeemInv
BY InitTypeInv DEF Init, RedeemInv, OneHolder, ValidLinksSurvive, Holds, Decides, Decided, Idle

\* What one step may do to the holders of a link: a call begins to hold it only
\* by taking the unused record out of the store, or by loading it for itself, and
\* stops only by deciding or by persisting what it decided.
LEMMA HolderStep ==
    ASSUME TypeInv, [Next]_vars, NEW d \in Calls, NEW t \in Tokens
    PROVE  /\ Holds(d, t)' /\ ~Holds(d, t) =>
                 /\ call[d].token = t
                 /\ records[t] = "unused"
                 /\ uses' = uses
                 /\ (records'[t] = "unused") = (keeper = "caller")
                 /\ keeper = "caller" => \A e \in Calls : ~Holds(e, t)
                 /\ \A e \in Calls \ {d} : call'[e] = call[e]
           /\ Holds(d, t) /\ ~Holds(d, t)' => Consume(d) \/ Persist(d)
<1> USE DEF TypeInv, TypeOK, CallsOK, Holds, Decides, Decided
<1>0. Idle.pc = "idle"
  BY DEF Idle
<1>1. ASSUME NEW c \in Calls, Generate(c) PROVE Holds(d, t)' <=> Holds(d, t)
  BY <1>0, <1>1 DEF Generate
<1>2. ASSUME NEW c \in Calls, Save(c) PROVE Holds(d, t)' <=> Holds(d, t)
  BY <1>0, <1>2 DEF Save
<1>3. ASSUME NEW c \in Calls, BeginRedeem(c) PROVE Holds(d, t)' <=> Holds(d, t)
  BY <1>0, <1>3 DEF BeginRedeem
<1>4. ASSUME NEW c \in Calls, Claim(c)
      PROVE  /\ keeper # "caller" /\ uses' = uses
             /\ Holds(d, t) => Holds(d, t)'
             /\ Holds(d, t)' /\ ~Holds(d, t) =>
                  d = c /\ call[d].token = t /\ records[t] = "unused" /\ records'[t] # "unused"
             /\ \A e \in Calls \ {c} : call'[e] = call[e]
  <2>0. keeper # "caller" /\ uses' = uses /\ \A e \in Calls \ {c} : call'[e] = call[e]
    BY <1>4 DEF Claim
  <2>1. Holds(d, t) => d # c /\ call'[d] = call[d]
    BY <1>4 DEF Claim
  <2>2. Holds(d, t)' /\ ~Holds(d, t) => d = c
    BY <1>4 DEF Claim
  <2>3. ASSUME d = c, Holds(d, t)'
        PROVE call[d].token = t /\ records[t] = "unused" /\ records'[t] # "unused"
    <3>1. /\ Present(call[c].token)
          /\ Claimed(call[c].token)
          /\ call' = [call EXCEPT ![c] = [pc |-> "consume", token |-> call[c].token,
                                         record |-> records[call[c].token]]]
      BY <1>0, <1>4, <2>3 DEF Claim
    <3>2. call[c].token = t /\ records[t] = "unused"
      BY <2>3, <3>1
    <3> QED
      BY <2>3, <3>1, <3>2 DEF Claimed
  <2> QED
    BY <2>0, <2>1, <2>2, <2>3
<1>9. ASSUME NEW c \in Calls, Load(c)
      PROVE  /\ keeper = "caller" /\ uses' = uses /\ records' = records
             /\ Holds(d, t) => Holds(d, t)'
             /\ Holds(d, t)' /\ ~Holds(d, t) =>
                  d = c /\ call[d].token = t /\ records[t] = "unused" /\ Free(t)
             /\ \A e \in Calls \ {c} : call'[e] = call[e]
  <2>0. /\ keeper = "caller" /\ uses' = uses /\ records' = records
        /\ \A e \in Calls \ {c} : call'[e] = call[e]
    BY <1>9 DEF Load
  <2>1. Holds(d, t) => d # c /\ call'[d] = call[d]
    BY <1>9 DEF Load
  <2>2. Holds(d, t)' /\ ~Holds(d, t) => d = c
    BY <1>9 DEF Load
  <2>3. ASSUME d = c, Holds(d, t)'
        PROVE call[d].token = t /\ records[t] = "unused" /\ Free(t)
    <3>1. /\ Free(call[c].token)
          /\ call' = [call EXCEPT ![c] = [pc |-> "consume", token |-> call[c].token,
                                         record |-> records[call[c].token]]]
      BY <1>0, <1>9, <2>3 DEF Load
    <3> QED
      BY <2>3, <3>1
  <2> QED
    BY <2>0, <2>1, <2>2, <2>3
<1>5. ASSUME NEW c \in Calls, Consume(c)
      PROVE  (Holds(d, t)' => Holds(d, t)) /\ (Holds(d, t) /\ ~Holds(d, t)' => d = c)
  BY <1>0, <1>5 DEF Consume, IsUsable
<1>10. ASSUME NEW c \in Calls, Persist(c)
       PROVE  (Holds(d, t)' => Holds(d, t)) /\ (Holds(d, t) /\ ~Holds(d, t)' => d = c)
  BY <1>0, <1>10 DEF Persist
<1>6. CASE PruneExpired
  BY <1>6 DEF PruneExpired
<1>7. CASE Tick
  BY <1>7 DEF Tick
<1>8. CASE UNCHANGED vars
  BY <1>8 DEF vars
<1>11. Free(t) => \A e \in Calls : ~Holds(e, t)
  BY DEF Free
<1> QED
  BY <1>1, <1>2, <1>3, <1>4, <1>5, <1>6, <1>7, <1>8, <1>9, <1>10, <1>11 DEF Next

\* A step that counts a use, or writes a used record, is that of a call that
\* holds the link: it decides in a store's place, or persists what was decided.
LEMMA UseStep ==
    ASSUME TypeInv, [Next]_vars
    PROVE  \/ /\ uses' = uses
              /\ \A t \in Tokens : records'[t] = "unused" /\ records[t] # "unused" =>
                    t \notin delivered /\ \E c \in Calls : Save(c)
           \/ \E c \in Calls, t \in delivered :
                 /\ Holds(c, t)
                 /\ call' = [call EXCEPT ![c] = Idle]
                 /\ uses' = [uses EXCEPT ![t] = uses[t] + 1]
                 /\ \/ Consume(c) /\ IsUsable(c) /\ keeper # "caller" /\ records' = records
                    \/ Persist(c) /\ Decided(c, t) /\ records' = [records EXCEPT ![t] = "used"]
<1> USE DEF TypeInv, TypeOK, CallsOK, Holds, Decides, Decided
<1>1. ASSUME NEW c \in Calls, Consume(c), uses' # uses
      PROVE  \E t \in delivered :
                 /\ Holds(c, t)
                 /\ call' = [call EXCEPT ![c] = Idle]
                 /\ uses' = [uses EXCEPT ![t] = uses[t] + 1]
                 /\ IsUsable(c) /\ keeper # "caller" /\ records' = records
  BY <1>1 DEF Consume, IsUsable
<1>2. ASSUME NEW c \in Calls, Persist(c), uses' # uses
      PROVE  \E t \in delivered :
                 /\ Holds(c, t)
                 /\ call' = [call EXCEPT ![c] = Idle]
                 /\ uses' = [uses EXCEPT ![t] = uses[t] + 1]
                 /\ Decided(c, t) /\ records' = [records EXCEPT ![t] = "used"]
  BY <1>2 DEF Persist, Insert
<1>3. CASE uses' = uses
  <2>1. ASSUME NEW c \in Calls, Persist(c), NEW t \in Tokens, records'[t] = "unused"
        PROVE  records[t] = "unused"
    BY <2>1 DEF Persist, Insert
  <2> QED
    BY <1>3, <2>1 DEF Next, vars, Generate, Save, Insert, BeginRedeem, Claim, Claimed, Load,
                      Consume, PruneExpired, Tick
<1>4. CASE uses' # uses
  <2>1. \E c \in Calls : Consume(c) \/ Persist(c)
    BY <1>4 DEF Next, vars, Generate, Save, BeginRedeem, Claim, Load, PruneExpired, Tick
  <2> QED
    BY <1>1, <1>2, <1>4, <2>1
<1> QED
  BY <1>3, <1>4

\* One step keeps a link with one holder at most.
LEMMA NextOneHolder ==
    TypeInv /\ OneHolder /\ [Next]_vars => OneHolder'
<1> SUFFICES ASSUME TypeInv, OneHolder, [Next]_vars PROVE OneHolder'
  OBVIOUS
<1>t. /\ uses \in [Tokens -> Nat]
      /\ records \in [Tokens -> Records]
      /\ delivered \subseteq Tokens
      /\ call \in [Calls -> CallState]
      /\ \A c \in Calls, t \in Tokens : Holds(c, t) => t \in delivered
      /\ \A c \in Calls : call[c].pc = "save" => call[c].token \notin delivered
  BY DEF TypeInv, TypeOK, CallsOK, Holds, Decides, Decided
<1>k. keeper' = keeper /\ delivered \subseteq delivered'
  BY DEF Next, vars, Generate, Save, BeginRedeem, Claim, Load, Consume, Persist, PruneExpired, Tick
<1>1. CASE \E c \in Calls, s \in delivered :
             /\ Holds(c, s)
             /\ call' = [call EXCEPT ![c] = Idle]
             /\ uses' = [uses EXCEPT ![s] = uses[s] + 1]
             /\ \/ Consume(c) /\ IsUsable(c) /\ keeper # "caller" /\ records' = records
                \/ Persist(c) /\ Decided(c, s) /\ records' = [records EXCEPT ![s] = "used"]
  <2>1. PICK c \in Calls, s \in delivered :
             /\ Holds(c, s)
             /\ call' = [call EXCEPT ![c] = Idle]
             /\ uses' = [uses EXCEPT ![s] = uses[s] + 1]
             /\ \/ Consume(c) /\ IsUsable(c) /\ keeper # "caller" /\ records' = records
                \/ Persist(c) /\ Decided(c, s) /\ records' = [records EXCEPT ![s] = "used"]
    BY <1>1
  <2>2. /\ s \in Tokens
        /\ uses[s] = 0
        /\ \A d \in Calls : Holds(d, s) => d = c
        /\ (records[s] = "unused") = (keeper = "caller")
    BY <1>t, <2>1 DEF OneHolder
  <2>3. uses'[s] = 1 /\ records'[s] # "unused"
    BY <1>t, <2>1, <2>2
  <2>4. \A t \in Tokens : t # s => uses'[t] = uses[t] /\ records'[t] = records[t]
    BY <1>t, <2>1
  <2>5. \A d \in Calls, t \in Tokens : Holds(d, t)' => d # c /\ Holds(d, t) /\ t # s
    BY <1>t, <2>1, <2>2 DEF Holds, Decides, Decided, Idle
  <2>6. \A t \in Tokens : uses'[t] \in {0, 1}
    BY <2>3, <2>4 DEF OneHolder
  <2>7. \A t \in Tokens : t \notin delivered' \/ records'[t] = "unused" => uses'[t] = 0
    BY <1>k, <2>1, <2>3, <2>4 DEF OneHolder
  <2>8. \A d \in Calls, t \in Tokens : Holds(d, t)' =>
          /\ (records'[t] = "unused") = (keeper' = "caller")
          /\ uses'[t] = 0
          /\ \A e \in Calls : Holds(e, t)' => e = d
    BY <1>k, <2>4, <2>5 DEF OneHolder
  <2> QED
    BY <2>6, <2>7, <2>8 DEF OneHolder
<1>2. CASE /\ uses' = uses
           /\ \A t \in Tokens : records'[t] = "unused" /\ records[t] # "unused" =>
                 t \notin delivered /\ \E c \in Calls : Save(c)
  <2>3. \A c, d \in Calls, t \in Tokens : Holds(c, t)' /\ Holds(d, t)' => c = d
    <3> SUFFICES ASSUME NEW c \in Calls, NEW d \in Calls, NEW t \in Tokens,
                        Holds(c, t)', Holds(d, t)', c # d
                 PROVE  FALSE
      OBVIOUS
    <3>1. Holds(c, t) => ~Holds(d, t) /\ (records[t] = "unused") = (keeper = "caller")
      BY DEF OneHolder
    <3>2. Holds(d, t) => (records[t] = "unused") = (keeper = "caller")
      BY DEF OneHolder
    <3>3. ~Holds(c, t) =>
             /\ records[t] = "unused"
             /\ call'[d] = call[d]
             /\ keeper = "caller" => ~Holds(d, t)
      BY HolderStep
    <3>4. ~Holds(d, t) => records[t] = "unused" /\ (keeper = "caller" => ~Holds(c, t))
      BY HolderStep
    <3>5. call'[d] = call[d] => (Holds(d, t)' <=> Holds(d, t))
      BY DEF Holds, Decides, Decided
    <3> QED
      BY <3>1, <3>2, <3>3, <3>4, <3>5
  <2>4. \A c \in Calls, t \in Tokens :
          Holds(c, t)' => uses[t] = 0 /\ (records'[t] = "unused") = (keeper = "caller")
    <3> SUFFICES ASSUME NEW c \in Calls, NEW t \in Tokens, Holds(c, t)'
                 PROVE  uses[t] = 0 /\ (records'[t] = "unused") = (keeper = "caller")
      OBVIOUS
    <3>1. CASE Holds(c, t)
      <4>1. (records[t] = "unused") = (keeper = "caller") /\ uses[t] = 0
        BY <3>1 DEF OneHolder
      <4>2. t \in delivered
        BY <1>t, <3>1
      <4>3. CASE records'[t] = "unused"
        BY <1>2, <4>1, <4>2, <4>3
      <4>4. CASE records'[t] # "unused" /\ keeper = "caller"
        <5>1. records[t] = "unused"
          BY <4>1, <4>4
        <5>2. PICK d \in Calls : Persist(d) /\ call[d].token = t
          BY <1>t, <4>2, <4>4, <5>1
             DEF Next, vars, Generate, Save, Insert, BeginRedeem, Claim, Load, Consume, Persist,
                 PruneExpired, Tick
        <5>3. Holds(d, t)
          BY <5>2 DEF Persist, Holds, Decided
        <5>4. d = c
          BY <3>1, <5>3 DEF OneHolder
        <5>5. ~Holds(c, t)'
          BY <1>t, <5>2, <5>4 DEF Persist, Holds, Decides, Decided, Idle
        <5> QED
          BY <5>5
      <4> QED
        BY <4>1, <4>3, <4>4
    <3>2. CASE ~Holds(c, t)
      BY <3>2, HolderStep DEF OneHolder
    <3> QED
      BY <3>1, <3>2
  <2>5. \A t \in Tokens : records'[t] = "unused" => uses[t] = 0
    BY <1>2 DEF OneHolder
  <2>6. \A t \in Tokens \ delivered' : uses[t] = 0
    BY <1>k DEF OneHolder
  <2> QED
    BY <1>2, <1>k, <2>3, <2>4, <2>5, <2>6 DEF OneHolder
<1> QED
  BY <1>1, <1>2, UseStep

\* One step keeps every mailed link that is in time within reach of its owner.
LEMMA NextValidLinksSurvive ==
    RedeemInv /\ [Next]_vars => ValidLinksSurvive'
<1> SUFFICES ASSUME RedeemInv, [Next]_vars, NEW t \in delivered', ~Expired(t)'
             PROVE  (records[t] = "unused" \/ Held(t) \/ uses[t] = 1 \/ t \in dropped)'
  BY DEF ValidLinksSurvive
<1>t. /\ TypeInv
      /\ uses \in [Tokens -> Nat]
      /\ records \in [Tokens -> Records]
      /\ call \in [Calls -> CallState]
      /\ delivered \subseteq Tokens
      /\ now \in Nat
      /\ expires \in [Tokens -> Nat \cup {None}]
      /\ \A s \in delivered : expires[s] # None /\ expires[s] \in Nat
      /\ \A c \in Calls : call[c].pc = "save" => call[c].token \in Tokens \ delivered
  BY DEF RedeemInv, TypeInv, TypeOK, CallsOK
<1>1. CASE t \notin delivered
  <2>1. PICK c \in Calls : Save(c) /\ call[c].token = t /\ Insert(t, "unused")
    BY <1>1 DEF Next, vars, Generate, Save, BeginRedeem, Claim, Load, Consume, Persist,
                PruneExpired, Tick
  <2> QED
    BY <1>1, <1>t, <2>1 DEF Save, Insert
<1>2. CASE t \in delivered
  <2>1. t \in Tokens /\ expires[t] # None /\ expires[t] \in Nat
    BY <1>2, <1>t
  <2>2. expires'[t] = expires[t] /\ now' \in Nat /\ now' >= now
    BY <1>t, <2>1, MagicLinkAssumption
       DEF Next, vars, Generate, Save, BeginRedeem, Claim, Load, Consume, Persist, PruneExpired,
           Tick
  <2>3. now <= expires[t] /\ now' <= expires[t]
    BY <1>t, <2>1, <2>2 DEF Expired
  <2>4. t \in dropped => t \in dropped'
    BY DEF Next, vars, Generate, Save, BeginRedeem, Claim, Load, Consume, Persist, PruneExpired,
           Tick
  <2>5. uses[t] = 1 => uses'[t] = 1
    <3>1. \A c \in Calls : uses[t] = 1 => ~Holds(c, t)
      BY <2>1 DEF RedeemInv, OneHolder
    <3> QED
      BY <1>t, <2>1, <3>1, UseStep
  <2>6. ASSUME NEW c \in Calls, Holds(c, t)
        PROVE  Holds(c, t)' \/ uses'[t] = 1 \/ records'[t] = "unused" \/ t \in dropped'
    <3>0. uses[t] = 0 /\ (records[t] = "unused") = (keeper = "caller")
      BY <2>1, <2>6 DEF RedeemInv, OneHolder
    <3>1. CASE Consume(c) /\ keeper # "caller"
      <4>1. IsUsable(c) /\ call[c].token = t
        BY <2>1, <2>3, <2>6, <3>1 DEF Consume, Holds, Decides, Decided, IsUsable
      <4> QED
        BY <1>t, <2>1, <3>0, <3>1, <4>1 DEF Consume
    <3>2. CASE Consume(c) /\ keeper = "caller"
      BY <3>0, <3>2 DEF Consume
    <3>3. CASE Persist(c)
      <4>1. call[c].token = t /\ keeper = "caller"
        BY <1>t, <2>6, <3>3 DEF Persist, Holds, Decides, Decided, TypeInv, CallsOK
      <4>2. \/ uses' = [uses EXCEPT ![t] = uses[t] + 1]
            \/ t \in dropped'
            \/ uses' = uses /\ records' = records
        BY <3>3, <4>1 DEF Persist
      <4> QED
        BY <1>t, <2>1, <3>0, <4>1, <4>2
    <3> QED
      BY <1>t, <2>1, <2>6, <3>1, <3>2, <3>3, HolderStep
  <2>7. CASE records[t] = "unused"
    <3>1. ASSUME NEW c \in Calls, Claim(c), call[c].token = t
          PROVE records'[t] = "unused" \/ Holds(c, t)' \/ t \in dropped'
      BY <1>t, <2>1, <2>7, <3>1 DEF Claim, Claimed, Holds, Decides
    <3>2. ASSUME NEW c \in Calls, Claim(c), call[c].token # t PROVE records'[t] = "unused"
      BY <1>t, <2>1, <2>7, <3>2 DEF Claim, Claimed
    <3>3. CASE PruneExpired
      BY <2>1, <2>3, <2>7, <3>3 DEF PruneExpired, Keeps
    <3>4. ASSUME NEW c \in Calls, Save(c) PROVE records'[t] = "unused"
      BY <1>t, <2>1, <2>7, <3>4 DEF Save, Insert
    <3>5. CASE UNCHANGED records
      BY <2>7, <3>5
    <3>6. ASSUME NEW c \in Calls, Persist(c), call[c].token # t PROVE records'[t] = "unused"
      BY <1>t, <2>1, <2>7, <3>6 DEF Persist, Insert
    <3>7. ASSUME NEW c \in Calls, Persist(c), call[c].token = t PROVE Holds(c, t)
      BY <3>7 DEF Persist, Holds, Decided
    <3> QED
      BY <2>6, <3>1, <3>2, <3>3, <3>4, <3>5, <3>6, <3>7
         DEF Next, vars, Generate, BeginRedeem, Load, Consume, Tick, Held
  <2>8. records[t] = "unused" \/ (\E c \in Calls : Holds(c, t)) \/ uses[t] = 1 \/ t \in dropped
    BY <1>t, <1>2, <2>1, <2>3 DEF RedeemInv, ValidLinksSurvive, Expired, Held
  <2> QED
    BY <2>4, <2>5, <2>6, <2>7, <2>8 DEF Held
<1> QED
  BY <1>1, <1>2

LEMMA NextRedeemInv == RedeemInv /\ [Next]_vars => RedeemInv'
BY NextTypeInv, NextOneHolder, NextValidLinksSurvive DEF RedeemInv

\* A mailed link that is in time is never lost to its owner, but by a claim the
\* store answered with an error.
THEOREM LinksSurvive == Spec => []ValidLinksSurvive
<1>1. RedeemInv => ValidLinksSurvive
  BY DEF RedeemInv
<1> QED
  BY <1>1, InitRedeemInv, NextRedeemInv, PTL DEF Spec

-----------------------------------------------------------------------------
\* A step that counts no use only adds to the links that can never be redeemed.
LEMMA VoidStays ==
    ASSUME RedeemInv, [Next]_vars, NEW t \in Tokens, uses' = uses, TooLate(t) \/ Lost(t)
    PROVE  TooLate(t)' \/ Lost(t)'
<1>t. /\ TypeInv
      /\ now \in Nat
      /\ records \in [Tokens -> Records]
      /\ call \in [Calls -> CallState]
      /\ expires \in [Tokens -> Nat \cup {None}]
      /\ \A c \in Calls : call[c].pc = "save" => call[c].token \in Tokens \ delivered
  BY DEF RedeemInv, TypeInv, TypeOK, CallsOK
<1>1. CASE TooLate(t)
  <2>1. expires[t] \in Nat /\ now > expires[t]
    BY <1>t, <1>1 DEF TooLate, Expired
  <2>2. expires'[t] = expires[t] /\ now' \in Nat /\ now' >= now
    BY <1>t, <2>1, MagicLinkAssumption
       DEF Next, vars, Generate, Save, BeginRedeem, Claim, Load, Consume, Persist, PruneExpired,
           Tick
  <2>3. Expired(t)'
    BY <1>t, <2>1, <2>2, MagicLinkAssumption DEF Expired
  <2>4. ASSUME NEW c \in Calls, Decided(c, t)' PROVE Decided(c, t)
    <3>1. ASSUME NEW d \in Calls, Consume(d), d = c, ~Decided(c, t) PROVE FALSE
      <4>1. call'[c].pc = "persist" /\ call'[c].token = t
        BY <2>4 DEF Decided
      <4>2. IsUsable(c) /\ call[c].token = t
        BY <1>t, <3>1, <4>1 DEF Consume, Idle
      <4> QED
        BY <1>t, <2>1, <4>2 DEF IsUsable
    <3>2. ASSUME NEW d \in Calls, d # c, call'[c] = call[c] PROVE Decided(c, t)
      BY <2>4, <3>2 DEF Decided
    <3> QED
      BY <1>t, <2>4, <3>1, <3>2
         DEF Decided, Idle, Next, vars, Generate, Save, BeginRedeem, Claim, Load, Consume,
             Persist, PruneExpired, Tick
  <2> QED
    BY <1>1, <2>3, <2>4 DEF TooLate
<1>2. CASE Lost(t)
  <2>1. t \in delivered /\ records[t] # "unused" /\ \A c \in Calls : ~Holds(c, t)
    BY <1>2 DEF Lost, Held
  <2>2. t \in delivered' /\ records'[t] # "unused"
    <3>1. t \in delivered'
      BY <2>1 DEF Next, vars, Generate, Save, BeginRedeem, Claim, Load, Consume, Persist,
                  PruneExpired, Tick
    <3>2. \A c \in Calls, s \in delivered :
             uses' = [uses EXCEPT ![s] = uses[s] + 1] => uses' # uses
      BY DEF RedeemInv, TypeInv, TypeOK
    <3> QED
      BY <1>t, <2>1, <3>1, <3>2, UseStep
  <2>3. \A c \in Calls : ~Holds(c, t)'
    BY <1>t, <2>1, HolderStep
  <2> QED
    BY <2>2, <2>3 DEF Lost, Held
<1> QED
  BY <1>1, <1>2

\* Redemption implements OneTime: for any number of links and callers, whoever
\* keeps the records, whichever redemptions race and whichever operations fail.
THEOREM RedemptionIsOneTime == Spec => ImplementsOneTime
<1>1. Init => Promise!Init
  BY DEF Init, Promise!Init, TooLate, Expired, Lost
<1>2. RedeemInv /\ [Next]_vars => [Promise!Next]_(Promise!oneTimeVars)
  <2> SUFFICES ASSUME RedeemInv, [Next]_vars PROVE [Promise!Next]_(Promise!oneTimeVars)
    OBVIOUS
  <2>1. CASE uses' = uses
    BY <2>1, VoidStays DEF Promise!Next, Promise!Void, Promise!VoidGrows
  <2>2. CASE uses' # uses
    <3>1. PICK c \in Calls, t \in delivered :
             /\ Holds(c, t)
             /\ call' = [call EXCEPT ![c] = Idle]
             /\ uses' = [uses EXCEPT ![t] = uses[t] + 1]
             /\ \/ Consume(c) /\ IsUsable(c) /\ keeper # "caller" /\ records' = records
                \/ Persist(c) /\ Decided(c, t) /\ records' = [records EXCEPT ![t] = "used"]
      BY <2>2, UseStep DEF RedeemInv
    <3>2. /\ call \in [Calls -> CallState]
          /\ uses \in [Tokens -> Nat]
          /\ records \in [Tokens -> Records]
          /\ t \in Tokens
          /\ now \in Nat
          /\ expires[t] \in Nat
      BY DEF RedeemInv, TypeInv, TypeOK
    <3>4. uses[t] = 0 /\ uses' = [uses EXCEPT ![t] = 1]
      <4>1. uses[t] = 0
        BY <3>1, <3>2 DEF RedeemInv, OneHolder
      <4>2. uses[t] + 1 = 1
        BY <4>1
      <4> QED
        BY <3>1, <4>1, <4>2
    <3>5. UNCHANGED <<now, expires, delivered>> /\ \A s \in Tokens \ {t} : records'[s] = records[s]
      BY <3>1, <3>2 DEF Consume, Persist
    <3>6. \A s \in Tokens \ {t}, d \in Calls :
             (Holds(d, s)' <=> Holds(d, s)) /\ (Decided(d, s)' <=> Decided(d, s))
      BY <3>1, <3>2 DEF Holds, Decides, Decided, Idle
    <3>7. \A s \in Tokens \ {t} : TooLate(s)' = TooLate(s) /\ Lost(s)' = Lost(s)
      BY <3>5, <3>6 DEF TooLate, Expired, Lost, Held
    <3>8. ~TooLate(t) /\ ~Lost(t)
      <4>1. ~Lost(t)
        BY <3>1 DEF Lost, Held
      <4>2. CASE Consume(c) /\ IsUsable(c) /\ keeper # "caller"
        <5>1. call[c].token = t
          BY <3>1 DEF Holds, Decides, Decided
        <5> QED
          BY <3>2, <4>1, <4>2, <5>1 DEF IsUsable, TooLate, Expired
      <4>3. CASE Decided(c, t)
        BY <4>1, <4>3 DEF TooLate
      <4> QED
        BY <3>1, <4>2, <4>3
    <3>9. {s \in Tokens : uses'[s] = 0 /\ (TooLate(s)' \/ Lost(s)')}
            = {s \in Tokens : uses[s] = 0 /\ (TooLate(s) \/ Lost(s))}
      BY <3>2, <3>4, <3>7, <3>8
    <3>10. Promise!Grant(t)
      BY <3>2, <3>4, <3>8, <3>9 DEF Promise!Grant, Promise!VoidGrows
    <3> QED
      BY <3>2, <3>10 DEF Promise!Next
  <2> QED
    BY <2>1, <2>2
<1> QED
  BY <1>1, <1>2, InitRedeemInv, NextRedeemInv, PTL DEF Spec, ImplementsOneTime, Promise!Spec

\* So a link logs in at most once: OneTime grants nothing twice, and redemption
\* implements it.
THEOREM LinksLogInOnce == Spec => []Promise!AtMostOnce
<1> DEFINE Once == uses \in [Tokens -> {0, 1}]
<1>1. Promise!Init => Once
  BY DEF Promise!Init
<1>2. Once /\ [Promise!Next]_(Promise!oneTimeVars) => Once'
  <2> SUFFICES ASSUME Once, [Promise!Next]_(Promise!oneTimeVars) PROVE Once'
    OBVIOUS
  <2>1. CASE UNCHANGED uses
    BY <2>1
  <2>2. ASSUME NEW t \in Tokens, Promise!Grant(t) PROVE Once'
    BY <2>2 DEF Promise!Grant
  <2> QED
    BY <2>1, <2>2 DEF Promise!Next, Promise!Void, Promise!oneTimeVars
<1>3. Once => Promise!AtMostOnce
  BY DEF Promise!AtMostOnce
<1> QED
  BY <1>1, <1>2, <1>3, RedemptionIsOneTime, PTL DEF ImplementsOneTime, Promise!Spec
=============================================================================
