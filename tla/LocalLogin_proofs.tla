-------------------------- MODULE LocalLogin_proofs --------------------------
(***************************************************************************)
(* Proofs about LocalLogin, for any passwords, hashers, strategies, users  *)
(* and logins and any number of changes: types, that an accepted login had *)
(* the password, that logins leave passwords alone, and what refusals cost. *)
(***************************************************************************)
EXTENDS LocalLogin, FiniteSetTheorems, TLAPS

\* What a login was told of its user was so while it ran; what it verified is its
\* own password; and its dummy hash is that of its strategy's hasher.
CallOK(c) ==
    /\ call[c].pc # "idle" =>
          /\ call[c].by \in Strategies
          /\ call[c].user \in Users
          /\ call[c].password \in Passwords
          /\ Standing(stored[call[c].user]) \subseteq had[c]
    /\ call[c].pc \in {"find", "equalize", "fill", "burn"} => call[c].seen = None
    /\ call[c].pc \in {"idle", "find", "equalize", "fill", "verify"} => spent[c] = <<>>
    /\ call[c].pc # "idle" /\ c \notin cold => dummy[call[c].by] # None
    /\ call[c].pc = "fill" => c \in cold
    /\ call[c].pc = "burn" =>
          /\ dummy[call[c].by] = SettingsOf(hasher[call[c].by])
          /\ \/ spent[c] = <<>>
             \/ c \in cold /\ spent[c] = <<SettingsOf(hasher[call[c].by])>>
    /\ call[c].pc \in {"verify", "rehash", "update", "validate"} =>
          /\ call[c].seen # None
          /\ Standing(call[c].seen) \subseteq had[c]
          /\ stored[call[c].user] # None
    /\ call[c].pc \in {"rehash", "update", "validate"} =>
          call[c].seen.hash.password = call[c].password

DummiesOK == \A s \in Strategies : dummy[s] \in {None, Empty, SettingsOf(hasher[s])}

LocalInv ==
    /\ TypeOK
    /\ \A c \in Calls : CallOK(c)
    /\ DummiesOK
    /\ \A c \in Calls : IsFiniteSet(had[c])

\* The part of the types that a login's own steps touch.
LoginsTyped ==
    /\ call \in [Calls -> CallState]
    /\ answer \in Answers \cup {None}
    /\ had \in [Calls -> SUBSET [password : Passwords, active : BOOLEAN]]
    /\ spent \in [Calls -> Seq(Settings)]
    /\ cold \subseteq Calls
    /\ failed \subseteq Calls

-----------------------------------------------------------------------------
\* A hash commits to the password it was made of.
LEMMA HashTyped ==
    ASSUME NEW h \in Hashers, NEW p \in Passwords, NEW x \in Hash(h, p)
    PROVE  x \in Hashes /\ x.password = p
BY DEF Hash, Hashes, Settings

\* Verifying costs what the hash was made with, or nothing.
LEMMA WorkTyped ==
    ASSUME NEW p, NEW made \in Settings PROVE Work(p, made) \in Seq(Settings)
BY DEF Work

\* At most one standing is known of a record.
LEMMA StandingTyped ==
    ASSUME NEW r \in UserRecords \cup {None}
    PROVE  /\ Standing(r) \subseteq [password : Passwords, active : BOOLEAN]
           /\ IsFiniteSet(Standing(r))
           /\ r # None => Standing(r) = {[password |-> r.hash.password, active |-> r.active]}
<1>1. CASE r = None
  BY <1>1, FS_EmptySet DEF Standing
<1>2. CASE r # None
  <2>1. Standing(r) = {[password |-> r.hash.password, active |-> r.active]}
    BY <1>2 DEF Standing
  <2>2. r.hash.password \in Passwords /\ r.active \in BOOLEAN
    BY <1>2 DEF UserRecords, Hashes
  <2>3. IsFiniteSet(Standing(r))
    BY <2>1, FS_Singleton
  <2> QED
    BY <2>1, <2>2, <2>3
<1> QED
  BY <1>1, <1>2

\* At first no login runs.
LEMMA InitLocalInv == Init => LocalInv
<1> SUFFICES ASSUME Init PROVE LocalInv
  OBVIOUS
<1>1. Idle \in CallState /\ Idle.pc = "idle"
  BY DEF Idle, CallState
<1>2. TypeOK
  BY <1>1, LocalLoginAssumption DEF Init, TypeOK, Stored
<1>3. \A c \in Calls : CallOK(c)
  BY <1>1 DEF Init, CallOK
<1> QED
  BY <1>2, <1>3, FS_EmptySet DEF Init, LocalInv, DummiesOK

\* A login goes on: only its own part of the state moves.
LEMMA Going ==
    ASSUME TypeOK, NEW c \in Calls, NEW pc \in Steps, NEW work \in Seq(Settings),
           NEW fails \in BOOLEAN, GoesOn(c, pc, work, fails)
    PROVE  /\ LoginsTyped'
           /\ had' = had
           /\ call'[c].pc = pc /\ call'[c].by = call[c].by /\ call'[c].user = call[c].user
           /\ call'[c].password = call[c].password /\ call'[c].seen = call[c].seen
           /\ spent'[c] = spent[c] \o work
           /\ cold' = cold
           /\ \A d \in Calls \ {c} : call'[d] = call[d] /\ spent'[d] = spent[d]
<1>1. call[c] \in CallState
  BY DEF TypeOK
<1>2. call' = [call EXCEPT ![c] = [call[c] EXCEPT !.pc = pc]] /\ answer' = None
  BY DEF GoesOn, Goto
<1>3. [call[c] EXCEPT !.pc = pc] \in CallState
  BY <1>1 DEF CallState
<1>4. spent[c] \o work \in Seq(Settings)
  BY DEF TypeOK
<1>5. /\ spent' = [spent EXCEPT ![c] = spent[c] \o work] /\ had' = had /\ failed' \subseteq Calls
      /\ cold' = cold
  BY DEF GoesOn, TypeOK
<1> QED
  BY <1>1, <1>2, <1>3, <1>4, <1>5 DEF TypeOK, LoginsTyped, CallState

\* A login is answered: it is idle again, and nothing is kept of it.
LEMMA Returning ==
    ASSUME TypeOK, NEW c \in Calls, NEW r \in Results, NEW work \in Seq(Settings),
           NEW fails \in BOOLEAN, Return(c, r, work, fails)
    PROVE  /\ LoginsTyped'
           /\ call'[c].pc = "idle" /\ spent'[c] = <<>> /\ had'[c] = {}
           /\ cold' = cold \ {c}
           /\ answer' = [to |-> c, result |-> r, spent |-> spent[c] \o work,
                         failed |-> fails \/ c \in failed]
           /\ \A d \in Calls \ {c} :
                 call'[d] = call[d] /\ spent'[d] = spent[d] /\ had'[d] = had[d]
<1>1. Idle \in CallState /\ Idle.pc = "idle"
  BY DEF Idle, CallState
<1>2. spent[c] \o work \in Seq(Settings)
  BY DEF TypeOK
<1>3. /\ call' = [call EXCEPT ![c] = Idle]
      /\ spent' = [spent EXCEPT ![c] = <<>>]
      /\ had' = [had EXCEPT ![c] = {}]
      /\ cold' = cold \ {c} /\ cold' \subseteq Calls /\ failed' \subseteq Calls
  BY DEF Return, TypeOK
<1>4. answer' = [to |-> c, result |-> r, spent |-> spent[c] \o work,
                 failed |-> fails \/ c \in failed]
  BY DEF Return
<1>5. answer' \in Answers
  BY <1>2, <1>4 DEF Answers
<1>6. LoginsTyped'
  BY <1>1, <1>3, <1>5 DEF TypeOK, LoginsTyped
<1> QED
  BY <1>1, <1>3, <1>4, <1>6 DEF TypeOK

\* A login's step keeps the invariant if it does for that login.
LEMMA StepKeepsInv ==
    ASSUME LocalInv, NEW c \in Calls, LoginsTyped', CallOK(c)', IsFiniteSet(had'[c]),
           UNCHANGED <<attached, hasher, stored, changes>>,
           \A d \in Calls \ {c} :
              /\ call'[d] = call[d] /\ spent'[d] = spent[d] /\ had'[d] = had[d]
              /\ d \in cold' <=> d \in cold,
           dummy' \in [Strategies -> Settings \cup {Empty, None}],
           \A s \in Strategies :
              \/ dummy'[s] = dummy[s]
              \/ dummy[s] = None /\ dummy'[s] \in {SettingsOf(hasher[s]), Empty}
    PROVE  LocalInv'
<1>1. TypeOK'
  BY DEF LocalInv, TypeOK, LoginsTyped
<1>2. DummiesOK'
  BY DEF LocalInv, DummiesOK
<1>3. ASSUME NEW d \in Calls \ {c} PROVE CallOK(d)' /\ IsFiniteSet(had'[d])
  <2>1. CallOK(d) /\ IsFiniteSet(had[d])
    BY DEF LocalInv
  <2>3. call[d].pc # "idle" /\ d \notin cold => dummy'[call[d].by] # None
    <3> SUFFICES ASSUME call[d].pc # "idle", d \notin cold PROVE dummy'[call[d].by] # None
      OBVIOUS
    <3>1. call[d].by \in Strategies /\ dummy[call[d].by] # None
      BY <2>1 DEF CallOK
    <3> QED
      BY <3>1
  <2>2. call[d].pc = "burn" => dummy'[call[d].by] = SettingsOf(hasher[call[d].by])
    <3> SUFFICES ASSUME call[d].pc = "burn"
                 PROVE  dummy'[call[d].by] = SettingsOf(hasher[call[d].by])
      OBVIOUS
    <3>1. call[d].by \in Strategies /\ dummy[call[d].by] = SettingsOf(hasher[call[d].by])
      BY <2>1 DEF CallOK
    <3>2. dummy[call[d].by] \in Settings
      BY <3>1 DEF LocalInv, TypeOK, Settings
    <3> QED
      BY <3>1, <3>2, LocalLoginAssumption
  <2> QED
    BY <1>3, <2>1, <2>2, <2>3 DEF CallOK
<1> QED
  BY <1>1, <1>2, <1>3 DEF LocalInv

\* A login that begins knows the user as the store has it.
LEMMA BeginKeepsInv == ASSUME LocalInv, NEW c \in Calls, Begin(c) PROVE LocalInv'
<1>1. PICK s \in Strategies, u \in Users, p \in Passwords :
        /\ call' = [call EXCEPT ![c] =
                      [pc |-> IF s \in attached THEN "find" ELSE "equalize", by |-> s,
                       user |-> u, password |-> p, seen |-> None]]
        /\ had' = [had EXCEPT ![c] = Standing(stored[u])]
        /\ cold' = IF dummy[s] = None THEN cold \cup {c} ELSE cold
  BY DEF Begin
<1>2. /\ call[c].pc = "idle" /\ answer' = None
      /\ UNCHANGED <<attached, hasher, stored, dummy, spent, failed, changes>>
  BY DEF Begin
<1>3. stored[u] \in UserRecords \cup {None}
  BY DEF LocalInv, TypeOK
<1>4. /\ Standing(stored[u]) \subseteq [password : Passwords, active : BOOLEAN]
      /\ IsFiniteSet(Standing(stored[u]))
  BY <1>3, StandingTyped
<1> DEFINE k == [pc |-> IF s \in attached THEN "find" ELSE "equalize", by |-> s,
                 user |-> u, password |-> p, seen |-> None]
<1>5. k \in CallState /\ k.pc \in {"find", "equalize"} /\ k.by = s
  BY DEF CallState, Steps
<1>6. LoginsTyped'
  BY <1>1, <1>2, <1>4, <1>5 DEF LocalInv, TypeOK, LoginsTyped
<1>7. /\ call'[c] = k /\ had'[c] = Standing(stored[u]) /\ spent'[c] = <<>>
      /\ \A d \in Calls \ {c} :
            /\ call'[d] = call[d] /\ spent'[d] = spent[d] /\ had'[d] = had[d]
            /\ d \in cold' <=> d \in cold
  BY <1>1, <1>2 DEF LocalInv, TypeOK, CallOK
<1>8. CallOK(c)'
  BY <1>1, <1>2, <1>5, <1>7 DEF CallOK
<1> QED
  BY <1>2, <1>4, <1>6, <1>7, <1>8, StepKeepsInv DEF LocalInv, TypeOK

\* A login that is answered keeps the invariant.
LEMMA ReturnKeepsInv ==
    ASSUME LocalInv, NEW c \in Calls, NEW r \in Results, NEW work \in Seq(Settings),
           NEW fails \in BOOLEAN, Return(c, r, work, fails),
           UNCHANGED <<attached, hasher, stored, changes>>,
           dummy' \in [Strategies -> Settings \cup {Empty, None}],
           \A s \in Strategies :
              \/ dummy'[s] = dummy[s]
              \/ dummy[s] = None /\ dummy'[s] \in {SettingsOf(hasher[s]), Empty}
    PROVE  LocalInv'
<1>1. /\ LoginsTyped'
      /\ call'[c].pc = "idle" /\ spent'[c] = <<>> /\ had'[c] = {}
      /\ \A d \in Calls \ {c} :
            /\ call'[d] = call[d] /\ spent'[d] = spent[d] /\ had'[d] = had[d]
            /\ d \in cold' <=> d \in cold
  BY Returning DEF LocalInv
<1>2. CallOK(c)' /\ IsFiniteSet(had'[c])
  BY <1>1, FS_EmptySet DEF CallOK
<1> QED
  BY <1>1, <1>2, StepKeepsInv

\* So does a login that goes on, if it is entitled to where it goes.
LEMMA GoesOnKeepsInv ==
    ASSUME LocalInv, NEW c \in Calls, call[c].pc # "idle",
           NEW pc \in Steps, NEW work \in Seq(Settings),
           NEW fails \in BOOLEAN, GoesOn(c, pc, work, fails),
           UNCHANGED <<attached, hasher, stored, changes>>,
           dummy' \in [Strategies -> Settings \cup {Empty, None}],
           \A s \in Strategies :
              \/ dummy'[s] = dummy[s]
              \/ dummy[s] = None /\ dummy'[s] \in {SettingsOf(hasher[s]), Empty},
           pc \in {"find", "equalize", "fill", "burn"} =>
              call[c].seen = None /\ spent[c] = <<>>,
           pc \in {"find", "equalize", "fill"} => work = <<>>,
           pc = "fill" => c \in cold,
           pc # "verify",
           pc = "burn" =>
              /\ dummy'[call[c].by] = SettingsOf(hasher[call[c].by])
              /\ work = <<>> \/ (c \in cold /\ work = <<SettingsOf(hasher[call[c].by])>>),
           pc \in {"rehash", "update", "validate"} =>
              /\ call[c].pc \in {"verify", "rehash", "update"}
              /\ call[c].seen.hash.password = call[c].password
    PROVE  LocalInv'
<1>1. /\ LoginsTyped'
      /\ had' = had
      /\ call'[c].pc = pc /\ call'[c].by = call[c].by /\ call'[c].user = call[c].user
      /\ call'[c].password = call[c].password /\ call'[c].seen = call[c].seen
      /\ spent'[c] = spent[c] \o work /\ cold' = cold
      /\ \A d \in Calls \ {c} : call'[d] = call[d] /\ spent'[d] = spent[d]
  BY Going DEF LocalInv
<1>2. CallOK(c) /\ IsFiniteSet(had[c])
  BY DEF LocalInv
<1>3. pc \in {"find", "equalize", "fill", "burn"} => spent'[c] = work
  BY <1>1
<1>5. c \notin cold => dummy'[call[c].by] # None
  <2> SUFFICES ASSUME c \notin cold PROVE dummy'[call[c].by] # None
    OBVIOUS
  <2>1. call[c].by \in Strategies /\ dummy[call[c].by] # None
    BY <1>2 DEF CallOK
  <2> QED
    BY <2>1
<1>4. CallOK(c)'
  BY <1>1, <1>2, <1>3, <1>5 DEF CallOK, Steps
<1> QED
  BY <1>1, <1>2, <1>4, StepKeepsInv

\* The store answers with the record it holds.
LEMMA FindKeepsInv == ASSUME LocalInv, NEW c \in Calls, FindByUsername(c) PROVE LocalInv'
<1> DEFINE r == stored[call[c].user]
<1>1. /\ call[c].pc = "find" /\ CallOK(c)
      /\ UNCHANGED <<attached, hasher, stored, dummy, changes>>
      /\ dummy' \in [Strategies -> Settings \cup {Empty, None}]
  BY DEF FindByUsername, LocalInv, TypeOK
<1>2. <<>> \in Seq(Settings)
  OBVIOUS
<1>3. CASE GoesOn(c, "equalize", <<>>, FALSE)
  BY <1>1, <1>2, <1>3, GoesOnKeepsInv DEF CallOK, Steps
<1>4. CASE /\ r # None
           /\ call' = [call EXCEPT ![c].pc = "verify", ![c].seen = r]
           /\ answer' = None
           /\ UNCHANGED <<had, spent, cold, failed>>
  <2>1. call[c] \in CallState /\ r \in UserRecords /\ Standing(r) \subseteq had[c]
    BY <1>1, <1>4 DEF LocalInv, TypeOK, CallOK
  <2>2. call' = [call EXCEPT ![c] = [call[c] EXCEPT !.pc = "verify", !.seen = r]]
    BY <1>4 DEF LocalInv, TypeOK
  <2>3. [call[c] EXCEPT !.pc = "verify", !.seen = r] \in CallState
    BY <2>1 DEF CallState, Steps
  <2>4. LoginsTyped'
    BY <1>4, <2>2, <2>3 DEF LocalInv, TypeOK, LoginsTyped
  <2>5. /\ call'[c].pc = "verify" /\ call'[c].by = call[c].by /\ call'[c].user = call[c].user
        /\ call'[c].password = call[c].password /\ call'[c].seen = r
        /\ \A d \in Calls \ {c} : call'[d] = call[d]
    BY <2>1, <2>2 DEF LocalInv, TypeOK, CallState
  <2>6. CallOK(c)'
    BY <1>1, <1>4, <2>1, <2>5 DEF CallOK
  <2> QED
    BY <1>1, <1>4, <2>4, <2>5, <2>6, StepKeepsInv DEF LocalInv
<1>5. CASE Return(c, "error", <<>>, FALSE)
  BY <1>1, <1>2, <1>5, ReturnKeepsInv DEF Results
<1> QED
  BY <1>3, <1>4, <1>5 DEF FindByUsername

\* The dummy hash is that of the strategy's hasher, whichever call made it.
LEMMA DummyKeepsInv ==
    ASSUME LocalInv, NEW c \in Calls, Equalize(c) \/ Fill(c) \/ Burn(c) PROVE LocalInv'
<1>1. /\ CallOK(c) /\ call[c].pc \in {"equalize", "fill", "burn"}
      /\ UNCHANGED <<attached, hasher, stored, changes>>
  BY DEF LocalInv, Equalize, Fill, Burn
<1>2. /\ call[c].by \in Strategies /\ call[c].seen = None
      /\ hasher[call[c].by] \in Hashers
      /\ dummy[call[c].by] \in {None, Empty, SettingsOf(hasher[call[c].by])}
      /\ SettingsOf(hasher[call[c].by]) \in Settings
      /\ <<>> \in Seq(Settings) /\ <<SettingsOf(hasher[call[c].by])>> \in Seq(Settings)
      /\ call[c].pc = "fill" => c \in cold
      /\ call[c].pc # "burn" => spent[c] = <<>>
      /\ c \notin cold => dummy[call[c].by] # None
  BY <1>1 DEF CallOK, LocalInv, TypeOK, DummiesOK, Settings
<1>3. CASE Equalize(c)
  <2>1. /\ dummy' = dummy /\ dummy' \in [Strategies -> Settings \cup {Empty, None}]
        /\ call[c].pc = "equalize" /\ spent[c] = <<>>
    BY <1>2, <1>3 DEF Equalize, LocalInv, TypeOK
  <2>2. CASE dummy[call[c].by] = None /\ GoesOn(c, "fill", <<>>, FALSE)
    <3>1. c \in cold
      BY <1>2, <2>2
    <3> QED
      BY <1>1, <1>2, <2>1, <2>2, <3>1, GoesOnKeepsInv DEF Steps
  <2>3. CASE dummy[call[c].by] \in Settings /\ GoesOn(c, "burn", <<>>, FALSE)
    <3>1. dummy'[call[c].by] = SettingsOf(hasher[call[c].by])
      BY <1>2, <2>1, <2>3, LocalLoginAssumption
    <3> QED
      BY <1>1, <1>2, <2>1, <2>3, <3>1, GoesOnKeepsInv DEF Steps
  <2>4. CASE Return(c, "refused", <<>>, FALSE)
    BY <1>1, <1>2, <2>1, <2>4, ReturnKeepsInv DEF Results
  <2> QED
    BY <1>3, <2>2, <2>3, <2>4 DEF Equalize
<1>4. CASE Fill(c)
  <2> DEFINE s == call[c].by
             work(h) == IF h = Empty THEN <<>> ELSE <<h>>
  <2>1. PICK h \in {SettingsOf(Using(c)), Empty} :
          /\ dummy' = IF dummy[s] = None THEN [dummy EXCEPT ![s] = h] ELSE dummy
          /\ \/ dummy'[s] # Empty /\ GoesOn(c, "burn", work(h), h = Empty)
             \/ dummy'[s] = Empty /\ Return(c, "refused", work(h), h = Empty)
    BY <1>4 DEF Fill
  <2>2. /\ dummy' \in [Strategies -> Settings \cup {Empty, None}]
        /\ \A t \in Strategies :
              \/ dummy'[t] = dummy[t]
              \/ dummy[t] = None /\ dummy'[t] \in {SettingsOf(hasher[t]), Empty}
        /\ dummy'[s] # Empty => dummy'[s] = SettingsOf(hasher[s])
    BY <1>2, <2>1, LocalLoginAssumption DEF LocalInv, TypeOK, Using
  <2>3. /\ (h = Empty) \in BOOLEAN
        /\ work(h) \in Seq(Settings) /\ work(h) \in {<<>>, <<SettingsOf(hasher[s])>>}
        /\ call[c].pc = "fill" /\ c \in cold
    BY <1>2, <1>4, <2>1 DEF Using, Fill
  <2> HIDE DEF work
  <2>4. CASE dummy'[s] # Empty /\ GoesOn(c, "burn", work(h), h = Empty)
    BY <1>1, <1>2, <2>2, <2>3, <2>4, GoesOnKeepsInv DEF Steps
  <2>5. CASE Return(c, "refused", work(h), h = Empty)
    BY <1>1, <1>2, <2>2, <2>3, <2>5, ReturnKeepsInv DEF Results
  <2> QED
    BY <2>1, <2>4, <2>5
<1>5. CASE Burn(c)
  <2>1. /\ dummy' = dummy /\ dummy' \in [Strategies -> Settings \cup {Empty, None}]
        /\ dummy[call[c].by] \in Settings
    BY <1>1, <1>2, <1>5 DEF Burn, LocalInv, TypeOK, CallOK
  <2>2. Work(call[c].password, dummy[call[c].by]) \in Seq(Settings)
    BY <2>1, WorkTyped
  <2> QED
    BY <1>1, <1>2, <1>5, <2>1, <2>2, ReturnKeepsInv DEF Burn, Results
<1> QED
  BY <1>3, <1>4, <1>5

\* Only a password that was verified goes on, and nothing else answers.
LEMMA VerifyKeepsInv ==
    ASSUME LocalInv, NEW c \in Calls, Verify(c) \/ Rehash(c) \/ Validate(c) PROVE LocalInv'
<1>1. /\ CallOK(c) /\ call[c].pc \in {"verify", "rehash", "validate"}
      /\ UNCHANGED <<attached, hasher, stored, dummy, changes>>
      /\ dummy' \in [Strategies -> Settings \cup {Empty, None}]
  BY DEF LocalInv, TypeOK, Verify, Rehash, Validate
<1>2. call[c].seen \in UserRecords /\ <<>> \in Seq(Settings)
  BY <1>1 DEF CallOK, LocalInv, TypeOK, CallState
<1> DEFINE work == Work(call[c].password, call[c].seen.hash.made)
<1>3. work \in Seq(Settings)
  BY <1>2, WorkTyped DEF UserRecords, Hashes
<1>4. CASE Verify(c)
  <2>1. CASE /\ Verifies(call[c].password, call[c].seen.hash)
             /\ GoesOn(c, IF NeedsRehash(Using(c), call[c].seen.hash.made) THEN "rehash"
                          ELSE "validate", work, FALSE)
    <3>1. PICK pc \in {"rehash", "validate"} : GoesOn(c, pc, work, FALSE)
      BY <2>1
    <3>2. call[c].pc = "verify" /\ call[c].seen.hash.password = call[c].password
      BY <1>4, <2>1 DEF Verify, Verifies
    <3>3. pc \in Steps
      BY DEF Steps
    <3> HIDE DEF work
    <3> QED
      BY <1>1, <1>3, <3>1, <3>2, <3>3, GoesOnKeepsInv
  <2>2. CASE \E r \in {"error", "refused"}, w \in {<<>>, work}, f \in BOOLEAN : Return(c, r, w, f)
    BY <1>1, <1>2, <1>3, <2>2, ReturnKeepsInv DEF Results
  <2> QED
    BY <1>4, <2>1, <2>2 DEF Verify
<1>5. CASE Rehash(c)
  <2> DEFINE new == <<SettingsOf(Using(c))>>
  <2>3. new \in Seq(Settings)
    BY <1>1 DEF CallOK, LocalInv, TypeOK, Using, Settings
  <2>1. PICK pc \in {"update", "validate"}, w \in {<<>>, new}, f \in BOOLEAN :
           GoesOn(c, pc, w, f)
    BY <1>5 DEF Rehash
  <2>2. call[c].pc = "rehash" /\ call[c].seen.hash.password = call[c].password
    BY <1>1, <1>5 DEF Rehash, CallOK
  <2> HIDE DEF new
  <2> QED
    BY <1>1, <1>2, <2>1, <2>2, <2>3, GoesOnKeepsInv DEF Steps
<1>6. CASE Validate(c)
  BY <1>1, <1>2, <1>6, ReturnKeepsInv DEF Validate, Results
<1> QED
  BY <1>4, <1>5, <1>6

\* What is stored for a user, its running logins learn.
LEMMA StoresTold ==
    ASSUME LocalInv, NEW u \in Users, NEW r \in UserRecords, Stores(u, r)
    PROVE  /\ stored' \in [Users -> UserRecords \cup {None}]
           /\ stored'[u] = r /\ \A v \in Users \ {u} : stored'[v] = stored[v]
           /\ had' \in [Calls -> SUBSET [password : Passwords, active : BOOLEAN]]
           /\ \A c \in Calls : IsFiniteSet(had'[c]) /\ had[c] \subseteq had'[c]
           /\ \A c \in Calls : call[c].user = u => Standing(r) \subseteq had'[c]
<1>1. /\ stored' = [stored EXCEPT ![u] = r]
      /\ had' = [c \in Calls |->
                   IF call[c].user = u THEN had[c] \cup Standing(r) ELSE had[c]]
  BY DEF Stores
<1>2. Standing(r) \subseteq [password : Passwords, active : BOOLEAN] /\ IsFiniteSet(Standing(r))
  BY StandingTyped
<1>3. ASSUME NEW c \in Calls PROVE IsFiniteSet(had'[c])
  <2>1. IsFiniteSet(had[c])
    BY DEF LocalInv
  <2>2. IsFiniteSet(had[c] \cup Standing(r))
    BY <1>2, <2>1, FS_Union
  <2> QED
    BY <1>1, <2>1, <2>2
<1> QED
  BY <1>1, <1>2, <1>3 DEF LocalInv, TypeOK

\* A change of a user keeps the invariant.
LEMMA StoresKeepsInv ==
    ASSUME LocalInv, NEW u \in Users, NEW r \in UserRecords, Stores(u, r),
           UNCHANGED <<attached, hasher, dummy, spent, cold, failed>>,
           answer' = None, changes' \in 0 .. MaxChanges,
           call' \in [Calls -> CallState],
           \A c \in Calls :
              \/ call'[c] = call[c]
              \/ /\ call[c].pc = "update" /\ call'[c].pc = "validate"
                 /\ call'[c].by = call[c].by /\ call'[c].user = call[c].user
                 /\ call'[c].password = call[c].password /\ call'[c].seen = call[c].seen
    PROVE  LocalInv'
<1>1. /\ stored' \in [Users -> UserRecords \cup {None}]
      /\ stored'[u] = r /\ \A v \in Users \ {u} : stored'[v] = stored[v]
      /\ had' \in [Calls -> SUBSET [password : Passwords, active : BOOLEAN]]
      /\ \A c \in Calls : IsFiniteSet(had'[c]) /\ had[c] \subseteq had'[c]
      /\ \A c \in Calls : call[c].user = u => Standing(r) \subseteq had'[c]
  BY StoresTold
<1>2. TypeOK'
  BY <1>1 DEF LocalInv, TypeOK
<1>3. ASSUME NEW c \in Calls PROVE CallOK(c)'
  <2>1. CallOK(c)
    BY DEF LocalInv
  <2>2. call[c].pc # "idle" =>
          /\ call[c].user \in Users
          /\ Standing(stored'[call[c].user]) \subseteq had'[c]
          /\ stored[call[c].user] # None => stored'[call[c].user] # None
    <3>1. CASE call[c].user = u
      BY <1>1, <2>1, <3>1, LocalLoginAssumption DEF CallOK
    <3>2. CASE call[c].user # u
      BY <1>1, <2>1, <3>2 DEF CallOK
    <3> QED
      BY <3>1, <3>2
  <2>3. had[c] \subseteq had'[c]
    BY <1>1
  <2>4. CASE call'[c] = call[c]
    BY <2>1, <2>2, <2>3, <2>4 DEF CallOK
  <2>5. CASE /\ call[c].pc = "update" /\ call'[c].pc = "validate"
             /\ call'[c].by = call[c].by /\ call'[c].user = call[c].user
             /\ call'[c].password = call[c].password /\ call'[c].seen = call[c].seen
    BY <2>1, <2>2, <2>3, <2>5 DEF CallOK
  <2> QED
    BY <2>4, <2>5
<1> QED
  BY <1>1, <1>2, <1>3 DEF LocalInv, DummiesOK

\* The rehash is a change of its user's hash, or none.
LEMMA UpdateKeepsInv ==
    ASSUME LocalInv, NEW c \in Calls, UpdatePasswordHash(c) PROVE LocalInv'
<1>1. /\ call[c].pc = "update" /\ CallOK(c) /\ call[c] \in CallState
      /\ call' = [call EXCEPT ![c] = [call[c] EXCEPT !.pc = "validate"]] /\ answer' = None
      /\ UNCHANGED <<attached, hasher, dummy, spent, cold, failed, changes>>
  BY DEF UpdatePasswordHash, Goto, LocalInv, TypeOK
<1>2. [call[c] EXCEPT !.pc = "validate"] \in CallState
  BY <1>1 DEF CallState, Steps
<1>3. /\ call' \in [Calls -> CallState]
      /\ call'[c].pc = "validate" /\ call'[c].by = call[c].by
      /\ call'[c].user = call[c].user
      /\ call'[c].password = call[c].password /\ call'[c].seen = call[c].seen
      /\ \A d \in Calls \ {c} : call'[d] = call[d]
  BY <1>1, <1>2 DEF LocalInv, TypeOK, CallState
<1>4. /\ call[c].user \in Users /\ stored[call[c].user] \in UserRecords
      /\ Using(c) \in Hashers /\ call[c].password \in Passwords
  BY <1>1 DEF CallOK, LocalInv, TypeOK, Using
<1>5. ASSUME NEW h \in Hash(Using(c), call[c].password),
             Stores(call[c].user, [stored[call[c].user] EXCEPT !.hash = h])
      PROVE  LocalInv'
  <2>1. [stored[call[c].user] EXCEPT !.hash = h] \in UserRecords
    BY <1>4, HashTyped DEF UserRecords
  <2> QED
    BY <1>1, <1>3, <1>4, <1>5, <2>1, StoresKeepsInv DEF LocalInv, TypeOK
<1>6. CASE UNCHANGED <<stored, had>>
  <2>1. LoginsTyped'
    BY <1>1, <1>3, <1>6 DEF LocalInv, TypeOK, LoginsTyped
  <2>2. CallOK(c)'
    BY <1>1, <1>3, <1>6 DEF CallOK
  <2> QED
    BY <1>1, <1>3, <1>6, <2>1, <2>2, StepKeepsInv DEF LocalInv, TypeOK
<1> QED
  BY <1>5, <1>6 DEF UpdatePasswordHash

\* Whatever the application does to a user.
LEMMA ChangeKeepsInv ==
    ASSUME LocalInv, NEW u \in Users, Register(u) \/ ChangePassword(u) \/ SetActive(u)
    PROVE  LocalInv'
<1>1. /\ UNCHANGED <<attached, hasher, dummy, spent, cold, failed, call>>
      /\ answer' = None /\ changes' \in 0 .. MaxChanges
      /\ call' \in [Calls -> CallState]
  BY LocalLoginAssumption DEF Register, ChangePassword, SetActive, Changes, LocalInv, TypeOK
<1>2. stored[u] \in UserRecords \cup {None}
  BY DEF LocalInv, TypeOK
<1>3. ASSUME NEW p \in Passwords, NEW h \in HashPassword(p) PROVE h \in Hashes
  BY HashTyped DEF HashPassword
<1>4. PICK r \in UserRecords : Stores(u, r)
  <2>1. CASE Register(u)
    BY <1>3, <2>1 DEF Register, UserRecords
  <2>2. CASE ChangePassword(u)
    <3>1. PICK p \in Passwords : \E h \in HashPassword(p) :
             Stores(u, [stored[u] EXCEPT !.hash = h])
      BY <2>2 DEF ChangePassword
    <3>2. \A h \in Hashes : [stored[u] EXCEPT !.hash = h] \in UserRecords
      BY <1>2, <2>2 DEF UserRecords, ChangePassword
    <3> QED
      BY <1>3, <3>1, <3>2
  <2>3. CASE SetActive(u)
    <3>1. [stored[u] EXCEPT !.active = ~@] \in UserRecords
      BY <1>2, <2>3 DEF UserRecords, SetActive
    <3> QED
      BY <2>3, <3>1 DEF SetActive
  <2> QED
    BY <2>1, <2>2, <2>3
<1> QED
  BY <1>1, <1>4, StoresKeepsInv

\* A strategy that takes another hasher forgets its dummy hash.
LEMMA HasherKeepsInv ==
    ASSUME LocalInv, NEW s \in Strategies, WithPasswordHasher(s) PROVE LocalInv'
<1>1. /\ \A c \in Calls : call[c].by # s
      /\ answer' = None /\ changes' \in 0 .. MaxChanges
      /\ UNCHANGED <<attached, call, spent, cold, failed, stored, had>>
      /\ dummy' = [dummy EXCEPT ![s] = None]
  BY LocalLoginAssumption DEF WithPasswordHasher, Changes, FreshDummy, LocalInv, TypeOK
<1>2. PICK h \in Hashers : hasher' = [hasher EXCEPT ![s] = h]
  BY DEF WithPasswordHasher
<1>3. TypeOK'
  BY <1>1, <1>2 DEF LocalInv, TypeOK
<1>4. \A t \in Strategies \ {s} : dummy'[t] = dummy[t] /\ hasher'[t] = hasher[t]
  BY <1>1, <1>2 DEF LocalInv, TypeOK
<1>5. DummiesOK'
  BY <1>1, <1>4 DEF LocalInv, TypeOK, DummiesOK
<1>6. ASSUME NEW c \in Calls PROVE CallOK(c)'
  <2>1. CallOK(c) /\ call[c].by # s
    BY <1>1 DEF LocalInv
  <2> QED
    BY <1>1, <1>4, <2>1 DEF CallOK
<1> QED
  BY <1>1, <1>3, <1>5, <1>6 DEF LocalInv

\* Every step keeps the invariant.
LEMMA NextLocalInv == LocalInv /\ [Next]_vars => LocalInv'
<1> SUFFICES ASSUME LocalInv, [Next]_vars PROVE LocalInv'
  OBVIOUS
<1>1. CASE UNCHANGED vars
  BY <1>1 DEF LocalInv, TypeOK, CallOK, DummiesOK, vars
<1> QED
  BY <1>1, BeginKeepsInv, FindKeepsInv, DummyKeepsInv, VerifyKeepsInv, UpdateKeepsInv,
     ChangeKeepsInv, HasherKeepsInv DEF Next

-----------------------------------------------------------------------------
\* Every variable keeps its shape.
THEOREM TypeCorrect == Spec => []TypeOK
<1>1. LocalInv => TypeOK
  BY DEF LocalInv
<1> QED
  BY <1>1, InitLocalInv, NextLocalInv, PTL DEF Spec

\* An answer is the login's own: its user found active or not, an error of the store or
\* the hasher, or a refusal at one of four places.
LEMMA AnswerComes ==
    ASSUME LocalInv, Next, NEW c \in Calls, answer' # None, answer'.to = c
    PROVE  \/ Validate(c)
           \/ answer'.result = "error"
           \/ /\ answer'.result = "refused"
              /\ Equalize(c) \/ Fill(c) \/ Burn(c) \/ Verify(c)
<1>1. ASSUME NEW d \in Calls, Begin(d) \/ Rehash(d) \/ UpdatePasswordHash(d) PROVE FALSE
  BY <1>1 DEF Begin, Rehash, UpdatePasswordHash, GoesOn, Goto
<1>2. ASSUME NEW u \in Users, Register(u) \/ ChangePassword(u) \/ SetActive(u) PROVE FALSE
  BY <1>2 DEF Register, ChangePassword, SetActive, Changes
<1>3. ASSUME NEW s \in Strategies, WithPasswordHasher(s) PROVE FALSE
  BY <1>3 DEF WithPasswordHasher, Changes
<1>4. PICK d \in Calls : \/ FindByUsername(d) \/ Equalize(d) \/ Fill(d) \/ Burn(d)
                         \/ Verify(d) \/ Validate(d)
  BY <1>1, <1>2, <1>3 DEF Next
<1>5. ASSUME NEW r, NEW w, NEW f, Return(d, r, w, f) PROVE d = c /\ answer'.result = r
  BY <1>5 DEF Return
<1>6. ASSUME NEW pc, NEW w, NEW f, GoesOn(d, pc, w, f) PROVE FALSE
  BY <1>6 DEF GoesOn, Goto
<1>7. CASE FindByUsername(d)
  BY <1>5, <1>6, <1>7 DEF FindByUsername
<1>8. CASE Equalize(d)
  BY <1>5, <1>6, <1>8 DEF Equalize
<1>9. CASE Fill(d)
  BY <1>5, <1>6, <1>9 DEF Fill
<1>10. CASE Burn(d)
  BY <1>5, <1>10 DEF Burn
<1>11. CASE Verify(d)
  BY <1>5, <1>6, <1>11 DEF Verify
<1>12. CASE Validate(d)
  BY <1>5, <1>12 DEF Validate
<1> QED
  BY <1>4, <1>7, <1>8, <1>9, <1>10, <1>11, <1>12

\* An accepted login had the password at some time while it ran.
THEOREM AcceptanceIsSound == Spec => AcceptedHadPassword
<1>1. LocalInv /\ [Next]_vars =>
        [\A c \in Calls :
           Answered(c, "ok") =>
              [password |-> call[c].password, active |-> TRUE] \in had[c]]_vars
  <2> SUFFICES ASSUME LocalInv, Next, NEW c \in Calls, Answered(c, "ok")
               PROVE  [password |-> call[c].password, active |-> TRUE] \in had[c]
    OBVIOUS
  <2>1. Validate(c)
    BY AnswerComes DEF Answered
  <2>2. call[c].pc = "validate" /\ CallOK(c) /\ call[c].seen.active
    BY <2>1 DEF Validate, Return, Answered, LocalInv
  <2>3. /\ call[c].seen \in UserRecords /\ call[c].seen # None
        /\ Standing(call[c].seen) \subseteq had[c]
        /\ call[c].seen.hash.password = call[c].password
    BY <2>2 DEF CallOK, LocalInv, TypeOK, CallState
  <2>4. /\ Standing(call[c].seen) =
             {[password |-> call[c].seen.hash.password, active |-> call[c].seen.active]}
        /\ call[c].seen.active = TRUE
    BY <2>2, <2>3, StandingTyped DEF UserRecords
  <2> QED
    BY <2>3, <2>4
<1> QED
  BY <1>1, InitLocalInv, NextLocalInv, PTL DEF Spec, AcceptedHadPassword

\* One password at most was seen: two standings that were seen agree on it.
LEMMA OnePassword ==
    ASSUME LocalInv, NEW c \in Calls, Unchanged(c), NEW g \in had[c], NEW h \in had[c]
    PROVE  g.password = h.password
<1> DEFINE S == {x.password : x \in had[c]}
<1>1. IsFiniteSet(S)
  <2> DEFINE f == [x \in had[c] |-> x.password]
  <2>1. f \in Surjection(had[c], S)
    BY DEF Surjection
  <2>2. IsFiniteSet(had[c])
    BY DEF LocalInv
  <2> HIDE DEF S, f
  <2> QED
    BY <2>1, <2>2, FS_Surjection
<1>2. Cardinality(S) \in Nat /\ Cardinality(S) <= 1
  BY <1>1, FS_CardinalityType DEF Unchanged
<1>3. g.password \in S /\ h.password \in S
  OBVIOUS
<1>4. S # {}
  BY <1>3
<1>5. Cardinality(S) = 1
  BY <1>1, <1>2, <1>4, FS_EmptySet
<1> HIDE DEF S
<1>6. PICK x : S = {x}
  BY <1>1, <1>5, FS_Singleton
<1> QED
  BY <1>3, <1>6

\* A login's own rehash stores the password the store holds, or nothing.
THEOREM PasswordsAreKept == Spec => LoginKeepsPasswords
<1>1. LocalInv /\ [Next]_vars =>
        [\A c \in Calls :
           call'[c] # call[c] /\ Unchanged(c) =>
              \A u \in Users : Standing(stored'[u]) = Standing(stored[u])]_vars
  <2> SUFFICES ASSUME LocalInv, Next, NEW c \in Calls, call'[c] # call[c], Unchanged(c),
                      NEW u \in Users
               PROVE  Standing(stored'[u]) = Standing(stored[u])
    OBVIOUS
  <2>1. CASE stored' = stored
    BY <2>1
  <2>2. CASE stored' # stored
    <3>1. PICK d \in Calls : UpdatePasswordHash(d)
      BY <2>2 DEF Next, Begin, FindByUsername, Equalize, Fill, Burn, Verify, Rehash,
                  Validate, Register, ChangePassword, SetActive, Changes, WithPasswordHasher
    <3>2. d = c
      BY <3>1 DEF UpdatePasswordHash, Goto, LocalInv, TypeOK
    <3> DEFINE v == call[c].user
    <3>3. /\ CallOK(c) /\ call[c].pc = "update" /\ v \in Users
          /\ stored[v] # None /\ Using(c) \in Hashers /\ call[c].password \in Passwords
          /\ call[c].seen # None /\ call[c].seen.hash.password = call[c].password
          /\ Standing(stored[v]) \subseteq had[c] /\ Standing(call[c].seen) \subseteq had[c]
      BY <3>1, <3>2 DEF UpdatePasswordHash, LocalInv, TypeOK, CallOK, Using
    <3>4. PICK h \in Hash(Using(c), call[c].password) :
            stored' = [stored EXCEPT ![v] = [stored[v] EXCEPT !.hash = h]]
      BY <2>2, <3>1, <3>2 DEF UpdatePasswordHash, Stores
    <3>5. stored[v] \in UserRecords /\ call[c].seen \in UserRecords
      BY <3>3 DEF LocalInv, TypeOK, CallState
    <3>6. h \in Hashes /\ h.password = call[c].password
      BY <3>3, HashTyped
    <3>7. stored[v].hash.password = call[c].password
      <4>1. /\ Standing(stored[v]) =
                 {[password |-> stored[v].hash.password, active |-> stored[v].active]}
            /\ Standing(call[c].seen) =
                 {[password |-> call[c].seen.hash.password, active |-> call[c].seen.active]}
        BY <3>3, <3>5, StandingTyped
      <4>2. /\ [password |-> stored[v].hash.password, active |-> stored[v].active] \in had[c]
            /\ [password |-> call[c].seen.hash.password,
                active |-> call[c].seen.active] \in had[c]
        BY <3>3, <4>1
      <4>3. [password |-> stored[v].hash.password, active |-> stored[v].active].password
              = [password |-> call[c].seen.hash.password,
                 active |-> call[c].seen.active].password
        BY <4>2, OnePassword
      <4> QED
        BY <3>3, <4>3
    <3>8. CASE u = v
      <4>1. stored'[v] = [stored[v] EXCEPT !.hash = h]
        BY <3>3, <3>4 DEF LocalInv, TypeOK
      <4>2. /\ [stored[v] EXCEPT !.hash = h] \in UserRecords
            /\ [stored[v] EXCEPT !.hash = h].hash.password = stored[v].hash.password
            /\ [stored[v] EXCEPT !.hash = h].active = stored[v].active
        BY <3>5, <3>6, <3>7 DEF UserRecords
      <4> QED
        BY <3>3, <3>5, <3>8, <4>1, <4>2, LocalLoginAssumption DEF Standing
    <3>9. CASE u # v
      BY <3>3, <3>4, <3>9 DEF LocalInv, TypeOK
    <3> QED
      BY <3>8, <3>9
  <2> QED
    BY <2>1, <2>2
<1> QED
  BY <1>1, InitLocalInv, NextLocalInv, PTL DEF Spec, LoginKeepsPasswords

\* A refusal costs one verification, of the user's hash or of the dummy, and an unknown
\* user's a hashing before it only if its login began before there was a dummy hash.
LEMMA RefusalCosts ==
    ASSUME LocalInv, Next, NEW c \in Calls, Answered(c, "refused"), ~answer'.failed,
           dummy'[call[c].by] # Empty
    PROVE  \/ answer'.spent = Price(c)
           \/ /\ call[c].seen = None /\ c \in cold
              /\ answer'.spent = <<SettingsOf(Using(c))>> \o Price(c)
<1>1. Equalize(c) \/ Fill(c) \/ Burn(c) \/ Verify(c)
  <2>1. ~Validate(c)
    BY DEF Validate, Return, Answered
  <2> QED
    BY <2>1, AnswerComes DEF Answered
<1>2. ASSUME NEW r, NEW w, NEW f, Return(c, r, w, f)
      PROVE  answer'.result = r /\ answer'.spent = spent[c] \o w /\ (f => answer'.failed)
  BY <1>2 DEF Return
<1>3. ASSUME NEW pc, NEW w, NEW f, GoesOn(c, pc, w, f) PROVE FALSE
  BY <1>3 DEF GoesOn, Goto, Answered
<1>4. CallOK(c)
  BY DEF LocalInv
<1>5. CASE Equalize(c)
  BY <1>3, <1>5 DEF Equalize
<1>6. CASE Fill(c)
  BY <1>3, <1>6 DEF Fill
<1>7. CASE Burn(c)
  <2> DEFINE w == Work(call[c].password, dummy[call[c].by])
  <2>1. Return(c, "refused", w, FALSE)
    BY <1>2, <1>7 DEF Burn
  <2>2. /\ answer'.spent = spent[c] \o w
        /\ spent[c] = <<>> \/ (c \in cold /\ spent[c] = <<SettingsOf(Using(c))>>)
    BY <1>2, <1>4, <1>7, <2>1 DEF Burn, CallOK, Using
  <2>3. /\ call[c].seen = None /\ call[c].by \in Strategies
        /\ dummy[call[c].by] = SettingsOf(hasher[call[c].by])
        /\ hasher[call[c].by] \in Hashers
    BY <1>4, <1>7 DEF Burn, CallOK, LocalInv, TypeOK
  <2>4. w \in Seq(Settings)
    BY <2>3, WorkTyped DEF Settings
  <2>5. w = Price(c)
    BY <2>3 DEF Price, Using
  <2> HIDE DEF w
  <2>6. CASE spent[c] = <<>>
    BY <2>2, <2>4, <2>5, <2>6
  <2>7. CASE c \in cold /\ spent[c] = <<SettingsOf(Using(c))>>
    BY <2>2, <2>3, <2>5, <2>7
  <2> QED
    BY <2>2, <2>6, <2>7
<1>8. CASE Verify(c)
  <2> DEFINE w == Work(call[c].password, call[c].seen.hash.made)
  <2>1. Return(c, "refused", w, FALSE)
    <3>1. \/ \E f \in BOOLEAN : Return(c, "error", <<>>, f)
          \/ Return(c, "refused", w, FALSE)
          \/ \E pc \in Steps : GoesOn(c, pc, w, FALSE)
      BY <1>8 DEF Verify, Steps
    <3>2. ASSUME NEW f \in BOOLEAN, Return(c, "error", <<>>, f) PROVE FALSE
      BY <1>2, <3>2 DEF Answered
    <3> QED
      BY <1>3, <3>1, <3>2
  <2>2. answer'.spent = <<>> \o w
    BY <1>2, <1>4, <1>8, <2>1 DEF Verify, CallOK
  <2>3. call[c].seen # None /\ call[c].seen \in UserRecords
    BY <1>4, <1>8 DEF Verify, CallOK, LocalInv, TypeOK, CallState
  <2>4. w \in Seq(Settings)
    BY <2>3, WorkTyped DEF UserRecords, Hashes
  <2>5. w = Price(c)
    BY <2>3 DEF Price
  <2> HIDE DEF w
  <2> QED
    BY <2>2, <2>4, <2>5
<1> QED
  BY <1>1, <1>5, <1>6, <1>7, <1>8

THEOREM RefusalCostIsKnown == Spec => RefusalCost
<1>1. LocalInv /\ [Next]_vars =>
        [\A c \in Calls :
           Answered(c, "refused") /\ ~answer'.failed /\ dummy'[call[c].by] # Empty =>
              \/ answer'.spent = Price(c)
              \/ /\ call[c].seen = None /\ c \in cold
                 /\ answer'.spent = <<SettingsOf(Using(c))>> \o Price(c)]_vars
  BY RefusalCosts
<1> QED
  BY <1>1, InitLocalInv, NextLocalInv, PTL DEF Spec, RefusalCost

\* "An unknown username must cost what a known one costs", where it does: refusals of a
\* strategy that had its dummy hash when they began, whose user is not known or has a
\* hash of the strategy's settings, all cost the one verification by these settings.
THEOREM WarmRefusalsCostAlike ==
    Spec => [][\A c \in Calls :
                 /\ Answered(c, "refused") /\ ~answer'.failed /\ dummy'[call[c].by] # Empty
                 /\ c \notin cold
                 /\ call[c].seen # None => call[c].seen.hash.made = SettingsOf(Using(c))
                 => answer'.spent = Work(call[c].password, SettingsOf(Using(c)))]_vars
<1> DEFINE Alike ==
      \A c \in Calls :
         /\ Answered(c, "refused") /\ ~answer'.failed /\ dummy'[call[c].by] # Empty
         /\ c \notin cold
         /\ call[c].seen # None => call[c].seen.hash.made = SettingsOf(Using(c))
         => answer'.spent = Work(call[c].password, SettingsOf(Using(c)))
<1>1. LocalInv /\ [Next]_vars => [Alike]_vars
  BY RefusalCosts DEF Price
<1> QED
  BY <1>1, InitLocalInv, NextLocalInv, PTL DEF Spec
=============================================================================
