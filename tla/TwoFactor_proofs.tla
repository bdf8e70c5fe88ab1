-------------------------- MODULE TwoFactor_proofs --------------------------
(***************************************************************************)
(* Proofs about TwoFactor, for every number of logins, codes and backup    *)
(* codes, every code function and every length of the time step.           *)
(***************************************************************************)
EXTENDS TwoFactor, TLAPS

\* Time steps are counted from zero and do not go back.
LEMMA StepAtType ==
    ASSUME NEW t \in Nat
    PROVE  StepAt(t) \in Nat /\ TimeStep * StepAt(t) <= t /\ t < TimeStep * (StepAt(t) + 1)
<1>1. TimeStep \in Nat \ {0}
  BY TwoFactorAssumption
<1>2. t \div TimeStep \in Nat /\ t % TimeStep \in 0 .. TimeStep - 1
  BY <1>1, SMTT(30)
<1>3. t = TimeStep * (t \div TimeStep) + (t % TimeStep)
  BY <1>1, SMTT(30)
<1> QED
  BY <1>1, <1>2, <1>3, SMTT(30) DEF StepAt

LEMMA StepAtGrows ==
    ASSUME NEW t \in Nat, NEW u \in Nat, t <= u
    PROVE  StepAt(t) <= StepAt(u)
<1> DEFINE p == StepAt(t)
           q == StepAt(u)
<1>1. TimeStep \in Nat \ {0}
  BY TwoFactorAssumption
<1>2. p \in Nat /\ q \in Nat /\ TimeStep * p <= t /\ u < TimeStep * (q + 1)
  BY StepAtType
<1>3. SUFFICES ASSUME q < p PROVE FALSE
  BY <1>2
<1> HIDE DEF p, q
<1>4. p = q + 1 + (p - q - 1) /\ p - q - 1 \in Nat
  BY <1>2, <1>3
<1>5. TimeStep * (q + 1) <= TimeStep * p
  BY <1>1, <1>2, <1>4, SMTT(30)
<1> QED
  BY <1>1, <1>2, <1>5

\* The earliest matching step is one of those tried.
LEMMA EarliestMatch ==
    ASSUME NEW q \in Nat, NEW m, m \subseteq (q - 1 .. q + 1) \cap Nat, m # {}
    PROVE  Min(m) \in m
<1>1. \E x \in m : \A y \in m : x <= y
  <2>0. \A y \in m : y = q - 1 \/ y = q \/ y = q + 1
    OBVIOUS
  <2>1. CASE q - 1 \in m
    BY <2>0, <2>1
  <2>2. CASE q - 1 \notin m /\ q \in m
    BY <2>0, <2>2
  <2>3. CASE q - 1 \notin m /\ q \notin m
    <3>1. PICK x \in m : TRUE
      OBVIOUS
    <3> QED
      BY <2>0, <2>3, <3>1
  <2> QED
    BY <2>1, <2>2, <2>3
<1> QED
  BY <1>1 DEF Min

-----------------------------------------------------------------------------
\* The clock stays in its bound, and a login that is about to save has what it is
\* to save: a matched step is the step it saves.
TypeInv ==
    /\ TypeOK
    /\ now <= MaxTime
    /\ \A l \in Logins : login[l].pc = "save" =>
          /\ login[l].matched \in Factors
          /\ login[l].matched \notin BackupCodes => login[l].last = login[l].matched

\* The steps a verification tries are steps of the model.
LEMMA TriedSteps ==
    ASSUME TypeInv, NEW l \in Logins, Matching(l) # {}
    PROVE  /\ Min(Matching(l)) \in Matching(l)
           /\ Min(Matching(l)) \in Steps
           /\ Min(Matching(l)) <= StepAt(now) + 1
           /\ StepAt(now) <= Min(Matching(l)) + 1
<1>1. now \in Nat /\ MaxTime \in Nat /\ now <= MaxTime
  BY TwoFactorAssumption DEF TypeInv, TypeOK
<1>2. StepAt(now) \in Nat /\ StepAt(MaxTime) \in Nat /\ StepAt(now) <= StepAt(MaxTime)
  BY <1>1, StepAtType, StepAtGrows
<1>3. Matching(l) \subseteq (StepAt(now) - 1 .. StepAt(now) + 1) \cap Nat
  BY DEF Matching, Tried
<1>4. Min(Matching(l)) \in Matching(l)
  BY <1>2, <1>3, EarliestMatch
<1>5. /\ Min(Matching(l)) \in Nat
      /\ Min(Matching(l)) <= StepAt(now) + 1
      /\ StepAt(now) <= Min(Matching(l)) + 1
  BY <1>2, <1>3, <1>4
<1> QED
  BY <1>2, <1>4, <1>5 DEF Steps

\* What a login may become.
LEMMA LoginStates ==
    /\ Idle \in LoginState /\ Idle.pc = "idle" /\ Idle.last = None
    /\ \A x \in Codes \cup BackupCodes, s \in Steps \cup {None}, h \in SUBSET BackupCodes :
          [pc |-> "verify", code |-> x, last |-> s, hashes |-> h, matched |-> None] \in LoginState
    /\ \A r \in LoginState, s \in Steps :
          [r EXCEPT !.pc = "save", !.last = s, !.matched = s] \in LoginState
    /\ \A r \in LoginState, h \in SUBSET BackupCodes, x \in BackupCodes :
          [r EXCEPT !.pc = "save", !.hashes = h, !.matched = x] \in LoginState
BY DEF LoginState, Idle, Factors

\* Every step keeps the types.
LEMMA NextTypeInv == TypeInv /\ [Next]_vars => TypeInv'
<1> SUFFICES ASSUME TypeInv, [Next]_vars PROVE TypeInv'
  OBVIOUS
<1> USE TwoFactorAssumption DEF TypeInv, TypeOK
<1>1. ASSUME NEW l \in Logins, Load(l) PROVE TypeInv'
  <2>1. PICK x \in Codes \cup drawn :
          login' = [login EXCEPT ![l] = [pc |-> "verify", code |-> x, last |-> last,
                                         hashes |-> hashes, matched |-> None]]
    BY <1>1 DEF Load
  <2>2. login' \in [Logins -> LoginState]
    BY <2>1, LoginStates
  <2> QED
    BY <1>1, <2>1, <2>2 DEF Load
<1>2. ASSUME NEW l \in Logins, VerifyTotp(l) PROVE TypeInv'
  <2>1. CASE Matching(l) = {}
    BY <1>2, <2>1, LoginStates DEF VerifyTotp
  <2>2. CASE Matching(l) # {}
    <3> DEFINE s == Min(Matching(l))
    <3>1. s \in Steps
      BY <2>2, TriedSteps
    <3>2. login' = [login EXCEPT ![l] = [login[l] EXCEPT !.pc = "save", !.last = s, !.matched = s]]
      BY <1>2, <2>2 DEF VerifyTotp
    <3> HIDE DEF s
    <3>3. login' \in [Logins -> LoginState]
      BY <3>1, <3>2, LoginStates
    <3>4. login'[l].matched = s /\ login'[l].last = s
      BY <3>2 DEF LoginState
    <3>5. \A m \in Logins \ {l} : login'[m] = login[m]
      BY <3>2
    <3> QED
      BY <1>2, <3>1, <3>3, <3>4, <3>5 DEF VerifyTotp, Factors
  <2> QED
    BY <2>1, <2>2
<1>3. ASSUME NEW l \in Logins, VerifyBackup(l) PROVE TypeInv'
  <2> DEFINE x == login[l].code
             h == Without(login[l].hashes, x)
  <2>1. CASE x \notin login[l].hashes
    BY <1>3, <2>1, LoginStates DEF VerifyBackup
  <2>2. CASE x \in login[l].hashes
    <3>1. x \in BackupCodes /\ h \in SUBSET BackupCodes
      BY <1>3 DEF VerifyBackup, Without, LoginState
    <3>2. login' = [login EXCEPT ![l] =
                      [login[l] EXCEPT !.pc = "save", !.hashes = h, !.matched = x]]
      BY <1>3, <2>2 DEF VerifyBackup
    <3> HIDE DEF x, h
    <3>3. login' \in [Logins -> LoginState]
      BY <3>1, <3>2, LoginStates
    <3>4. login'[l].matched = x
      BY <3>2 DEF LoginState
    <3>5. \A m \in Logins \ {l} : login'[m] = login[m]
      BY <3>2
    <3> QED
      BY <1>3, <3>1, <3>3, <3>4, <3>5 DEF VerifyBackup, Factors
  <2> QED
    BY <2>1, <2>2
<1>4. ASSUME NEW l \in Logins, Save(l) PROVE TypeInv'
  <2>1. login' = [login EXCEPT ![l] = Idle]
    BY <1>4 DEF Save
  <2>2. login' \in [Logins -> LoginState]
    BY <2>1, LoginStates
  <2>3. last' \in Steps \cup {None} /\ hashes' \subseteq BackupCodes /\ dropped' \subseteq BackupCodes
    <3>1. login[l].last \in Steps \cup {None} /\ login[l].hashes \subseteq BackupCodes
      BY DEF LoginState
    <3>2. (Persisted(l) \/ UNCHANGED <<last, hashes>>)
          /\ dropped' \subseteq dropped \cup BackupCodes
      BY <1>4 DEF Save, SaveFails
    <3> QED
      BY <3>1, <3>2 DEF Persisted
  <2>4. uses' \in [Factors -> Nat]
    BY <1>4 DEF Save
  <2> QED
    BY <1>4, <2>1, <2>2, <2>3, <2>4, LoginStates DEF Save
<1>5. ASSUME Generate PROVE TypeInv'
  BY <1>5 DEF Generate, kSubset
<1>6. ASSUME Tick PROVE TypeInv'
  BY <1>6 DEF Tick
<1>7. ASSUME UNCHANGED vars PROVE TypeInv'
  BY <1>7 DEF vars
<1> QED
  BY <1>1, <1>2, <1>3, <1>4, <1>5, <1>6, <1>7 DEF Next

LEMMA InitTypeInv == Init => TypeInv
<1> SUFFICES ASSUME Init PROVE TypeInv
  OBVIOUS
<1>1. login \in [Logins -> LoginState] /\ \A l \in Logins : login[l].pc = "idle"
  BY LoginStates DEF Init
<1>2. now = 0 /\ 0 <= MaxTime
  BY TwoFactorAssumption DEF Init
<1>3. uses \in [Factors -> Nat]
  BY DEF Init
<1> QED
  BY <1>1, <1>2, <1>3 DEF Init, TypeInv, TypeOK

\* The variables keep the shapes the code gives them.
THEOREM TypeCorrect == Spec => []TypeOK
<1>1. TypeInv => TypeOK
  BY DEF TypeInv
<1> QED
  BY <1>1, InitTypeInv, NextTypeInv, PTL DEF Spec

-----------------------------------------------------------------------------
\* No step after the next one is on record, nor in the hands of a login that may
\* still save it.
InReach(s) == s # None => s <= StepAt(now) + 1

StepsInTime == InReach(last) /\ \A l \in Logins : InReach(login[l].last)

LEMMA NextStepsInTime == TypeInv /\ StepsInTime /\ [Next]_vars => StepsInTime'
<1> SUFFICES ASSUME TypeInv, StepsInTime, [Next]_vars PROVE StepsInTime'
  OBVIOUS
<1>t. /\ login \in [Logins -> LoginState]
      /\ now \in Nat
      /\ last \in Steps \cup {None}
      /\ Steps \subseteq Nat
  BY DEF TypeInv, TypeOK, Steps
<1>1. ASSUME NEW l \in Logins, Load(l) PROVE StepsInTime'
  BY <1>1, <1>t DEF Load, StepsInTime, InReach
<1>2. ASSUME NEW l \in Logins, VerifyTotp(l) PROVE StepsInTime'
  <2>1. login'[l].last = None \/ login'[l].last <= StepAt(now) + 1
    <3>1. CASE Matching(l) = {}
      BY <1>2, <1>t, <3>1, LoginStates DEF VerifyTotp
    <3>2. CASE Matching(l) # {}
      <4>1. login'[l].last = Min(Matching(l))
        BY <1>2, <1>t, <3>2 DEF VerifyTotp, LoginState
      <4> QED
        BY <4>1, <3>2, TriedSteps
    <3> QED
      BY <3>1, <3>2
  <2>2. \A m \in Logins \ {l} : login'[m] = login[m]
    BY <1>2, <1>t DEF VerifyTotp
  <2> QED
    BY <1>2, <2>1, <2>2 DEF VerifyTotp, StepsInTime, InReach
<1>3. ASSUME NEW l \in Logins, VerifyBackup(l) PROVE StepsInTime'
  <2>1. login'[l].last = None \/ login'[l].last = login[l].last
    <3>1. CASE login'[l] = Idle
      BY <3>1, LoginStates
    <3>2. CASE login'[l] # Idle
      <4>1. login' = [login EXCEPT ![l] =
                        [login[l] EXCEPT !.pc = "save",
                                         !.hashes = Without(login[l].hashes, login[l].code),
                                         !.matched = login[l].code]]
        BY <1>3, <1>t, <3>2 DEF VerifyBackup
      <4> QED
        BY <1>t, <4>1 DEF LoginState
    <3> QED
      BY <3>1, <3>2
  <2>2. \A m \in Logins \ {l} : login'[m] = login[m]
    BY <1>3, <1>t DEF VerifyBackup
  <2> QED
    BY <1>3, <2>1, <2>2 DEF VerifyBackup, StepsInTime, InReach
<1>4. ASSUME NEW l \in Logins, Save(l) PROVE StepsInTime'
  <2>1. last' = last \/ last' = login[l].last
    BY <1>4 DEF Save, SaveFails, Persisted
  <2>2. \A m \in Logins : login'[m].last = None \/ login'[m] = login[m]
    BY <1>4, <1>t, LoginStates DEF Save
  <2> QED
    BY <1>4, <2>1, <2>2 DEF Save, StepsInTime, InReach
<1>5. ASSUME Generate PROVE StepsInTime'
  BY <1>5 DEF Generate, StepsInTime, InReach
<1>6. ASSUME Tick PROVE StepsInTime'
  <2>1. StepAt(now) \in Nat /\ StepAt(now + 1) \in Nat /\ StepAt(now) <= StepAt(now + 1)
    BY <1>t, StepAtType, StepAtGrows
  <2>2. \A s \in Steps \cup {None} : InReach(s) => InReach(s)'
    BY <1>6, <1>t, <2>1, TwoFactorAssumption DEF Tick, InReach
  <2>3. \A l \in Logins : login[l].last \in Steps \cup {None}
    BY <1>t DEF LoginState
  <2> QED
    BY <1>6, <1>t, <2>2, <2>3 DEF Tick, StepsInTime, InReach
<1>7. ASSUME UNCHANGED vars PROVE StepsInTime'
  BY <1>7 DEF vars, StepsInTime, InReach
<1> QED
  BY <1>1, <1>2, <1>3, <1>4, <1>5, <1>6, <1>7 DEF Next

\* However the clocks of codes run ahead and saves overtake each other, the step
\* after next is never on record.
THEOREM NobodyIsLockedOut == Spec => []NotLockedOut
<1>1. Init => StepsInTime
  BY LoginStates DEF Init, StepsInTime, InReach
<1>2. StepsInTime => NotLockedOut
  BY DEF StepsInTime, InReach, NotLockedOut
<1> QED
  BY <1>1, <1>2, InitTypeInv, NextTypeInv, NextStepsInTime, PTL DEF Spec

-----------------------------------------------------------------------------
\* With the record locked one login runs at a time, on a copy that is the record.
OneLogin ==
    \A l, m \in Logins : login[l] # Idle /\ login[m] # Idle => l = m

\* What login l has verified is still on record, unused.
Verified(l) ==
    \/ /\ login[l].matched \in BackupCodes
       /\ login[l].matched \in hashes
       /\ login[l].hashes = hashes \ {login[l].matched}
    \/ /\ login[l].matched \in Steps
       /\ login[l].last = login[l].matched
       /\ Fresh(login[l].matched, last)

CopiesOfRecord ==
    \A l \in Logins :
        /\ login[l].pc = "idle" => login[l] = Idle
        /\ login[l].pc = "verify" => login[l].last = last /\ login[l].hashes = hashes
        /\ login[l].pc = "save" => Verified(l)

\* A backup code is on record until it completes a login, a step is not after the
\* last one from then on.
UsedIsRecorded ==
    /\ \A b \in BackupCodes : uses[b] = 0 \/ (uses[b] = 1 /\ b \in drawn \ hashes)
    /\ \A s \in Steps : uses[s] = 0 \/ (uses[s] = 1 /\ ~Fresh(s, last))

LockInv ==
    /\ TypeInv
    /\ setting.locked => /\ OneLogin
                         /\ CopiesOfRecord
                         /\ hashes \subseteq drawn
                         /\ UsedIsRecorded
                         /\ PrintedCodesWork

\* Facts about the types that the steps below share.
LEMMA Types ==
    ASSUME TypeInv
    PROVE  /\ login \in [Logins -> LoginState]
           /\ last \in Steps \cup {None} /\ Steps \subseteq Nat /\ None \notin Nat
           /\ hashes \subseteq BackupCodes /\ drawn \subseteq BackupCodes /\ printed \subseteq drawn
           /\ uses \in [Factors -> Nat] /\ Factors = Steps \cup BackupCodes
           /\ BackupCodes \cap Steps = {} /\ None \notin Steps \cup BackupCodes
           /\ now \in Nat
<1>1. Steps \subseteq Nat
  BY DEF Steps
<1> QED
  BY <1>1, TwoFactorAssumption DEF TypeInv, TypeOK, Factors

LEMMA InitLockInv == Init => LockInv
<1> SUFFICES ASSUME Init PROVE LockInv
  OBVIOUS
<1>1. TypeInv
  BY InitTypeInv
<1>2. \A l \in Logins : login[l] = Idle
  BY DEF Init
<1>3. \A f \in Factors : uses[f] = 0
  BY DEF Init
<1> QED
  BY <1>1, <1>2, <1>3, LoginStates
     DEF Init, LockInv, OneLogin, CopiesOfRecord, UsedIsRecorded, PrintedCodesWork, Factors

\* What a save with the record locked may do: it records what the login verified,
\* or changes nothing.
LEMMA SaveStep ==
    ASSUME LockInv, setting.locked, NEW l \in Logins, Save(l)
    PROVE  /\ \A m \in Logins : login[m] = Idle \/ m = l
           /\ \A m \in Logins : login'[m] = Idle
           /\ \/ /\ UNCHANGED <<last, hashes, uses, dropped>>
              \/ /\ login[l].matched \in hashes
                 /\ hashes' = hashes \ {login[l].matched}
                 /\ UNCHANGED last
                 /\ \/ /\ uses' = [uses EXCEPT ![login[l].matched] = @ + 1]
                       /\ UNCHANGED dropped
                    \/ /\ UNCHANGED uses
                       /\ dropped' = dropped \cup {login[l].matched}
              \/ /\ login[l].matched \in Steps
                 /\ Fresh(login[l].matched, last)
                 /\ last' = login[l].matched
                 /\ UNCHANGED <<hashes, dropped>>
                 /\ \/ uses' = [uses EXCEPT ![login[l].matched] = @ + 1]
                    \/ UNCHANGED uses
<1> DEFINE x == login[l].matched
<1>t. /\ login \in [Logins -> LoginState]
      /\ BackupCodes \cap Steps = {}
      /\ hashes \subseteq BackupCodes
  BY Types DEF LockInv
<1>1. login[l].pc = "save" /\ login' = [login EXCEPT ![l] = Idle]
  BY DEF Save
<1>2. login[l] # Idle
  BY <1>1, LoginStates
<1>3. \A m \in Logins : login[m] = Idle \/ m = l
  BY <1>2 DEF LockInv, OneLogin
<1>4. \A m \in Logins : login'[m] = Idle
  BY <1>t, <1>1, <1>3
<1>5. Verified(l)
  BY <1>1 DEF LockInv, CopiesOfRecord
<1>6. \/ Persisted(l) /\ uses' = [uses EXCEPT ![x] = @ + 1] /\ UNCHANGED dropped
      \/ Persisted(l) /\ dropped' = dropped \cup ({x} \cap BackupCodes) /\ UNCHANGED uses
      \/ UNCHANGED <<last, hashes, dropped, uses>>
  BY DEF Save, SaveFails
<1>7. CASE x \in BackupCodes
  <2>1. x \in hashes /\ login[l].hashes = hashes \ {x}
    BY <1>t, <1>5, <1>7 DEF Verified
  <2>2. Persisted(l) => hashes' = hashes \ {x} /\ UNCHANGED last
    BY <1>7, <2>1 DEF Persisted
  <2> QED
    BY <1>3, <1>4, <1>6, <1>7, <2>1, <2>2
<1>8. CASE x \notin BackupCodes
  <2>1. x \in Steps /\ login[l].last = x /\ Fresh(x, last)
    BY <1>5, <1>8 DEF Verified
  <2>2. Persisted(l) => last' = x /\ UNCHANGED hashes
    BY <1>8, <2>1 DEF Persisted
  <2>3. {x} \cap BackupCodes = {}
    BY <1>8
  <2> QED
    BY <1>3, <1>4, <1>6, <2>1, <2>2, <2>3
<1> QED
  BY <1>7, <1>8

\* Every step keeps the invariant, as long as the record is locked.
LEMMA NextLockInv == LockInv /\ [Next]_vars => LockInv'
<1> SUFFICES ASSUME LockInv, [Next]_vars PROVE LockInv'
  OBVIOUS
<1>0. TypeInv' /\ setting' = setting
  BY NextTypeInv DEF LockInv, Next, vars, Load, VerifyTotp, VerifyBackup, Save, Generate, Tick
<1> SUFFICES ASSUME setting.locked
             PROVE  OneLogin' /\ CopiesOfRecord' /\ hashes' \subseteq drawn'
                    /\ UsedIsRecorded' /\ PrintedCodesWork'
  BY <1>0 DEF LockInv
<1>t. /\ login \in [Logins -> LoginState]
      /\ hashes \subseteq BackupCodes
      /\ uses \in [Factors -> Nat] /\ Factors = Steps \cup BackupCodes
      /\ BackupCodes \cap Steps = {} /\ None \notin Steps \cup BackupCodes
      /\ last \in Steps \cup {None} /\ Steps \subseteq Nat
      /\ printed \subseteq drawn /\ drawn \subseteq BackupCodes
  BY Types DEF LockInv
<1>i. /\ OneLogin /\ CopiesOfRecord /\ hashes \subseteq drawn
      /\ UsedIsRecorded /\ PrintedCodesWork
  BY DEF LockInv
<1>1. ASSUME NEW l \in Logins, Load(l)
      PROVE  OneLogin' /\ CopiesOfRecord' /\ UNCHANGED <<setting, last, hashes, drawn, uses, printed, dropped>>
  <2>1. \A m \in Logins : login[m] = Idle
    BY <1>1 DEF Load, Available
  <2>2. /\ \A m \in Logins \ {l} : login'[m] = Idle
        /\ login'[l].pc = "verify" /\ login'[l].last = last /\ login'[l].hashes = hashes
    BY <1>1, <1>t, <2>1 DEF Load
  <2> QED
    BY <1>1, <2>2, LoginStates DEF Load, OneLogin, CopiesOfRecord
<1>2. ASSUME NEW l \in Logins, VerifyTotp(l)
      PROVE  OneLogin' /\ CopiesOfRecord' /\ UNCHANGED <<setting, last, hashes, drawn, uses, printed, dropped>>
  <2>1. login[l] # Idle /\ login[l].last = last
    BY <1>2, <1>i, LoginStates DEF VerifyTotp, CopiesOfRecord
  <2>2. \A m \in Logins \ {l} : login'[m] = Idle
    BY <1>2, <1>t, <1>i, <2>1 DEF VerifyTotp, OneLogin
  <2>3. UNCHANGED <<setting, last, hashes, drawn, uses, printed, dropped>>
    BY <1>2 DEF VerifyTotp
  <2>4. CASE Matching(l) = {}
    BY <1>2, <1>t, <2>2, <2>3, <2>4, LoginStates DEF VerifyTotp, OneLogin, CopiesOfRecord
  <2>5. CASE Matching(l) # {}
    <3> DEFINE s == Min(Matching(l))
    <3>1. s \in Matching(l) /\ s \in Steps
      BY <2>5, TriedSteps DEF LockInv
    <3>2. Fresh(s, last)
      BY <2>1, <3>1 DEF Matching
    <3>3. login'[l].pc = "save" /\ login'[l].last = s /\ login'[l].matched = s
      BY <1>2, <1>t, <2>5 DEF VerifyTotp, LoginState
    <3> HIDE DEF s
    <3>4. Verified(l)'
      BY <2>3, <3>1, <3>2, <3>3 DEF Verified, Fresh
    <3> QED
      BY <2>2, <2>3, <3>3, <3>4, LoginStates DEF OneLogin, CopiesOfRecord
  <2> QED
    BY <2>4, <2>5
<1>3. ASSUME NEW l \in Logins, VerifyBackup(l)
      PROVE  OneLogin' /\ CopiesOfRecord' /\ UNCHANGED <<setting, last, hashes, drawn, uses, printed, dropped>>
  <2>1. login[l] # Idle /\ login[l].hashes = hashes
    BY <1>3, <1>i, LoginStates DEF VerifyBackup, CopiesOfRecord
  <2>2. \A m \in Logins \ {l} : login'[m] = Idle
    BY <1>3, <1>t, <1>i, <2>1 DEF VerifyBackup, OneLogin
  <2>3. UNCHANGED <<setting, last, hashes, drawn, uses, printed, dropped>>
    BY <1>3 DEF VerifyBackup
  <2>4. CASE login[l].code \notin hashes
    BY <1>3, <1>t, <2>1, <2>2, <2>3, <2>4, LoginStates DEF VerifyBackup, OneLogin, CopiesOfRecord
  <2>5. CASE login[l].code \in hashes
    <3> DEFINE x == login[l].code
    <3>1. login' = [login EXCEPT ![l] =
                      [login[l] EXCEPT !.pc = "save", !.matched = x, !.hashes = hashes \ {x}]]
      BY <1>3, <2>1, <2>5 DEF VerifyBackup, Without
    <3>2. x \in hashes /\ x \in BackupCodes
      BY <1>3, <2>5 DEF VerifyBackup
    <3> HIDE DEF x
    <3>3. login'[l].pc = "save" /\ login'[l].matched = x /\ login'[l].hashes = hashes \ {x}
      BY <1>t, <3>1 DEF LoginState
    <3>4. Verified(l)'
      BY <2>3, <3>2, <3>3 DEF Verified
    <3> QED
      BY <2>2, <2>3, <3>3, <3>4, LoginStates DEF OneLogin, CopiesOfRecord
  <2> QED
    BY <2>4, <2>5
<1>q. ASSUME UNCHANGED <<setting, last, hashes, drawn, uses, printed, dropped>>
      PROVE  hashes' \subseteq drawn' /\ UsedIsRecorded' /\ PrintedCodesWork'
  BY <1>i, <1>q DEF UsedIsRecorded, PrintedCodesWork, Fresh
<1>4. ASSUME NEW l \in Logins, Save(l)
      PROVE  OneLogin' /\ CopiesOfRecord' /\ hashes' \subseteq drawn'
             /\ UsedIsRecorded' /\ PrintedCodesWork'
  <2> DEFINE x == login[l].matched
  <2>0. UNCHANGED <<setting, printed, drawn>>
    BY <1>4 DEF Save
  <2>1. OneLogin' /\ CopiesOfRecord'
    BY <1>4, SaveStep, LoginStates DEF OneLogin, CopiesOfRecord
  <2>2. CASE UNCHANGED <<last, hashes, uses, dropped>>
    BY <1>q, <2>0, <2>1, <2>2
  <2>3. CASE /\ x \in hashes
             /\ hashes' = hashes \ {x}
             /\ UNCHANGED last
             /\ \/ uses' = [uses EXCEPT ![x] = @ + 1] /\ UNCHANGED dropped
                \/ UNCHANGED uses /\ dropped' = dropped \cup {x}
    <3>1. uses[x] = 0 /\ x \in Factors /\ x \in drawn
      BY <1>t, <1>i, <2>3 DEF UsedIsRecorded
    <3>2. \/ uses'[x] = 1 /\ dropped' = dropped
          \/ uses'[x] = 0 /\ x \in dropped' /\ dropped \subseteq dropped'
      BY <1>t, <2>3, <3>1
    <3>3. \A f \in Factors \ {x} : uses'[f] = uses[f]
      BY <1>t, <2>3
    <3> QED
      BY <1>t, <1>i, <2>0, <2>1, <2>3, <3>1, <3>2, <3>3 DEF UsedIsRecorded, PrintedCodesWork, Fresh
  <2>4. CASE /\ x \in Steps
             /\ Fresh(x, last)
             /\ last' = x
             /\ UNCHANGED <<hashes, dropped>>
             /\ \/ uses' = [uses EXCEPT ![x] = @ + 1]
                \/ UNCHANGED uses
    <3>1. uses[x] = 0 /\ x \in Factors /\ x \notin BackupCodes
      BY <1>t, <1>i, <2>4 DEF UsedIsRecorded
    <3>2. uses'[x] \in {0, 1} /\ \A f \in Factors \ {x} : uses'[f] = uses[f]
      BY <1>t, <2>4, <3>1
    <3>a. /\ last' = x /\ x \in Nat /\ x # None
          /\ last = None \/ (last \in Nat /\ x > last)
      BY <1>t, <2>4 DEF Fresh
    <3>b. \A s \in Steps : s \in Nat
      BY <1>t
    <3> HIDE DEF x
    <3>3. \A s \in Steps : ~Fresh(s, last) => ~Fresh(s, last')
      BY <3>a, <3>b DEF Fresh
    <3>4. ~Fresh(x, last')
      BY <3>a DEF Fresh
    <3>5. \A s \in Steps : uses'[s] = 0 \/ (uses'[s] = 1 /\ ~Fresh(s, last'))
      BY <1>t, <1>i, <3>1, <3>2, <3>3, <3>4 DEF UsedIsRecorded
    <3>6. \A b \in BackupCodes : uses'[b] = uses[b]
      BY <1>t, <3>1, <3>2
    <3>7. UsedIsRecorded'
      BY <1>i, <2>0, <2>4, <3>5, <3>6 DEF UsedIsRecorded, Fresh
    <3>8. PrintedCodesWork'
      BY <1>t, <1>i, <2>0, <2>4, <3>6 DEF PrintedCodesWork
    <3> QED
      BY <1>i, <2>0, <2>1, <2>4, <3>7, <3>8
  <2> QED
    BY <1>4, <2>2, <2>3, <2>4, SaveStep
<1>5. ASSUME Generate
      PROVE  OneLogin' /\ CopiesOfRecord' /\ hashes' \subseteq drawn'
             /\ UsedIsRecorded' /\ PrintedCodesWork'
  <2>1. \A m \in Logins : login[m] = Idle
    BY <1>5 DEF Generate, Available
  <2>2. PICK new \in SUBSET (setting.codes \ drawn) :
          hashes' = new /\ printed' = new /\ drawn' = drawn \cup new
    BY <1>5 DEF Generate, kSubset
  <2>3. UNCHANGED <<setting, last, login, uses, dropped>>
    BY <1>5 DEF Generate
  <2>4. UsedIsRecorded'
    BY <1>i, <2>2, <2>3 DEF UsedIsRecorded, Fresh
  <2> QED
    BY <1>i, <2>1, <2>2, <2>3, <2>4, LoginStates DEF OneLogin, CopiesOfRecord, PrintedCodesWork
<1>6. ASSUME Tick \/ UNCHANGED vars
      PROVE  OneLogin' /\ CopiesOfRecord' /\ UNCHANGED <<setting, last, hashes, drawn, uses, printed, dropped>>
  BY <1>i, <1>6 DEF Tick, vars, OneLogin, CopiesOfRecord, Verified, Fresh
<1> QED
  BY <1>1, <1>2, <1>3, <1>q, <1>4, <1>5, <1>6 DEF Next

\* With the record locked, no login costs the user a printed code but its own.
THEOREM PrintedCodesKeepWorking == Spec => []PrintedCodesWork
<1>1. LockInv => PrintedCodesWork
  BY DEF LockInv, PrintedCodesWork
<1> QED
  BY <1>1, InitLockInv, NextLockInv, PTL DEF Spec

-----------------------------------------------------------------------------
Voided(f) == IF f \in BackupCodes THEN Gone(f) ELSE Spent(f)

\* A backup code that is gone stays gone; a step that is spent stays spent.
LEMMA GoneStays ==
    ASSUME LockInv, setting.locked, [Next]_vars, NEW b \in BackupCodes, Gone(b)
    PROVE  Gone(b)'
<1>1. drawn \subseteq drawn' /\ \A x \in hashes' : x \in hashes \/ x \notin drawn
  <2>1. ASSUME NEW l \in Logins, Save(l) PROVE hashes' \subseteq hashes /\ drawn' = drawn
    BY <2>1, SaveStep DEF Save
  <2>2. ASSUME Generate
        PROVE  drawn \subseteq drawn' /\ \A x \in hashes' : x \in hashes \/ x \notin drawn
    BY <2>2 DEF Generate, kSubset
  <2> QED
    BY <2>1, <2>2 DEF Next, vars, Load, VerifyTotp, VerifyBackup, Tick
<1> QED
  BY <1>1 DEF Gone

LEMMA SpentStays ==
    ASSUME LockInv, setting.locked, [Next]_vars, NEW s \in Steps, Spent(s)
    PROVE  Spent(s)'
<1>t. /\ login \in [Logins -> LoginState]
      /\ last \in Steps \cup {None} /\ Steps \subseteq Nat /\ None \notin Nat
      /\ BackupCodes \cap Steps = {}
      /\ now \in Nat /\ TypeInv
  BY Types DEF LockInv
<1>1. CASE last # None /\ s <= last
  <2>1. last' = last \/ (last' \in Steps /\ Fresh(last', last))
    <3>1. ASSUME NEW l \in Logins, Save(l)
          PROVE  last' = last \/ (last' \in Steps /\ Fresh(last', last))
      BY <3>1, SaveStep
    <3> QED
      BY <3>1 DEF Next, vars, Load, VerifyTotp, VerifyBackup, Generate, Tick
  <2>2. last' = last \/ (last' \in Nat /\ last' > last)
    BY <1>t, <1>1, <2>1 DEF Fresh
  <2>3. last \in Nat /\ s \in Nat
    BY <1>t, <1>1
  <2> QED
    BY <1>t, <1>1, <2>2, <2>3 DEF Spent
<1>2. CASE s + 1 < StepAt(now) /\ ~Pending(s)
  <2>1. now' \in Nat /\ StepAt(now) \in Nat /\ StepAt(now') \in Nat /\ StepAt(now) <= StepAt(now')
    <3>1. now' = now \/ now' = now + 1
      BY DEF Next, vars, Load, VerifyTotp, VerifyBackup, Save, Generate, Tick
    <3>2. now' \in Nat /\ now <= now'
      BY <1>t, <3>1
    <3> QED
      BY <1>t, <3>2, StepAtType, StepAtGrows
  <2>2. s + 1 < StepAt(now')
    BY <1>t, <1>2, <2>1
  <2>3. ASSUME NEW l \in Logins, login'[l].pc = "save", login'[l].matched = s
        PROVE  FALSE
    <3>1. login'[l] # login[l]
      BY <1>2, <2>3 DEF Pending
    <3>2. login'[l] # Idle
      BY <2>3, LoginStates
    <3>3. CASE \E m \in Logins : Load(m)
      <4>1. login'[l] = login[l] \/ login'[l].pc = "verify"
        BY <1>t, <3>3 DEF Load
      <4> QED
        BY <2>3, <3>1, <4>1
    <3>4. CASE \E m \in Logins : VerifyTotp(m)
      <4>1. VerifyTotp(l)
        BY <1>t, <3>1, <3>4 DEF VerifyTotp
      <4>2. Matching(l) # {}
        BY <1>t, <3>2, <4>1 DEF VerifyTotp
      <4>3. login'[l].matched = Min(Matching(l))
        BY <1>t, <4>1, <4>2 DEF VerifyTotp, LoginState
      <4>4. StepAt(now) <= s + 1
        BY <1>t, <2>3, <4>2, <4>3, TriedSteps
      <4> QED
        BY <1>t, <1>2, <2>1, <4>4
    <3>5. CASE \E m \in Logins : VerifyBackup(m)
      <4>1. VerifyBackup(l)
        BY <1>t, <3>1, <3>5 DEF VerifyBackup
      <4>2. login' = [login EXCEPT ![l] =
                        [login[l] EXCEPT !.pc = "save", !.matched = login[l].code,
                                         !.hashes = Without(login[l].hashes, login[l].code)]]
        BY <1>t, <3>2, <4>1 DEF VerifyBackup
      <4>3. login'[l].matched = login[l].code /\ login[l].code \in BackupCodes
        BY <1>t, <4>1, <4>2 DEF VerifyBackup, LoginState
      <4> QED
        BY <1>t, <2>3, <4>3
    <3>6. CASE \E m \in Logins : Save(m)
      BY <3>2, <3>6, SaveStep
    <3> QED
      BY <3>1, <3>3, <3>4, <3>5, <3>6 DEF Next, vars, Generate, Tick
  <2>4. ~Pending(s)'
    BY <2>3 DEF Pending
  <2> QED
    BY <2>2, <2>4 DEF Spent
<1> QED
  BY <1>1, <1>2 DEF Spent

LEMMA VoidedStays ==
    ASSUME LockInv, setting.locked, [Next]_vars, NEW f \in Factors, Voided(f)
    PROVE  Voided(f)'
BY GoneStays, SpentStays DEF Voided, Factors

\* Only a save of a verified factor that was never used and is not void counts a use.
LEMMA UseIsGrant ==
    ASSUME LockInv, setting.locked, [Next]_vars, uses' # uses
    PROVE  \E f \in Factors : uses[f] = 0 /\ ~Voided(f) /\ uses' = [uses EXCEPT ![f] = 1]
<1>t. /\ login \in [Logins -> LoginState]
      /\ last \in Steps \cup {None} /\ Steps \subseteq Nat /\ None \notin Nat
      /\ hashes \subseteq BackupCodes /\ Factors = Steps \cup BackupCodes
      /\ BackupCodes \cap Steps = {}
      /\ UsedIsRecorded
  BY Types DEF LockInv
<1>1. PICK l \in Logins : Save(l)
  BY DEF Next, vars, Load, VerifyTotp, VerifyBackup, Generate, Tick
<1> DEFINE x == login[l].matched
<1>2. uses' = [uses EXCEPT ![x] = @ + 1]
  BY <1>1, SaveStep
<1>3. login[l].pc = "save"
  BY <1>1 DEF Save
<1>4. (x \in hashes) \/ (x \in Steps /\ Fresh(x, last))
  BY <1>1, SaveStep
<1>5. x \in Factors /\ uses[x] = 0
  BY <1>t, <1>4 DEF UsedIsRecorded
<1>6. uses' = [uses EXCEPT ![x] = 1]
  <2>1. uses[x] + 1 = 1
    BY <1>5
  <2> QED
    BY <1>2, <2>1
<1>7. ~Voided(x)
  <2>1. CASE x \in BackupCodes
    BY <1>t, <1>4, <2>1 DEF Voided, Gone
  <2>2. CASE x \notin BackupCodes
    <3>1. x \in Nat /\ (last = None \/ (last \in Nat /\ x > last))
      BY <1>t, <1>4, <2>2 DEF Fresh
    <3>2. Pending(x)
      BY <1>3 DEF Pending
    <3> HIDE DEF x
    <3> QED
      BY <2>2, <3>1, <3>2 DEF Voided, Spent
  <2> QED
    BY <2>1, <2>2
<1> QED
  BY <1>5, <1>6, <1>7

\* The second factor implements OneTime for callers that lock the record.
THEOREM SecondFactorIsOneTime == Spec => ImplementsOneTime
<1>1. Init => Promise!Init
  <2> SUFFICES ASSUME Init PROVE Promise!Init
    OBVIOUS
  <2>1. now = 0 /\ last = None /\ drawn = {} /\ uses = [f \in Factors |-> 0]
    BY DEF Init
  <2>2. StepAt(0) \in Nat /\ TimeStep * StepAt(0) <= 0 /\ TimeStep \in Nat \ {0}
    BY StepAtType, TwoFactorAssumption
  <2>3. StepAt(0) = 0
    BY <2>2, SMTT(30)
  <2>4. \A f \in Factors : ~Voided(f)
    BY <2>1, <2>3 DEF Voided, Gone, Spent, Factors, Steps
  <2> QED
    BY <2>1, <2>4 DEF Promise!Init, Voided
<1>2. LockInv /\ [Next]_vars => [Promise!Next]_(Promise!oneTimeVars)
  <2> SUFFICES ASSUME LockInv, [Next]_vars PROVE [Promise!Next]_(Promise!oneTimeVars)
    OBVIOUS
  <2>0. setting' = setting
    BY DEF Next, vars, Load, VerifyTotp, VerifyBackup, Save, Generate, Tick
  <2>1. CASE ~setting.locked
    BY <2>0, <2>1 DEF Promise!oneTimeVars
  <2>2. CASE setting.locked
    <3>1. \A f \in Factors : Voided(f) => Voided(f)'
      BY <2>2, VoidedStays
    <3>2. CASE uses' = uses
      <4>1. {f \in Factors : setting.locked /\ uses[f] = 0 /\ Voided(f)}
              \subseteq {f \in Factors : setting'.locked /\ uses'[f] = 0 /\ Voided(f)'}
        BY <2>0, <3>1, <3>2
      <4> QED
        BY <2>0, <2>2, <3>2, <4>1 DEF Promise!Next, Promise!Void, Promise!VoidGrows, Voided
    <3>3. CASE uses' # uses
      <4>1. PICK x \in Factors : uses[x] = 0 /\ ~Voided(x) /\ uses' = [uses EXCEPT ![x] = 1]
        BY <2>2, <3>3, UseIsGrant
      <4>2. \A f \in Factors : Voided(f) => uses'[f] = uses[f]
        BY <4>1
      <4>3. {f \in Factors : setting.locked /\ uses[f] = 0 /\ Voided(f)}
              \subseteq {f \in Factors : setting'.locked /\ uses'[f] = 0 /\ Voided(f)'}
        BY <2>0, <3>1, <4>2
      <4>4. Promise!VoidGrows
        BY <2>0, <2>2, <4>3 DEF Promise!VoidGrows, Voided
      <4>5. Promise!Grant(x)
        BY <2>0, <2>2, <4>1, <4>4 DEF Promise!Grant, Voided
      <4> QED
        BY <4>5 DEF Promise!Next
    <3> QED
      BY <3>2, <3>3
  <2> QED
    BY <2>1, <2>2
<1> QED
  BY <1>1, <1>2, InitLockInv, NextLockInv, PTL DEF Spec, ImplementsOneTime, Promise!Spec

\* So, with the record locked, no step and no backup code completes two logins; a code
\* completes one for each of the steps it belongs to at most.
THEOREM FactorsLogInOnce == Spec => []Promise!AtMostOnce
<1> DEFINE granted == IF setting.locked THEN uses ELSE [f \in Factors |-> 0]
           Once == granted \in [Factors -> {0, 1}]
<1>1. Promise!Init => Once
  BY DEF Promise!Init
<1>2. Once /\ [Promise!Next]_(Promise!oneTimeVars) => Once'
  <2> SUFFICES ASSUME Once, [Promise!Next]_(Promise!oneTimeVars) PROVE Once'
    OBVIOUS
  <2>1. CASE UNCHANGED granted
    BY <2>1
  <2>2. ASSUME NEW f \in Factors, Promise!Grant(f) PROVE Once'
    <3>1. granted' = [granted EXCEPT ![f] = 1]
      BY <2>2 DEF Promise!Grant
    <3> HIDE DEF granted
    <3> QED
      BY <3>1
  <2> QED
    BY <2>1, <2>2 DEF Promise!Next, Promise!Void, Promise!oneTimeVars
<1>3. Once => Promise!AtMostOnce
  BY DEF Promise!AtMostOnce
<1> QED
  BY <1>1, <1>2, <1>3, SecondFactorIsOneTime, PTL DEF ImplementsOneTime, Promise!Spec
=============================================================================
