------------------------ MODULE RequestPipeline_proofs ------------------------
(***************************************************************************)
(* Proofs about RequestPipeline, for every chain of layers, every set of   *)
(* managers and tokens: types, that a rejected credential stays rejected,  *)
(* and that whoever is served is entitled to it.                           *)
(***************************************************************************)
EXTENDS RequestPipeline, TLAPS

\* What layer j makes of the token the request came with.
Granted(j) ==
    [user |-> UserOf(j), roles |-> StringList(presented[chain[j].names]),
     permissions |-> StringList(presented[chain[j].permissions])]

\* The header is the one the request came with, until a middleware strips it.
HeaderKept ==
    /\ rejected => header = Absent
    /\ ~rejected => header = presented
    /\ arrived <= now

\* Each extension was attached by a layer that was passed, and says what that
\* layer may say.
ExtensionsVouched ==
    /\ context # None => \E j \in 1 .. at - 1 : Vouches(j) /\ context = Granted(j)
    /\ roles # None => \E j \in 1 .. at - 1 :
          \/ chain[j].kind = "jwt" /\ Vouches(j) /\ roles = Granted(j).roles
          \/ chain[j].kind = "roles" /\ roles = chain[j].roles
    /\ verified # None => \E j \in 1 .. at - 1 : chain[j].kind = "jwt" /\ Vouches(j)

\* Each layer that was passed holds.
Holds(i) ==
    /\ (chain[i].kind \in {"jwt", "strategy"} /\ chain[i].required) => Vouches(i)
    /\ chain[i].kind \in GuardKinds => GuardHolds(i)

ToldVouched ==
    answer = "served" =>
       /\ at = Len(chain) + 1
       /\ extracts => \E j \in 1 .. at - 1 : Vouches(j) /\ told = Granted(j).user

PipeInv ==
    /\ TypeOK
    /\ HeaderKept
    /\ ExtensionsVouched
    /\ \A i \in 1 .. at - 1 : Holds(i)
    /\ ToldVouched

-----------------------------------------------------------------------------
\* What a layer is worth depends only on the request and the chain.
LEMMA WorthIsFixed ==
    ASSUME UNCHANGED request, NEW j
    PROVE  /\ Vouches(j)' <=> Vouches(j)
           /\ Granted(j)' = Granted(j)
           /\ Holds(j)' <=> Holds(j)
<1>1. chain' = chain /\ presented' = presented /\ arrived' = arrived
  BY DEF request
<1>2. \A i : Vouches(i)' <=> Vouches(i)
  BY <1>1 DEF Vouches, Subject
<1>3. Granted(j)' = Granted(j)
  BY <1>1 DEF Granted, UserOf, Subject, StringList
<1>4. GuardHolds(j)' <=> GuardHolds(j)
  BY <1>1, <1>2 DEF GuardHolds, HeldBy, Satisfied, StringList
<1> QED
  BY <1>1, <1>2, <1>3, <1>4 DEF Holds

\* The layer whose turn it is, by its kind.
LEMMA LayerKinds ==
    ASSUME TypeOK, NEW l, Turn(l)
    PROVE  /\ l \in Layers /\ l = chain[at] /\ at \in 1 .. Len(chain)
           /\ Len(chain) \in Nat /\ at + 1 \in 1 .. Len(chain) + 1
           /\ l.kind = "jwt" => l \in Middlewares
           /\ l.kind = "strategy" => l \in Strategies
           /\ l.kind = "roles" => l \in RolesLayers
           /\ l.kind \in GuardKinds => l \in Guards
<1>1. Len(chain) \in Nat /\ at \in 1 .. Len(chain) /\ l = chain[at] /\ chain \in Seq(Layers)
  <2>1. chain \in Seq(Layers) /\ at \in 1 .. Len(chain) + 1
    BY DEF TypeOK
  <2>2. at <= Len(chain) /\ l = chain[at]
    BY DEF Turn
  <2>3. Len(chain) \in Nat
    BY <2>1
  <2> QED
    BY <2>1, <2>2, <2>3
<1>2. l \in Layers
  BY <1>1
<1>3. at + 1 \in 1 .. Len(chain) + 1
  BY <1>1
<1>4. /\ l \in Middlewares => l.kind = "jwt"
      /\ l \in Strategies => l.kind = "strategy"
      /\ l \in RolesLayers => l.kind = "roles"
      /\ l \in Guards => l.kind \in GuardKinds
  BY DEF Middlewares, Strategies, RolesLayers, Guards
<1> QED
  BY <1>1, <1>2, <1>3, <1>4 DEF Layers, GuardKinds

\* A bearer token is the one the request came with.
LEMMA BearerIsPresented ==
    ASSUME TypeOK, HeaderKept, Credential = "bearer"
    PROVE  ~rejected /\ header \in Tokens /\ header = presented
BY DEF TypeOK, HeaderKept, Credential, Headers

\* What the claims of a token give is a user, names and permissions.
LEMMA ContextTyped ==
    ASSUME header \in Tokens, NEW l \in Middlewares \cup Strategies,
           NEW u \in Subjects \cup {""}
    PROVE  ContextOf(l, u) \in UserContext
<1>1. header \in Token
  BY PipelineAssumption
<1>2. l.names \in {"roles", "groups"} /\ l.permissions \in {"permissions", "scope"}
  BY DEF Middlewares, Strategies
<1>3. StringList(header[l.names]) \in SUBSET Names
  BY DEF StringList
<1>4. StringList(header[l.permissions]) \in SUBSET Names
  BY DEF StringList
<1> QED
  BY <1>3, <1>4 DEF ContextOf, UserContext

\* The subject a layer reads is a subject, an empty string, or missing.
LEMMA SubjectTyped ==
    ASSUME header \in Tokens, NEW l \in Middlewares \cup Strategies
    PROVE  Subject(l, header) \in Subjects \cup {"", None}
<1>1. header \in Token
  BY PipelineAssumption
<1>2. l.subject \in {"sub", "uid"}
  BY DEF Middlewares, Strategies
<1> QED
  BY <1>1, <1>2 DEF Token, Subject

\* The clock and the arrival are instants.
LEMMA Instants ==
    ASSUME TypeOK
    PROVE  now \in 0 .. MaxTime /\ arrived \in 0 .. MaxTime /\ MaxTime \in Nat
BY PipelineAssumption DEF TypeOK

\* A token that is live now was live when the request came.
LEMMA LiveOnArrival ==
    ASSUME TypeOK, HeaderKept, header \in Tokens, NEW m, VerifyAccess(m, header)
    PROVE  arrived <= header.exp
<1>1. header.exp \in Nat
  BY PipelineAssumption DEF Token
<1>2. now <= header.exp /\ arrived <= now
  BY DEF VerifyAccess, HeaderKept
<1> QED
  BY <1>1, <1>2, Instants

-----------------------------------------------------------------------------
\* What passing a layer comes to: it holds, and each extension is the one there was,
\* or one that this layer may attach.
Passes(l) ==
    /\ at' = at + 1
    /\ UNCHANGED <<told, answer>>
    /\ Holds(at)
    /\ context' = context \/ (Vouches(at) /\ context' = Granted(at))
    /\ \/ roles' = roles
       \/ l.kind = "jwt" /\ Vouches(at) /\ roles' = Granted(at).roles
       \/ l.kind = "roles" /\ roles' = l.roles
    /\ verified' = verified \/ (l.kind = "jwt" /\ Vouches(at))

\* A layer that is passed leaves the extensions vouched for.
LEMMA PassesKeepsInv ==
    ASSUME PipeInv, NEW l, Turn(l), UNCHANGED request, Passes(l), TypeOK', HeaderKept'
    PROVE  PipeInv'
<1>1. at \in 1 .. Len(chain) /\ Len(chain) \in Nat /\ at \in Nat /\ l = chain[at] /\ chain' = chain
  BY LayerKinds DEF PipeInv, request
<1>2. at' = at + 1 /\ at' - 1 = at
  BY <1>1 DEF Passes
<1>3. \A j \in 1 .. at - 1 : j \in 1 .. at' - 1
  BY <1>1, <1>2
<1>4. at \in 1 .. at' - 1
  BY <1>1, <1>2
<1>5. (context # None => \E j \in 1 .. at - 1 : Vouches(j) /\ context = Granted(j))'
  <2>1. CASE context' = context
    BY <1>3, <2>1, WorthIsFixed DEF PipeInv, ExtensionsVouched
  <2>2. CASE Vouches(at) /\ context' = Granted(at)
    BY <1>4, <2>2, WorthIsFixed
  <2> QED
    BY <2>1, <2>2 DEF Passes
<1>6. (roles # None => \E j \in 1 .. at - 1 :
          \/ chain[j].kind = "jwt" /\ Vouches(j) /\ roles = Granted(j).roles
          \/ chain[j].kind = "roles" /\ roles = chain[j].roles)'
  <2>1. CASE roles' = roles
    <3>1. CASE roles # None
      <4>1. PICK j \in 1 .. at - 1 :
              \/ chain[j].kind = "jwt" /\ Vouches(j) /\ roles = Granted(j).roles
              \/ chain[j].kind = "roles" /\ roles = chain[j].roles
        BY <3>1 DEF PipeInv, ExtensionsVouched
      <4>2. (Vouches(j)' <=> Vouches(j)) /\ Granted(j)' = Granted(j)
        BY WorthIsFixed
      <4> QED
        BY <1>1, <1>3, <2>1, <4>1, <4>2
    <3> QED
      BY <2>1, <3>1
  <2>2. CASE l.kind = "jwt" /\ Vouches(at) /\ roles' = Granted(at).roles
    <3>1. (Vouches(at) <=> Vouches(at)) /\ Granted(at) = Granted(at)
      OBVIOUS
    <3>2. \A j : (Vouches(j)' <=> Vouches(j)) /\ Granted(j)' = Granted(j)
      BY WorthIsFixed
    <3> QED
      BY <1>1, <1>4, <2>2, <3>2
  <2>3. CASE l.kind = "roles" /\ roles' = l.roles
    BY <1>1, <1>4, <2>3
  <2> QED
    BY <2>1, <2>2, <2>3 DEF Passes
<1>7. (verified # None => \E j \in 1 .. at - 1 : chain[j].kind = "jwt" /\ Vouches(j))'
  <2>1. \A j : Vouches(j)' <=> Vouches(j)
    BY WorthIsFixed
  <2>2. CASE verified' = verified
    BY <1>1, <1>3, <2>1, <2>2 DEF PipeInv, ExtensionsVouched
  <2>3. CASE l.kind = "jwt" /\ Vouches(at)
    BY <1>1, <1>4, <2>1, <2>3
  <2> QED
    BY <2>2, <2>3 DEF Passes
<1>8. (\A i \in 1 .. at - 1 : Holds(i))'
  <2> SUFFICES ASSUME NEW i \in 1 .. at' - 1 PROVE Holds(i)'
    OBVIOUS
  <2>1. i \in 1 .. at - 1 \/ i = at
    BY <1>1, <1>2
  <2> QED
    BY <2>1, WorthIsFixed DEF PipeInv, Passes
<1>9. ToldVouched'
  BY DEF ToldVouched, Passes, Turn
<1> QED
  BY <1>5, <1>6, <1>7, <1>8, <1>9 DEF PipeInv, ExtensionsVouched

-----------------------------------------------------------------------------
\* A request that is answered, or on which only the clock moves.
LEMMA StaysKeepsInv ==
    ASSUME PipeInv, UNCHANGED <<request, extensions, at, told>>, TypeOK', HeaderKept',
           answer' = answer \/ answer' # "served"
    PROVE  PipeInv'
<1>1. \A j : (Vouches(j)' <=> Vouches(j)) /\ Granted(j)' = Granted(j) /\ (Holds(j)' <=> Holds(j))
  BY WorthIsFixed
<1>2. UNCHANGED <<chain, extracts, context, roles, verified, at, told>>
  BY DEF request, extensions
<1>3. ExtensionsVouched'
  BY <1>1, <1>2 DEF PipeInv, ExtensionsVouched
<1>4. ToldVouched'
  BY <1>1, <1>2 DEF PipeInv, ToldVouched
<1> QED
  BY <1>1, <1>2, <1>3, <1>4 DEF PipeInv

\* JwtAuthMiddleware::handle attaches only what its layer vouches for.
LEMMA HandleKeepsInv == ASSUME PipeInv, NEW l, Handle(l) PROVE PipeInv'
<1>1. /\ Turn(l) /\ l.kind = "jwt" /\ l \in Middlewares /\ l = chain[at]
      /\ at \in 1 .. Len(chain) /\ at + 1 \in 1 .. Len(chain) + 1
      /\ UNCHANGED request /\ now' = now /\ TypeOK /\ HeaderKept
  BY LayerKinds DEF Handle, PipeInv
<1>2. CASE Credential = "bearer" /\ Usable(l)
  <2>1. Attach(l) /\ Forward
    BY <1>2 DEF Handle
  <2>2. header \in Tokens /\ header = presented /\ header \in Token
    BY <1>1, <1>2, BearerIsPresented, PipelineAssumption
  <2>3. Subject(l, header) \in Subjects
    BY <1>1, <1>2, <2>2, SubjectTyped DEF Usable
  <2>4. Vouches(at)
    <3>1. arrived <= header.exp
      BY <1>1, <1>2, <2>2, LiveOnArrival DEF Usable
    <3> QED
      BY <1>1, <1>2, <2>2, <2>3, <3>1 DEF Vouches, Usable, VerifyAccess
  <2>5. context' = Granted(at)
    BY <1>1, <2>1, <2>2 DEF Attach, ContextFromToken, ContextOf, Granted, UserOf
  <2>6. context' \in UserContext
    BY <1>1, <2>1, <2>2, <2>3, ContextTyped DEF Attach, ContextFromToken
  <2>7. roles' = Granted(at).roles /\ roles' \in SUBSET Names
    BY <2>1, <2>5, <2>6 DEF Attach, UserContext
  <2>8. verified' \in Subjects
    BY <2>1, <2>3 DEF Attach, ContextFromToken, ContextOf
  <2>9. Holds(at)
    BY <1>1, <2>4 DEF Holds, GuardKinds
  <2>10. Passes(l)
    BY <1>1, <2>1, <2>4, <2>5, <2>7, <2>9 DEF Passes, Forward
  <2>11. TypeOK' /\ HeaderKept'
    BY <1>1, <2>1, <2>6, <2>7, <2>8 DEF TypeOK, HeaderKept, Attach, Forward, request
  <2> QED
    BY <1>1, <2>10, <2>11, PassesKeepsInv
<1>3. CASE ~(Credential = "bearer" /\ Usable(l)) /\ l.required
  <2>1. Answer("unauthorized") /\ UNCHANGED <<header, extensions>>
    BY <1>3 DEF Handle
  <2>2. TypeOK' /\ HeaderKept'
    BY <1>1, <2>1 DEF TypeOK, HeaderKept, Answer, request, extensions
  <2> QED
    BY <1>1, <2>1, <2>2, StaysKeepsInv DEF Answer
<1>4. CASE ~(Credential = "bearer" /\ Usable(l)) /\ ~l.required
  <2>1. Forward /\ UNCHANGED <<context, roles, verified>>
    BY <1>4 DEF Handle, StripAndFlag, extensions
  <2>2. \/ UNCHANGED <<header, rejected>>
        \/ header' = Absent /\ rejected' = TRUE
    BY <1>4 DEF Handle, StripAndFlag, extensions
  <2>3. Holds(at)
    BY <1>1, <1>4 DEF Holds, GuardKinds
  <2>4. Passes(l)
    BY <2>1, <2>3 DEF Passes, Forward
  <2>5. TypeOK' /\ HeaderKept'
    <3>1. header' \in Headers /\ rejected' \in BOOLEAN
      BY <1>1, <2>2 DEF TypeOK, Headers
    <3>2. TypeOK'
      BY <1>1, <2>1, <3>1 DEF TypeOK, Forward, request
    <3>3. HeaderKept'
      BY <1>1, <2>2 DEF HeaderKept, request
    <3> QED
      BY <3>2, <3>3
  <2> QED
    BY <1>1, <2>4, <2>5, PassesKeepsInv
<1> QED
  BY <1>2, <1>3, <1>4

\* So does a layer on JwtStrategy.
LEMMA RunStrategyKeepsInv == ASSUME PipeInv, NEW l, RunStrategy(l) PROVE PipeInv'
<1>1. /\ Turn(l) /\ l.kind = "strategy" /\ l \in Strategies /\ l = chain[at]
      /\ at \in 1 .. Len(chain) /\ at + 1 \in 1 .. Len(chain) + 1
      /\ UNCHANGED <<request, now, header, roles, verified, rejected>> /\ TypeOK /\ HeaderKept
  BY LayerKinds DEF RunStrategy, PipeInv
<1>2. CASE ExtractToken /\ VerifyAccess(l.manager, header)
  <2>1. context' = Authenticate(l) /\ Forward
    BY <1>2 DEF RunStrategy
  <2>2. header \in Tokens /\ header = presented /\ header \in Token
    BY <1>1, <1>2, BearerIsPresented, PipelineAssumption DEF ExtractToken
  <2>3. Vouches(at)
    <3>1. arrived <= header.exp
      BY <1>1, <1>2, <2>2, LiveOnArrival
    <3> QED
      BY <1>1, <1>2, <2>2, <3>1 DEF Vouches, VerifyAccess
  <2>4. context' = Granted(at)
    BY <1>1, <2>1, <2>2 DEF Authenticate, ContextOf, Granted, UserOf
  <2>5. context' \in UserContext
    <3> DEFINE u == IF Subject(l, header) = None THEN "" ELSE Subject(l, header)
    <3>1. u \in Subjects \cup {""}
      BY <1>1, <2>2, SubjectTyped
    <3> HIDE DEF u
    <3>2. ContextOf(l, u) \in UserContext
      BY <1>1, <2>2, <3>1, ContextTyped
    <3> QED
      BY <2>1, <3>2 DEF Authenticate, u
  <2>6. Holds(at)
    BY <1>1, <2>3 DEF Holds, GuardKinds
  <2>7. Passes(l)
    BY <1>1, <2>1, <2>3, <2>4, <2>6 DEF Passes, Forward
  <2>8. TypeOK' /\ HeaderKept'
    BY <1>1, <2>1, <2>5 DEF TypeOK, HeaderKept, Forward, request
  <2> QED
    BY <1>1, <2>7, <2>8, PassesKeepsInv
<1>3. CASE ~(ExtractToken /\ VerifyAccess(l.manager, header)) /\ l.required
  <2>1. Answer("unauthorized") /\ UNCHANGED context
    BY <1>3 DEF RunStrategy
  <2>2. TypeOK' /\ HeaderKept'
    BY <1>1, <2>1 DEF TypeOK, HeaderKept, Answer, request
  <2> QED
    BY <1>1, <2>1, <2>2, StaysKeepsInv DEF Answer, extensions
<1>4. CASE ~(ExtractToken /\ VerifyAccess(l.manager, header)) /\ ~l.required
  <2>1. Forward /\ UNCHANGED context
    BY <1>4 DEF RunStrategy
  <2>2. Holds(at)
    BY <1>1, <1>4 DEF Holds, GuardKinds
  <2>3. Passes(l)
    BY <1>1, <2>1, <2>2 DEF Passes, Forward
  <2>4. TypeOK' /\ HeaderKept'
    BY <1>1, <2>1 DEF TypeOK, HeaderKept, Forward, request
  <2> QED
    BY <1>1, <2>3, <2>4, PassesKeepsInv
<1> QED
  BY <1>2, <1>3, <1>4

\* Roles of the application are its own.
LEMMA AttachRolesKeepsInv == ASSUME PipeInv, NEW l, AttachRoles(l) PROVE PipeInv'
<1>1. /\ Turn(l) /\ l.kind = "roles" /\ l \in RolesLayers /\ l = chain[at]
      /\ at \in 1 .. Len(chain) /\ at + 1 \in 1 .. Len(chain) + 1
      /\ UNCHANGED <<request, now, header, context, verified, rejected>> /\ TypeOK /\ HeaderKept
      /\ roles' = l.roles /\ Forward
  BY LayerKinds DEF AttachRoles, PipeInv
<1>2. Holds(at)
  BY <1>1 DEF Holds, GuardKinds
<1>3. Passes(l)
  BY <1>1, <1>2 DEF Passes, Forward
<1>4. l.roles \in SUBSET Names
  BY <1>1 DEF RolesLayers
<1>5. TypeOK' /\ HeaderKept'
  BY <1>1, <1>4 DEF TypeOK, HeaderKept, Forward, request
<1> QED
  BY <1>1, <1>3, <1>5, PassesKeepsInv

\* What satisfies a guard in the extensions, satisfies it by a layer's word.
LEMMA AllowedHolds ==
    ASSUME PipeInv, NEW l, Turn(l), l.kind \in GuardKinds, Allows(l) = "allow"
    PROVE  GuardHolds(at)
<1>1. l = chain[at] /\ at \in 1 .. Len(chain)
  BY LayerKinds DEF PipeInv
<1>2. ASSUME NEW j \in 1 .. at - 1, Vouches(j), context = Granted(j), context # None,
             l.kind \in {"auth", "role", "permission"}
      PROVE  GuardHolds(at)
  <2>1. Satisfied(l, HeldBy(l, j))
    <3>1. CASE l.kind = "auth"
      <4>1. HeldBy(l, j) = l.need
        BY <3>1 DEF HeldBy
      <4> QED
        BY <4>1 DEF Satisfied
    <3>2. CASE l.kind = "role"
      BY <1>2, <3>2 DEF HeldBy, Granted, Allows, RoleAllows, Decision
    <3>3. CASE l.kind = "permission"
      BY <1>2, <3>3 DEF HeldBy, Granted, Allows, PermissionAllows, Decision
    <3> QED
      BY <1>2, <3>1, <3>2, <3>3
  <2> QED
    BY <1>1, <1>2, <2>1 DEF GuardHolds
<1>3. ASSUME roles # None, Satisfied(l, roles), l.kind \in {"role", "core_roles"}
      PROVE  GuardHolds(at)
  <2>1. PICK j \in 1 .. at - 1 :
          \/ chain[j].kind = "jwt" /\ Vouches(j) /\ roles = Granted(j).roles
          \/ chain[j].kind = "roles" /\ roles = chain[j].roles
    BY <1>3 DEF PipeInv, ExtensionsVouched
  <2>2. CASE chain[j].kind = "jwt" /\ Vouches(j) /\ roles = Granted(j).roles
    <3>1. Satisfied(l, HeldBy(l, j))
      BY <1>3, <2>2 DEF HeldBy, Granted
    <3> QED
      BY <1>1, <2>2, <3>1 DEF GuardHolds
  <2>3. CASE chain[j].kind = "roles" /\ roles = chain[j].roles
    BY <1>1, <1>3, <2>3 DEF GuardHolds
  <2> QED
    BY <2>1, <2>2, <2>3
<1>4. context # None => \E j \in 1 .. at - 1 : Vouches(j) /\ context = Granted(j)
  BY DEF PipeInv, ExtensionsVouched
<1>5. CASE l.kind = "auth"
  <2>1. context # None
    BY <1>5 DEF Allows, AuthAllows
  <2> QED
    BY <1>2, <1>4, <1>5, <2>1
<1>6. CASE l.kind = "role"
  <2>1. CASE context # None
    BY <1>2, <1>4, <1>6, <2>1
  <2>2. CASE context = None
    <3>1. roles # None /\ Satisfied(l, roles)
      BY <1>6, <2>2 DEF Allows, RoleAllows, Decision
    <3> QED
      BY <1>3, <1>6, <3>1
  <2> QED
    BY <2>1, <2>2
<1>7. CASE l.kind = "permission"
  <2>1. context # None
    BY <1>7 DEF Allows, PermissionAllows
  <2> QED
    BY <1>2, <1>4, <1>7, <2>1
<1>8. CASE l.kind = "core_auth"
  <2>1. verified # None
    BY <1>8 DEF Allows, CoreAuthAllows
  <2>2. PICK j \in 1 .. at - 1 : chain[j].kind = "jwt" /\ Vouches(j)
    BY <2>1 DEF PipeInv, ExtensionsVouched
  <2>3. Satisfied(l, HeldBy(l, j))
    <3>1. HeldBy(l, j) = l.need
      BY <1>8 DEF HeldBy
    <3> QED
      BY <3>1 DEF Satisfied
  <2> QED
    BY <1>1, <2>2, <2>3 DEF GuardHolds
<1>9. CASE l.kind = "core_roles"
  <2>1. roles # None /\ Satisfied(l, roles)
    BY <1>9 DEF Allows, CoreRolesAllows, Decision
  <2> QED
    BY <1>3, <1>9, <2>1
<1> QED
  BY <1>5, <1>6, <1>7, <1>8, <1>9 DEF GuardKinds

\* A guard lets a request on only if it holds.
LEMMA CanActivateKeepsInv == ASSUME PipeInv, NEW l, CanActivate(l) PROVE PipeInv'
<1>1. /\ Turn(l) /\ l.kind \in GuardKinds /\ l \in Guards /\ l = chain[at]
      /\ at \in 1 .. Len(chain) /\ at + 1 \in 1 .. Len(chain) + 1
      /\ UNCHANGED <<request, now, header, extensions>> /\ TypeOK /\ HeaderKept
  BY LayerKinds DEF CanActivate, PipeInv
<1>2. CASE Allows(l) = "allow"
  <2>1. Forward
    BY <1>2 DEF CanActivate
  <2>2. Holds(at)
    BY <1>1, <1>2, AllowedHolds DEF Holds, GuardKinds
  <2>3. Passes(l)
    BY <1>1, <2>1, <2>2 DEF Passes, Forward, extensions
  <2>4. TypeOK' /\ HeaderKept'
    BY <1>1, <2>1 DEF TypeOK, HeaderKept, Forward, request, extensions
  <2> QED
    BY <1>1, <2>3, <2>4, PassesKeepsInv
<1>3. CASE Allows(l) # "allow"
  <2>1. Answer(Allows(l))
    BY <1>3 DEF CanActivate
  <2>2. Allows(l) \in {"unauthorized", "forbidden"}
    BY <1>1, <1>3 DEF Allows, GuardKinds, AuthAllows, RoleAllows, PermissionAllows,
                      CoreAuthAllows, CoreRolesAllows, Decision
  <2>3. TypeOK' /\ HeaderKept'
    BY <1>1, <2>1, <2>2 DEF TypeOK, HeaderKept, Answer, request, extensions
  <2> QED
    BY <1>1, <2>1, <2>2, <2>3, StaysKeepsInv DEF Answer
<1> QED
  BY <1>2, <1>3

\* The handler is told the user of the context.
LEMMA ServeKeepsInv == ASSUME PipeInv, Serve PROVE PipeInv'
<1>1. /\ answer = "none" /\ at = Len(chain) + 1
      /\ UNCHANGED <<request, now, header, extensions>> /\ at' = at
      /\ TypeOK /\ HeaderKept
  BY DEF Serve, Answer, PipeInv
<1>2. \A j : (Vouches(j)' <=> Vouches(j)) /\ Granted(j)' = Granted(j) /\ (Holds(j)' <=> Holds(j))
  BY <1>1, WorthIsFixed
<1>3. UNCHANGED <<chain, extracts, context, roles, verified>>
  BY <1>1 DEF request, extensions
<1>4. HeaderKept'
  BY <1>1 DEF HeaderKept, request, extensions
<1>5. /\ told' \in Subjects \cup {"", None}
      /\ answer' \in {"served", "unauthorized"}
  BY <1>1 DEF Serve, Answer, ExtractUser, TypeOK, UserContext
<1>6. TypeOK'
  BY <1>1, <1>5 DEF TypeOK, request, extensions
<1>7. ToldVouched'
  <2> SUFFICES ASSUME answer' = "served", extracts
               PROVE  \E j \in 1 .. at - 1 : Vouches(j) /\ told' = Granted(j).user
    BY <1>1, <1>2, <1>3 DEF ToldVouched
  <2>1. context # None /\ told' = context.user
    BY DEF Serve, Answer, ExtractUser
  <2> QED
    BY <2>1 DEF PipeInv, ExtensionsVouched
<1> QED
  BY <1>1, <1>2, <1>3, <1>4, <1>6, <1>7 DEF PipeInv, ExtensionsVouched

-----------------------------------------------------------------------------
\* Before the first layer nothing is attached.
LEMMA InitPipeInv == Init => PipeInv
<1> SUFFICES ASSUME Init PROVE PipeInv
  OBVIOUS
<1>1. TypeOK
  <2>1. chain \in Seq(Layers)
    BY PipelineAssumption DEF Init
  <2>2. Len(chain) \in Nat
    BY <2>1
  <2>3. 1 \in 1 .. Len(chain) + 1
    BY <2>2
  <2> QED
    BY <2>1, <2>3, PipelineAssumption DEF Init, TypeOK
<1>2. 1 .. at - 1 = {}
  BY DEF Init
<1>3. HeaderKept
  <2>1. arrived <= now
    BY <1>1, Instants DEF Init
  <2> QED
    BY <2>1 DEF Init, HeaderKept
<1> QED
  BY <1>1, <1>2, <1>3 DEF Init, PipeInv, ExtensionsVouched, ToldVouched

\* Every step keeps the invariant.
LEMMA NextPipeInv == PipeInv /\ [Next]_vars => PipeInv'
<1> SUFFICES ASSUME PipeInv, [Next]_vars PROVE PipeInv'
  OBVIOUS
<1>1. CASE Tick
  <2>1. TypeOK' /\ HeaderKept'
    <3>1. now' \in 0 .. MaxTime /\ arrived <= now'
      BY <1>1, Instants DEF Tick, PipeInv, HeaderKept
    <3>2. UNCHANGED <<chain, extracts, presented, arrived, header, context, roles, verified,
                      rejected, at, told, answer>>
      BY <1>1 DEF Tick, request, extensions
    <3> QED
      BY <3>1, <3>2, Instants DEF PipeInv, TypeOK, HeaderKept
  <2> QED
    BY <1>1, <2>1, StaysKeepsInv DEF Tick
<1>2. CASE UNCHANGED vars
  <2>1. TypeOK' /\ HeaderKept'
    BY <1>2 DEF vars, PipeInv, TypeOK, HeaderKept, request
  <2> QED
    BY <1>2, <2>1, StaysKeepsInv DEF vars, extensions
<1> QED
  BY <1>1, <1>2, HandleKeepsInv, RunStrategyKeepsInv, AttachRolesKeepsInv, CanActivateKeepsInv,
     ServeKeepsInv DEF Next

\* The request and its extensions always have their types.
THEOREM TypeCorrect == Spec => []TypeOK
<1>1. PipeInv => TypeOK
  BY DEF PipeInv
<1> QED
  BY <1>1, InitPipeInv, NextPipeInv, PTL DEF Spec

\* Whoever reaches the handler holds, for every required layer and every guard of any
\* chain, a credential that entitles it, and is named to the handler as a layer it
\* passed vouches.
THEOREM OnlyTheEntitledAreServed == Spec => []ServedIsEntitled
<1>1. PipeInv => ServedIsEntitled
  <2> SUFFICES ASSUME PipeInv, answer = "served" PROVE ServedIsEntitled
    BY DEF ServedIsEntitled
  <2>1. chain \in Seq(Layers) /\ at = Len(chain) + 1
    BY DEF PipeInv, TypeOK, ToldVouched
  <2>2. Len(chain) \in Nat /\ DOMAIN chain = 1 .. at - 1
    BY <2>1
  <2>3. \A i \in DOMAIN chain : Holds(i)
    BY <2>2 DEF PipeInv
  <2>4. extracts => \E j \in DOMAIN chain : Vouches(j) /\ told = UserOf(j)
    BY <2>2 DEF PipeInv, ToldVouched, Granted
  <2> QED
    BY <2>3, <2>4 DEF ServedIsEntitled, Holds, PipeInv, HeaderKept
<1> QED
  BY <1>1, InitPipeInv, NextPipeInv, PTL DEF Spec

\* No layer takes an identity from a credential that a middleware rejected.
THEOREM RejectionIsFinal == Spec => RejectedStaysRejected
<1>1. PipeInv /\ [Next]_vars => [rejected => context' = context /\ verified' = verified]_vars
  <2> SUFFICES ASSUME PipeInv, [Next]_vars, rejected
               PROVE  context' = context /\ verified' = verified
    OBVIOUS
  <2>1. Credential # "bearer"
    BY BearerIsPresented DEF PipeInv
  <2> QED
    BY <2>1 DEF Next, vars, Handle, StripAndFlag, RunStrategy, ExtractToken, AttachRoles,
                CanActivate, Serve, Tick, extensions
<1> QED
  BY <1>1, InitPipeInv, NextPipeInv, PTL DEF Spec, RejectedStaysRejected
=============================================================================
