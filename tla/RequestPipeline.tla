-------------------------- MODULE RequestPipeline --------------------------
(***************************************************************************)
(* One request on its way through an application's layers                  *)
(* (src/middleware.rs, src/guard.rs, src/strategy.rs, src/user.rs): JWT    *)
(* middlewares of several token managers, in required or optional mode,    *)
(* layers of the application built on JwtStrategy, and guards, in any      *)
(* order the application registers them.  They know of each other only     *)
(* through the request: its Authorization header and its extensions.       *)
(*                                                                         *)
(* The JwtManager (armature-jwt), the routing and the guards of            *)
(* armature-core are external.  A claim that is a list is the set of its   *)
(* items, of which some are no strings; a single string is the list of it. *)
(***************************************************************************)
EXTENDS Integers, Sequences

CONSTANTS
    Managers,   \* JWT managers, and with them the keys that sign tokens
    Subjects,   \* nonempty subjects
    Names,      \* roles and permissions
    NotAString, \* an item of a claim that is no string
    Tokens,     \* tokens that may be presented
    Chains,     \* the layers of applications, outermost first
    Absent, Repeated, Unusable,  \* no Authorization header; several; one without a
                \* bearer token (another scheme, no UTF-8, empty)
    None,
    MaxTime     \* bound on the clock

\* A token and how it is presented: the scheme is read with or without its case.
Claim == SUBSET (Names \cup {NotAString})
Token == [scheme : {"Bearer", "bearer"}, key : Managers, use : {"access", "refresh"}, exp : Nat,
          sub : Subjects \cup {"", None}, uid : Subjects \cup {"", None},
          roles : Claim, groups : Claim, permissions : Claim, scope : Claim]

\* JwtAuthMiddleware with the claims it reads; layers of the application that run
\* JwtStrategy or attach RequestRoles of their own; guards with what they require.
Middlewares == [kind : {"jwt"}, manager : Managers, required : BOOLEAN, subject : {"sub", "uid"},
                names : {"roles", "groups"}, permissions : {"permissions", "scope"}]
Strategies == [kind : {"strategy"}, manager : Managers, required : BOOLEAN, subject : {"sub"},
               names : {"roles"}, permissions : {"permissions"}]
RolesLayers == [kind : {"roles"}, roles : SUBSET Names]
GuardKinds == {"auth", "role", "permission", "core_auth", "core_roles"}
Guards == [kind : GuardKinds, need : SUBSET Names, all : BOOLEAN]
Layers == Middlewares \cup Strategies \cup RolesLayers \cup Guards

ASSUME PipelineAssumption ==
    /\ Tokens \subseteq Token
    /\ Chains \subseteq Seq(Layers)
    /\ MaxTime \in Nat
    /\ NotAString \notin Names
    /\ None \notin Subjects \cup {""}
    /\ {Absent, Repeated, Unusable} \cap Tokens = {}
    /\ Absent \notin {Repeated, Unusable}

VARIABLES
    chain,      \* the layers of this application
    extracts,   \* the handler asks AuthGuard::extract_user who the user is
    presented,  \* history: the Authorization header the request came with
    arrived,    \* history: when it came
    now,        \* the clock
    header,     \* the Authorization header
    context,    \* extension UserContext
    roles,      \* extension RequestRoles
    verified,   \* extension VerifiedIdentity
    rejected,   \* extension RejectedCredentials
    at,         \* the layer whose turn it is
    told,       \* the user the handler was told
    answer      \* "none", "served" by the handler, "unauthorized" or "forbidden"

request == <<chain, extracts, presented, arrived>>
vars == <<request, now, header, context, roles, verified, rejected, at, told, answer>>
extensions == <<context, roles, verified, rejected>>

Headers == {Absent, Repeated, Unusable} \cup Tokens
UserContext == [user : Subjects \cup {""}, roles : SUBSET Names, permissions : SUBSET Names]

Init ==
    /\ chain \in Chains
    /\ extracts \in BOOLEAN
    /\ presented \in Headers
    /\ arrived \in 0 .. MaxTime
    /\ now = arrived
    /\ header = presented
    /\ context = None
    /\ roles = None
    /\ verified = None
    /\ rejected = FALSE
    /\ at = 1
    /\ told = None
    /\ answer = "none"

-----------------------------------------------------------------------------
\* Layer l is running the request.
Turn(l) == answer = "none" /\ at <= Len(chain) /\ l = chain[at]

Forward == at' = at + 1 /\ UNCHANGED <<told, answer>>
Answer(a) == answer' = a /\ UNCHANGED <<at, told>>

\* What the Authorization header holds: a repeated one is not resolved by picking one.
Credential ==
    CASE header = Absent -> "absent"
      [] header \in {Repeated, Unusable} -> "malformed"
      [] OTHER -> "bearer"

\* JwtManager::verify_access: signed by this manager, not expired, not a refresh token.
VerifyAccess(manager, t) == t.key = manager /\ t.use = "access" /\ now <= t.exp

\* string_list: the items that are strings.
StringList(claim) == claim \cap Names

Subject(l, t) == t[l.subject]

\* context_from_token: verified, with a subject that is a nonempty string.
UsableIfVerified(l) == VerifyAccess(l.manager, header)
Usable(l) == VerifyAccess(l.manager, header) /\ Subject(l, header) \notin {"", None}

ContextOf(l, user) ==
    [user |-> user, roles |-> StringList(header[l.names]),
     permissions |-> StringList(header[l.permissions])]
ContextFromToken(l) == ContextOf(l, Subject(l, header))

Attach(l) ==
    /\ context' = ContextFromToken(l)
    /\ roles' = context'.roles
    /\ verified' = context'.user
    /\ UNCHANGED <<rejected, header>>

\* The rejected credential is removed, and the request marked.
FlagOnly == rejected' = TRUE /\ UNCHANGED <<header, context, roles, verified>>
StripAndFlag ==
    /\ header' = Absent
    /\ rejected' = TRUE
    /\ UNCHANGED <<context, roles, verified>>

\* JwtAuthMiddleware::handle
Handle(l) ==
    /\ Turn(l)
    /\ l.kind = "jwt"
    /\ LET accepted == Credential = "bearer" /\ Usable(l) IN
       \/ /\ accepted
          /\ Attach(l)
          /\ Forward
       \/ /\ ~accepted /\ l.required
          /\ Answer("unauthorized")
          /\ UNCHANGED <<header, extensions>>
       \/ /\ ~accepted /\ ~l.required
          /\ IF Credential = "absent" THEN UNCHANGED <<header, extensions>> ELSE StripAndFlag
          /\ Forward
    /\ UNCHANGED <<request, now>>

\* JwtStrategy::extract_token takes "Bearer " to the letter.
ExtractToken == Credential = "bearer" /\ header.scheme = "Bearer"

\* JwtStrategy::authenticate: a missing subject is an empty one.
Authenticate(l) ==
    ContextOf(l, IF Subject(l, header) = None THEN "" ELSE Subject(l, header))

\* A layer of the application runs the strategy and attaches the context it returns.
RunStrategy(l) ==
    /\ Turn(l)
    /\ l.kind = "strategy"
    /\ LET accepted == ExtractToken /\ VerifyAccess(l.manager, header) IN
       \/ accepted /\ context' = Authenticate(l) /\ Forward
       \/ ~accepted /\ l.required /\ Answer("unauthorized") /\ UNCHANGED context
       \/ ~accepted /\ ~l.required /\ Forward /\ UNCHANGED context
    /\ UNCHANGED <<request, now, header, roles, verified, rejected>>

\* Another layer of the application attaches RequestRoles.
AttachRoles(l) ==
    /\ Turn(l)
    /\ l.kind = "roles"
    /\ roles' = l.roles
    /\ Forward
    /\ UNCHANGED <<request, now, header, context, verified, rejected>>

\* Nothing required means anyone authenticated; else all or any of what is required.
Satisfied(l, has) ==
    l.need = {} \/ (IF l.all THEN l.need \subseteq has ELSE l.need \cap has # {})

AuthAllows(l) == IF context # None THEN "allow" ELSE "unauthorized"

Decision(ok) == IF ok THEN "allow" ELSE "forbidden"

RoleAllowsAnyone(l) ==
    IF l.need = {} THEN "allow"
    ELSE IF context # None THEN Decision(Satisfied(l, context.roles))
    ELSE IF roles # None THEN Decision(Satisfied(l, roles))
    ELSE "unauthorized"

\* The UserContext is preferred to RequestRoles.
RoleAllows(l) ==
    IF context # None THEN Decision(Satisfied(l, context.roles))
    ELSE IF roles # None THEN Decision(Satisfied(l, roles))
    ELSE "unauthorized"

\* Permissions are carried by the UserContext only.
PermissionAllows(l) ==
    IF context = None THEN "unauthorized" ELSE Decision(Satisfied(l, context.permissions))

\* AuthenticationGuard and RolesGuard of armature-core.
CoreAuthAllows(l) == IF verified # None THEN "allow" ELSE "unauthorized"
CoreRolesAllows(l) == IF roles = None THEN "unauthorized" ELSE Decision(Satisfied(l, roles))

Allows(l) ==
    CASE l.kind = "auth" -> AuthAllows(l)
      [] l.kind = "role" -> RoleAllows(l)
      [] l.kind = "permission" -> PermissionAllows(l)
      [] l.kind = "core_auth" -> CoreAuthAllows(l)
      [] l.kind = "core_roles" -> CoreRolesAllows(l)

\* can_activate, and the error a refusal becomes (to_core_error).
CanActivate(l) ==
    /\ Turn(l)
    /\ l.kind \in GuardKinds
    /\ IF Allows(l) = "allow" THEN Forward ELSE Answer(Allows(l))
    /\ UNCHANGED <<request, now, header, extensions>>

\* AuthGuard::extract_user
ExtractUser == IF context = None THEN {} ELSE {context.user}

\* Past every layer, the handler serves the request, if it finds the user it needs.
Serve ==
    /\ answer = "none"
    /\ at = Len(chain) + 1
    /\ \/ ~extracts /\ Answer("served")
       \/ extracts /\ ExtractUser = {} /\ Answer("unauthorized")
       \/ extracts /\ told' \in ExtractUser /\ answer' = "served" /\ UNCHANGED at
    /\ UNCHANGED <<request, now, header, extensions>>

Tick ==
    /\ now < MaxTime
    /\ now' = now + 1
    /\ UNCHANGED <<request, header, extensions, at, told, answer>>

Next ==
    \/ \E l \in Layers : Handle(l)
    \/ \E l \in Layers : RunStrategy(l)
    \/ \E l \in Layers : AttachRoles(l)
    \/ \E l \in Layers : CanActivate(l)
    \/ Serve
    \/ Tick

Spec == Init /\ [][Next]_vars

-----------------------------------------------------------------------------
\* Every variable has the shape the code gives it.
TypeOK ==
    /\ chain \in Seq(Layers)
    /\ extracts \in BOOLEAN
    /\ presented \in Headers
    /\ {arrived, now} \subseteq 0 .. MaxTime
    /\ header \in Headers
    /\ context \in UserContext \cup {None}
    /\ roles \in (SUBSET Names) \cup {None}
    /\ verified \in Subjects \cup {None}
    /\ rejected \in BOOLEAN
    /\ at \in 1 .. Len(chain) + 1
    /\ told \in Subjects \cup {"", None}
    /\ answer \in {"none", "served", "unauthorized", "forbidden"}

\* Layer j vouches for the credential the request came with: a live access token of
\* its manager and, for the middleware, one that names a user.
Vouches(j) ==
    /\ chain[j].kind \in {"jwt", "strategy"}
    /\ presented \in Tokens
    /\ presented.key = chain[j].manager
    /\ presented.use = "access"
    /\ arrived <= presented.exp
    /\ chain[j].kind = "jwt" => Subject(chain[j], presented) \in Subjects

\* What guard l asks for, by the claims that layer j reads.
HeldBy(l, j) ==
    CASE l.kind \in {"role", "core_roles"} -> StringList(presented[chain[j].names])
      [] l.kind = "permission" -> StringList(presented[chain[j].permissions])
      [] OTHER -> l.need

\* Some layer before guard i vouches for a token that holds what the guard asks for;
\* the guards on roles may rest on the RequestRoles of the application instead.
\* armature-core's guards take nothing of a strategy.
GuardHolds(i) ==
    LET l == chain[i] IN
    \/ \E j \in 1 .. i - 1 :
          /\ Vouches(j)
          /\ Satisfied(l, HeldBy(l, j))
          /\ l.kind \in {"core_auth", "core_roles"} => chain[j].kind = "jwt"
    \/ /\ l.kind \in {"role", "core_roles"}
       /\ \E j \in 1 .. i - 1 : chain[j].kind = "roles" /\ Satisfied(l, chain[j].roles)

\* The user layer j takes from the token: the strategy, an empty one for none.
UserOf(j) ==
    LET user == Subject(chain[j], presented) IN
    IF chain[j].kind = "strategy" /\ user = None THEN "" ELSE user

\* A request that reaches the handler has, for every required layer and every guard
\* of the chain, in whatever order they stand, a credential that entitles it; the
\* user the handler is told is the one a layer it passed vouches for; and the
\* handler's header is never one that a middleware rejected.
ServedIsEntitled ==
    answer = "served" =>
       /\ \A i \in DOMAIN chain :
             /\ (chain[i].kind \in {"jwt", "strategy"} /\ chain[i].required) => Vouches(i)
             /\ chain[i].kind \in GuardKinds => GuardHolds(i)
       /\ extracts => \E j \in DOMAIN chain : Vouches(j) /\ told = UserOf(j)
       /\ rejected => header = Absent

\* Once a middleware rejected the credential, no later layer takes an identity from
\* it, even one whose manager would verify it.
RejectedStaysRejected == [][rejected => context' = context /\ verified' = verified]_vars
=============================================================================
