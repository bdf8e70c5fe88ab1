----------------------------- MODULE OAuthFlow -----------------------------
(***************************************************************************)
(* The OAuth2 and OpenID Connect authorization code flow of                *)
(* src/oauth2.rs and src/providers/: an application with browser sessions  *)
(* sends users to the provider, keeps the PendingAuth in the session,      *)
(* exchanges the code of a callback and asks who the user is.  Browsers,   *)
(* session storage and the provider are external.                          *)
(*                                                                         *)
(* A flow stands for the state, the PKCE verifier and the nonce that were  *)
(* drawn for it; a code for the flow and the user it was issued for.  Time *)
(* is in seconds, as PendingAuth and the id_token count it.  Fetching the  *)
(* signing key (module Jwks) is an outcome of the verification here.       *)
(***************************************************************************)
EXTENDS Integers, FiniteSets

CONSTANTS
    Flows,      \* authorization requests
    Sessions,   \* browser sessions of the application
    Users,      \* users of the provider
    Calls,      \* concurrent calls of exchange_code
    Us, Issuer, \* the application's client id; the configured issuer, a tenant
    Forms,      \* what an id_token may say besides its user, nonce and expiry
    Ahead,      \* how far the clocks of the application's servers are ahead
    Worlds,     \* what the provider and the browsers get right
    MaxAge,     \* PENDING_AUTH_MAX_AGE
    Timeout,    \* how long a request may take
    Lifetime,   \* how long an id_token is valid
    Leeway,     \* ID_TOKEN_LEEWAY_SECS
    None,
    MaxCodes,   \* bound on the codes issued
    MaxTime     \* bound on the clock

ASSUME OAuthAssumption ==
    /\ MaxAge \in Nat /\ Timeout \in Nat /\ Lifetime \in Nat /\ Leeway \in Nat
    /\ Ahead \subseteq Nat /\ Ahead # {}
    /\ Forms \subseteq [signed : BOOLEAN, iss : STRING, tid : STRING \cup {None},
                        aud : SUBSET STRING, azp : STRING \cup {None}]
    /\ Worlds \subseteq [pkce : BOOLEAN, mixed : BOOLEAN, crossed : BOOLEAN, atOnce : Nat]
    /\ MaxCodes \in Nat /\ MaxTime \in Nat
    /\ None \notin Flows \cup Users \cup Nat
    /\ None \notin [user : Users, tid : STRING \cup {None}]

VARIABLES
    provider,  \* how the crate configures the provider
    world,     \* pkce: the provider compares the verifier of a code's flow
               \* mixed: callbacks may pair a code with the state of another flow
               \* crossed: the token endpoint may answer with any id_token, or none
               \* atOnce: how many exchanges run at once
    now,       \* the time
    created,   \* created_at of each flow's PendingAuth, None before it began
    pending,   \* the flow whose PendingAuth each session keeps
    codes,     \* codes issued: who authenticated at the provider, in which flow
    spent,     \* codes redeemed
    call,      \* what each exchange_code is doing
    token      \* the OAuth2Token each session has

vars == <<provider, world, now, created, pending, codes, spent, call, token>>

-----------------------------------------------------------------------------
\* The providers the crate configures: OIDC settings, whether "openid" is among
\* the scopes (with_scopes may replace them), an issuer with a {tenantid}, and
\* how get_user_info finds the user.
Configs(oidc, openid, templated, profile) ==
    [oidc : oidc, openid : openid, templated : templated, profile : profile]

Google == Configs({TRUE}, BOOLEAN, {FALSE}, {"userinfo"})
Okta == Configs({TRUE}, BOOLEAN, {FALSE}, {"userinfo"})
Auth0 == Configs({TRUE}, BOOLEAN, {FALSE}, {"userinfo"})
AwsCognito == Configs(BOOLEAN, BOOLEAN, {FALSE}, {"userinfo"})
MicrosoftEntra == Configs({TRUE}, BOOLEAN, BOOLEAN, {"graph"})
GitHub == Configs({FALSE}, {FALSE}, {FALSE}, {"profile"})
GitLab == Configs({FALSE}, {FALSE}, {FALSE}, {"profile"})
Discord == Configs({FALSE}, {FALSE}, {FALSE}, {"profile"})
LinkedIn == Configs({FALSE}, {FALSE}, {FALSE}, {"profile"})

Providers == UNION {Google, Okta, Auth0, AwsCognito, MicrosoftEntra,
                    GitHub, GitLab, Discord, LinkedIn}

WantsOidc == provider.oidc /\ provider.openid

\* The nonce of a flow's request and PendingAuth.
Nonce(f) == IF WantsOidc THEN f ELSE None

IdToken == [user : Users, nonce : Flows \cup {None}, form : Forms, exp : Nat]
Code == [flow : Flows, user : Users]
Claims == [user : Users, tid : STRING \cup {None}]
Token == [flow : Flows, user : Users, claims : Claims \cup {None}]

\* A running exchange has the session it answers, the flow of its PendingAuth, the
\* code, the raw id_token once there is one, and the time its request times out.
CallOf(pcs, raws) == [pc : pcs, session : Sessions, flow : Flows, code : Code,
                      raw : raws, until : Nat]
CallState == CallOf({"token"}, {None}) \cup CallOf({"verify"}, IdToken) \cup {None}

Init ==
    /\ provider \in Providers
    /\ world \in Worlds
    /\ now = 0
    /\ created = [f \in Flows |-> None]
    /\ pending = [s \in Sessions |-> None]
    /\ codes = {}
    /\ spent = {}
    /\ call = [c \in Calls |-> None]
    /\ token = [s \in Sessions |-> None]

-----------------------------------------------------------------------------
Begun == {f \in Flows : created[f] # None}

\* authorization_url on any server; the PendingAuth replaces the session's.
AuthorizationUrl(s) ==
    /\ \E f \in Flows \ Begun, a \in Ahead :
          /\ created' = [created EXCEPT ![f] = now + a]
          /\ pending' = [pending EXCEPT ![s] = f]
    /\ UNCHANGED <<provider, world, now, codes, spent, call, token>>

\* Whoever follows the URL of a flow authenticates and is sent back with a code.
Authenticate ==
    /\ Cardinality(codes) < MaxCodes
    /\ \E f \in Begun, u \in Users :
          /\ [flow |-> f, user |-> u] \notin codes
          /\ codes' = codes \cup {[flow |-> f, user |-> u]}
    /\ UNCHANGED <<provider, world, now, created, pending, spent, call, token>>

CheckState(f, returned) == f = returned

IsExpiredNever(f, clock) == clock < created[f]
IsExpired(f, clock) == clock < created[f] \/ clock - created[f] > MaxAge

ReturnedStates(code) == IF world.mixed THEN Begun ELSE {code.flow}

\* A callback reaches any server: exchange_code checks state and age, and sends the
\* token request.  The application may leave the PendingAuth in the session.
Callback(c, s) ==
    LET f == pending[s] IN
    /\ call[c] = None
    /\ Cardinality({d \in Calls : call[d] # None}) < world.atOnce
    /\ f # None
    /\ \E code \in codes, a \in Ahead :
       \E returned \in ReturnedStates(code) :
          call' = [call EXCEPT ![c] =
                     IF CheckState(f, returned) /\ ~IsExpired(f, now + a)
                     THEN [pc |-> "token", session |-> s, flow |-> f, code |-> code,
                           raw |-> None, until |-> now + Timeout]
                     ELSE None]
    /\ \/ UNCHANGED pending
       \/ pending' = [pending EXCEPT ![s] = None]
    /\ UNCHANGED <<provider, world, now, created, codes, spent, token>>

\* id_tokens of the provider for us, and those that are not.
Sound(form) ==
    /\ form.signed
    /\ Us \in form.aud
    /\ Cardinality(form.aud) > 1 => form.azp = Us
    /\ IF provider.templated THEN form.iss = form.tid ELSE form.iss = Issuer

IdTokens(users, nonces, forms) ==
    [user : users, nonce : nonces, form : forms, exp : {now + Lifetime}]

\* What the token endpoint answers to a code.
RawIdTokens(code) ==
    LET good == {form \in Forms : Sound(form)}
        of(d) == IdTokens({d.user}, {Nonce(d.flow)}, good) IN
    CASE world.crossed -> (UNION {of(d) : d \in codes}) \cup {None}
                          \cup IdTokens(Users, {Nonce(code.flow)}, Forms \ good)
      [] WantsOidc /\ ~world.crossed -> of(code)
      [] OTHER -> {None}

\* A token of the application: the code's user, and verified claims or none (of
\* which the code reads the user, sub or oid, and the tid).
Hand(c, claims) ==
    token' = [token EXCEPT ![call[c].session] =
                [flow |-> call[c].flow, user |-> call[c].code.user, claims |-> claims]]

\* The provider refuses: the code is spent, or of another flow's verifier.
Refused(c) ==
    \/ call[c].code \in spent
    \/ world.pkce /\ call[c].code.flow # call[c].flow

\* With a nonce, an id_token is due, and its absence is an error.
DueIfPresent(f, raw) == Nonce(f) # None /\ provider.oidc /\ raw # None
Due(f, raw) == Nonce(f) # None /\ provider.oidc
MissingIsEmpty(raw) == FALSE
Missing(raw) == raw = None

\* The code is redeemed and the answer arrives.
Answered(c) ==
    /\ ~Refused(c)
    /\ spent' = spent \cup {call[c].code}
    /\ \E raw \in RawIdTokens(call[c].code) :
          \/ /\ ~Due(call[c].flow, raw)
             /\ Hand(c, None)
             /\ call' = [call EXCEPT ![c] = None]
          \/ /\ Due(call[c].flow, raw)
             /\ call' = [call EXCEPT ![c] =
                            IF Missing(raw) THEN None
                            ELSE [@ EXCEPT !.pc = "verify", !.raw = raw,
                                           !.until = now + 2 * Timeout]]
             /\ UNCHANGED token

\* The request fails, before or after the provider redeemed the code.
Failed(c) ==
    /\ \/ UNCHANGED spent
       \/ ~Refused(c) /\ spent' = spent \cup {call[c].code}
    /\ call' = [call EXCEPT ![c] = None]
    /\ UNCHANGED token

RequestToken(c) ==
    /\ call[c] # None
    /\ call[c].pc = "token"
    /\ Answered(c) \/ Failed(c)
    /\ UNCHANGED <<provider, world, now, created, pending, codes>>

\* The checks of verify_id_token once a key was found.
AudienceOk(form) == Us \in form.aud
IssuerOk(form) ==
    IF provider.templated THEN form.tid # None /\ form.iss = form.tid
                          ELSE form.iss = Issuer
AuthorizedPartyOk(form) == Cardinality(form.aud) > 1 => form.azp = Us

VerifiedWithoutNonce(raw, nonce) ==
    /\ raw.form.signed /\ AudienceOk(raw.form) /\ IssuerOk(raw.form)
    /\ AuthorizedPartyOk(raw.form) /\ raw.exp + Leeway >= now
Verified(raw, nonce) ==
    /\ raw.form.signed
    /\ AudienceOk(raw.form)
    /\ raw.exp + Leeway >= now
    /\ IssuerOk(raw.form)
    /\ AuthorizedPartyOk(raw.form)
    /\ raw.nonce = nonce

\* verify_id_token: without a key, or if a check fails, nothing is handed out.
VerifyIdToken(c) ==
    /\ call[c] # None
    /\ call[c].pc = "verify"
    /\ call' = [call EXCEPT ![c] = None]
    /\ \/ Verified(call[c].raw, Nonce(call[c].flow)) /\ Hand(c, [user |-> call[c].raw.user, tid |-> call[c].raw.form.tid])
       \/ UNCHANGED token
    /\ UNCHANGED <<provider, world, now, created, pending, codes, spent>>

\* refresh_token: another access token of the same user, without an id_token.
RefreshToken(s) ==
    /\ token[s] # None
    /\ token' = [token EXCEPT ![s].claims = None]
    /\ UNCHANGED <<provider, world, now, created, pending, codes, spent, call>>

\* Whom get_user_info may name (it changes nothing): the userinfo answer if it agrees
\* with the claims, Microsoft's verified tid and oid, or what the profile says.
UserInfo(t) == IF t.claims # None /\ t.claims.user # t.user THEN {} ELSE {t.user}
GraphUser(t) == IF t.claims = None \/ t.claims.tid = None THEN {} ELSE {t.claims.user}
Profile(t) == {t.user}

Named(t) ==
    CASE provider.profile = "userinfo" -> UserInfo(t)
      [] provider.profile = "graph" -> GraphUser(t)
      [] provider.profile = "profile" -> Profile(t)

Tick ==
    /\ now < MaxTime
    /\ \A c \in Calls : call[c] # None => now < call[c].until
    /\ now' = now + 1
    /\ UNCHANGED <<provider, world, created, pending, codes, spent, call, token>>

Next ==
    \/ \E s \in Sessions : AuthorizationUrl(s)
    \/ Authenticate
    \/ \E c \in Calls, s \in Sessions : Callback(c, s)
    \/ \E c \in Calls : RequestToken(c)
    \/ \E c \in Calls : VerifyIdToken(c)
    \/ \E s \in Sessions : RefreshToken(s)
    \/ Tick

Spec == Init /\ [][Next]_vars

-----------------------------------------------------------------------------
\* Every variable has the shape the code gives it; verify_id_token always has an
\* id_token to verify, and a session keeps the PendingAuth of a flow that began.
TypeOK ==
    /\ provider \in Providers
    /\ world \in Worlds
    /\ now \in Nat
    /\ created \in [Flows -> Nat \cup {None}]
    /\ pending \in [Sessions -> Begun \cup {None}]
    /\ codes \subseteq Code
    /\ spent \subseteq codes
    /\ call \in [Calls -> CallState]
    /\ token \in [Sessions -> Token \cup {None}]

\* Whom get_user_info names for a session did authenticate in the flow the session
\* began, if one thing at least held: callbacks paired codes with their states (the
\* state check), the provider compared the verifier (PKCE), or the token carries
\* verified claims (the nonce), whatever the token endpoint answered.
FlowsDoNotMix ==
    \A s \in Sessions :
       LET t == token[s] IN
       (t # None /\ (~world.mixed \/ world.pkce \/ t.claims # None)) =>
          \A u \in Named(t) : [flow |-> t.flow, user |-> u] \in codes

Refreshed(s) == token[s] # None /\ token'[s] = [token[s] EXCEPT !.claims = None]

\* An exchange of a flow that asked for an id_token hands out no token without
\* verified claims, however the endpoint answered; only a refresh drops them.
OidcTokensHaveClaims ==
    [][\A s \in Sessions :
          (token'[s] # token[s] /\ Nonce(token'[s].flow) # None)
             => (token'[s].claims # None \/ Refreshed(s))]_vars

\* A flow ends: the age is checked before the requests, so that no token of it is
\* handed out later than its age and what the requests may take.
FlowsEnd ==
    [][\A s \in Sessions :
          (token'[s] # token[s] /\ ~Refreshed(s)) =>
             now <= created[token'[s].flow] + MaxAge + Timeout
                    + (IF WantsOidc THEN 2 * Timeout ELSE 0)]_vars
=============================================================================
