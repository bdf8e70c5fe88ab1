# armature-auth, modelled and proved

TLA+ models of the authentication crate `armature-auth` (`src/`), the TLC runs
that check them on small instances, and TLAPS proofs of what matters most for
every instance. `src/src/x.rs` below is the crate's file `x.rs`.

## The system

The crate is a library. It runs no thread of its own: an application's request
handlers call it concurrently, and its components keep their state in storage
the application supplies (traits `ApiKeyStore`, `MagicLinkStore`,
`AssertionReplayCache`, `LocalUserStore`, the application's user records) or in
small process-local maps. What is hard about it is therefore always of the same
kind: a call reads something, awaits, and acts on what it read; a store answers
with an error after it did, or did not do, what it was asked; a clock is read
more than once; and credentials that must work once are claimed by several
requests.

| component | state it keeps | operations | what makes it correct |
|---|---|---|---|
| API keys (`api_key.rs`) | records in the `ApiKeyStore` | `generate`, `validate`, `revoke`, `rotate` | a revoked or expired key is refused; revocation is final but for an application that saves an older copy; a rotation revokes before it mints; only saved keys are handed out |
| rate limiter (`api_key.rs`) | `rate_counters`, `last_sweep_unix` | `check_rate_limit`, `sweep_expired_windows` | no window admits more than the limit, whatever races; the sweep reclaims and is not noticed |
| magic links (`passwordless.rs`) | records in the `MagicLinkStore`, or kept by the application | `generate`, `save`, `consume`, `redeem_magic_link`, `MagicLinkToken::consume`, `prune_expired` | a link logs in once, never late, and is not lost while it works |
| SAML replay (`saml.rs`) | per-process `InMemoryReplayCache` | `validate_response`, `record_assertion`, `check_and_insert`, `prune_expired` | an assertion logs in once per process, and is remembered as long as it can be presented |
| SAML logins (`saml.rs`) | the configuration; request ID and RelayState in the application's session; own or shared caches | `SamlServiceProvider::new`, `create_auth_request`, `validate_response`, `validate_unsolicited_response`, `get_metadata`, `with_replay_cache` | only the answer to its own request logs a session in; an assertion logs in once over all processes; a rightful login is not refused |
| TOTP, backup codes (`two_factor.rs`) | the user's `last_accepted_step` and `code_hashes` | `verify_at`, `verify_and_record`, `generate`, `verify_and_consume` | a step or a backup code completes one login; nobody is locked out; printed codes work |
| password hasher (`password.rs`) | its settings | `hash`, `verify`, `needs_rehash`, the builders | a hash verifies its password only, whatever the hasher is set to; bcrypt's 72 bytes never cut one |
| local login (`strategy.rs`, `lib.rs`) | the users' hashes, the `OnceLock` dummy hash | `authenticate`, `equalize_timing`, rehash on login, `with_password_hasher`, `AuthService::validate`, `hash_password` | only the user's password logs in; refusals cost alike once the dummy hash is there; rehashing keeps passwords |
| JWKS cache (`oauth2.rs`) | the key set and the instant it was stored | `jwks`, key selection of `verify_id_token` | a withdrawn key stops working, a new one is found, unknown kids do not cause a request each |
| OAuth2/OIDC flow (`oauth2.rs`, `providers/`) | `PendingAuth`, kept by the application; codes at the provider | `authorization_url`, `exchange_code`, `get_user_info`, `refresh_token` | flows do not mix, claims are verified before they are exposed, userinfo agrees with them |
| request pipeline (`middleware.rs`, `guard.rs`, `strategy.rs`, `user.rs`) | none beyond the request | `JwtAuthMiddleware::handle`, guards, `JwtStrategy`, `AuthGuard::extract_user` | whoever is served is entitled to it, in any order of layers; what was rejected stays rejected |
| WebAuthn, errors | none | forwarding | – |

Interactions: API key validation runs the rate limiter between two store calls;
SAML logins go through the replay cache last; `verify_id_token` runs the JWKS cache between the exchange of the code and the
answer; local login and `AuthService` run the password hasher on the blocking
pool; the middleware hands what it verified to the guards through the request's
extensions. Everything else meets only in the application.

## Modules

| module | models | uses |
|---|---|---|
| `OneTime` | abstract: a one-time credential is granted at most once and never after it became void | |
| `RateWindow` | pure: one locked access to a counter entry, which entries a sweep drops | |
| `ApiKeys` | the key manager over an external store | `RateWindow` |
| `AtomicLimiter` | abstract: a request is counted at one instant and let through within the limit; nothing is evicted | `RateWindow` |
| `RateLimiter` | the limiter access by access, on threads | `RateWindow`; implements `AtomicLimiter` |
| `MagicLink` | the store, its callers and its pruning | implements `OneTime` |
| `SamlReplay` | validation and replay cache to the clock reading, in processes that start and end | implements `OneTime` |
| `SamlLogin` | logins from request to session, over processes and deployments | the replay cache as the one-time record `SamlReplay` shows it to be |
| `TwoFactor` | load, verify, save of the second factor | implements `OneTime` |
| `PasswordHasher` | pure: what a hasher makes of a password, verifies and replaces | |
| `LocalLogin` | `LocalStrategy::authenticate` and `AuthService` on a store several servers share | `PasswordHasher` |
| `Jwks` | the key cache under rotation and overtaking answers | |
| `OAuthFlow` | authorization code flow with sessions, provider and id_token checks | |
| `RequestPipeline` | JWT middlewares, strategies and guards in chains | |
| `MagicLink_proofs`, `SamlReplay_proofs`, `SamlLogin_proofs`, `TwoFactor_proofs`, `ApiKeys_proofs` (with the limiter), `LocalLogin_proofs`, `OAuth2_proofs` (key cache and flow), `RequestPipeline_proofs` | theorems | TLAPS |
| `MC*` | instances for TLC | |

`RateLimiter` and `Jwks` name their variables and definitions apart from those of
`ApiKeys` and `OAuthFlow` (`clock`, `LimiterNext`; `ticks`, `JwksNext`), so that one
module can be about both.

Reading a model: a call (or thread, or login) is a record with a `pc`, which
names the await, the lock or the clock reading it is suspended at, and the
locals it still holds. An action runs from one such point to the next. The
answer of an external store is part of the action that asks: it is atomic, and
it is an error with or without an effect. What the code never looks at is not
in the state. Variables marked *history* record what happened for the properties
and are read by no guard.

* `ApiKeys`. `store` is the `ApiKeyStore`, a key's id also stands for its
  plaintext and hash. `validate` is `FindByKeyHash`, `Check` (revocation, expiry,
  rate limit with its sweep: no await in between), `UpdateLastUsed`; `rotate` is
  `FindById`, `Revoke`, `Build`, `Save`, and shares the last three with `revoke`
  and `generate`. With `LooseLookup` the store may answer with another key's
  record, which the code's constant-time comparison must refuse. The application changes
  a key by `ReadRecord` and `SaveRecord`, because `ApiKeyStore::save` takes a whole
  record: `copy` is what it read, and `revived` (history) the keys whose revocation such
  a save has undone. `last_used_at`, which nothing reads, is left out.
* `RateLimiter` splits `check_rate_limit` at each access of the `DashMap` and at
  the atomics: the clock reading (`Arrive`), `get_mut` (`Lookup`), `entry()`
  (`Insert`), the early returns of the sweep (`Sweep`), the compare-exchange and
  one `Retain` per shard. `unswept` counts the same requests without any sweep; with
  `Passed` (let through, or counted and to be let through) it is the state of
  `AtomicLimiter`, whose step is the counting of a request. So `ApiKeys` may take the
  whole of `check_rate_limit` as one step. Time is in ticks because windows compare full instants
  and sweeps whole seconds.
* `MagicLink`. `Claim` is the atomic `MagicLinkStore::consume`; the store deletes
  or marks; `Consume` is the decision on the claimed record. Where the `keeper` is the
  calling application, `Load` takes the record under a lock, `Consume` is
  `MagicLinkToken::consume` on it, and `Persist` writes it before the login completes.
* `SamlReplay`. A validation reads the clock in samael's condition check, in
  `record_assertion`, in `check_and_insert` and in `prune_expired`; each reading
  is an action of its own. A process is one life of a server: it starts with an
  empty cache and takes cache and calls with it.
* `SamlLogin`. A `deployment` is the `SamlConfig`, the metadata and what the
  application does with the provider (passes the RelayState or not, leaves a started
  login in the session or not, attaches a shared cache or not). `Callback` is the
  browser's post and the application's choice of call; `Validate` is everything before
  the cache, which changes nothing when it refuses; `RecordAssertion` asks the cache.
  Requests and RelayStates are drawn once and stand for each other.
* `TwoFactor`. The crate verifies on values the caller loads and saves, so the
  caller's protocol is in the model: load, verify on the copy, save, and only
  then complete the login. `setting.locked` is a caller that locks the record.
* `PasswordHasher`. A hash is the password it commits to and the settings it was made
  with. `Hash` is the set of outcomes, empty for an error; `First72` is what bcrypt
  would read of a password.
* `LocalLogin`. `Verify`, `Rehash`, `Fill` and `Burn` are jobs of the blocking pool,
  which may fail; the record in hand is `call[c].seen`, read before them. Strategies
  with different hashers are the old and new servers of one application. `spent` is every
  hash a login computed, the one of the dummy password in `Fill` included, and `cold` are
  the logins that began before their strategy had its dummy hash. `Validate` is
  `AuthService::validate` on the user that was read. Meanwhile the application registers
  users, changes passwords, switches users off and replaces hashers.
* `Jwks`. The read lock is dropped before the request is sent, the answer is
  stored with the instant of its storing, and a second, forced pass follows when
  the kid is unknown. The provider rotates its keys at any time.
* `OAuthFlow`. A flow stands for the state, verifier and nonce drawn for it, a code
  for its flow and user. `exchange_code` is `Callback` (state and age, then the
  request leaves), `RequestToken` (the provider redeems or refuses, the answer comes
  or is lost) and `VerifyIdToken`; `get_user_info` changes nothing and is the operator
  `Named`. `provider` is any configuration the nine provider modules give, `world`
  what provider and browsers get right. The application may leave a `PendingAuth` in
  the session and reach servers whose clocks differ. Key lookup (`Jwks`) is an outcome
  of the verification here.
* `RequestPipeline`. A request meets a chain of middlewares, guards and layers of the
  application, which know of each other only through its header and extensions.
  `verify_access` is external: this manager's key, an access token, not expired. Claims
  are sets of names and of things that are no strings. `RunStrategy` is a layer that
  attaches what `JwtStrategy::authenticate` returns; the guards of armature-core see
  this crate's extensions only through `VerifiedIdentity` and `RequestRoles`.

## Runs

| run | question | bounds |
|---|---|---|
| `apikeys` | do the key manager's promises survive two interleaved calls, store errors and sweeps? | 2 keys, 2 callers, an application that changes one key at a time, 2 instants; expiry at the creation instant, a limit of 1 and a zero-length window, so that every boundary is met within them |
| `apikeys_fair` | does a revocation catch up with every validation under way? | 2 keys, 2 callers, no clock, an application that saves copies with their limits unchanged |
| `limiter` | is a request counted as if at one instant, do windows hold their limit, does the sweep reclaim and go unnoticed? | limit 1, window of one tick (half a second), 5 requests; loads of 2 threads on 1 key with a clock that is set back once, 1 thread on 2 keys, 2 threads on 2 keys |
| `magic_link` | does redemption implement `OneTime`, and are links not lost? | 2 links, 3 callers, 3 instants, lifetime 1; each of the three keepers |
| `saml_replay` | once per process, remembered while it can be presented | 2 assertions, 2 validations, 1 process that starts and ends, 6 instants; three configurations |
| `saml_login` | whose login does a response complete, how often, and is a rightful one ever refused? | 2 sessions, 3 requests, 1 assertion, 2 processes of which one restarts once, 2 callbacks; 12 deployments, 6 forms of a response of which 5 have one flaw |
| `two_factor` | does the locked protocol implement `OneTime`, is nobody locked out? | 2 logins, 7 instants of two-tick steps, 3 codes of which some coincide, 3 backup codes |
| `local_login` | passwords, cost of a refusal, rehashing | 2 logins on 2 strategies, 1 user, a password too long for bcrypt and its first 72 bytes, 3 hashers, hashes of six kinds, 1 change by the application |
| `jwks` | withdrawn keys expire, rotated keys are found | 2 keys, 2 verifications, 6 instants, TTL 3, spacing 2, timeout 1 |
| `oauth_flow` | do flows not mix, do OIDC tokens have claims, do flows end? | 2 flows, 2 users, 2 codes, 2 exchanges (1 where the token endpoint errs), 4 instants, age and timeout of 1, servers 0 or 1 ahead; every provider, 8 forms of an id_token of which 6 have one flaw |
| `pipeline` | is whoever is served entitled to it, in any order of layers? | chains of up to 3 of 15 layers, 2 managers, 6 tokens and 3 unusable headers, 2 instants |
| `jwks_spacing` (violation) | are forced refetches spaced, as the comment says? | 2 verifications, a provider that always answers |

Bounds are named constants: `MaxTime` (clock), `MaxCount` (requests counted for a
key in one window), `MaxRequests` (requests served), `load.until` (clock of a
load), `MaxPause` (how long a SAML validation takes from the condition check to
the cache), `MaxCodes` (codes a provider issues), `world.atOnce` (exchanges at once),
`MaxChanges` (changes by the application while logins run), `MaxRestarts` (restarts of
processes), one `SetBack` of the clock, `MaxTicks` (clock of `Jwks`), and the HTTP
client's timeout, `RequestTimeout` in `Jwks` and `Timeout` in `OAuthFlow`. The lengths are scaled
so that each boundary lies inside the bound: a window, a lifetime and a skew both
end and are exceeded. Two actors are what the races need (three in `MagicLink`,
one to save again while two redeem), and two keys, links or assertions tell
"this one" from "another" (in `oauth_flow` the clock is over before the bound of `FlowsEnd`
for OIDC flows, an age and two timeouts, is exceeded: the run tests the bound of the
others, the theorem `FlowsAreOver` both); in `saml_login` the third request lets a session start a
second login while another session has one, and one assertion is enough because
caches keep assertions apart. `RoomForAKey` stops calls that would run out of ids.

Deadlock is not checked (`CHECK_DEADLOCK FALSE`) where the model may really stop:
the clock reached its bound with nothing left to do, the requests are used up, or
every process ended. Nothing in the crate waits for another call.

Symmetry is used for interchangeable callers, keys, links and assertions, and
only in runs without liveness properties. TOTP steps, whose order matters, and
the fair run have none.

### Fairness

`ApiKeys!FairSpec` assumes weak fairness of each caller's `CallStep`: the runtime
polls a ready future and the store answers every operation, possibly with an
error. Nothing is assumed of new calls: they may never come or come for ever.
`RevocationDrains` needs it, because a validation suspended for ever would hold a
record from before a revocation.

### Where the code and its words differ

`jwks_spacing` is a violation run: the lock is released before the request, so
concurrent calls with an unknown kid each send one (`oauth2.rs:70` speaks of a
minimum spacing). The passing runs carry further differences and limits as conditions
of their properties:

* The sweep drops entries by the sweeping thread's clock. A request that read the clock
  a little earlier, and would have been counted in the dropped window, starts a new one
  and is let through, though `api_key.rs:384-386` says that evicting cannot change a
  decision. So does a single thread when the wall clock is set back into a window that
  was swept. Hence `InOrder` (one thread, a clock that was not set back) as the condition
  of what `ImplementsAtomicLimiter` and others say of loads that are swept; `SweepReclaims`
  and `AtMostTwiceTheLimit` are about such loads alone.
* With IdP-initiated responses allowed, InResponseTo is not compared for solicited
  responses either (`saml.rs:726-731`); only the RelayState ties the answer to the
  session, if the application passes it. `SessionsDoNotMix` has this as its condition.
* Without a shared cache, an assertion may come again to another process or after a
  restart (`saml.rs:48-51` says so). `AssertionsLogInOnce` states the deployments where
  it does not: a shared cache, or correlation with a login that is taken out of the
  session before it is validated.
* The cap `REPLAY_MAX_TTL` forgets an assertion that is valid for longer than a day, or
  that has no NotOnOrAfter and so is valid for ever (`saml.rs:807-811` remembers it for a
  day). `LifetimesCovered` excludes both; every assertion of `SamlReplay` has an expiry.
* `ApiKeyStore::save` is "Save or update" of a whole record, and the trait has no other way
  to change one. An application that read a key, lets a `revoke` or a `rotate` of it go by,
  and saves its copy makes the key live again. `RevocationIsFinal` says that nothing else
  does, `ReplacedKeyIsRevoked`, `AcceptedWasLive` and `RevocationDrains` have it as their
  condition.
* `two_factor.rs:181-182` says that a code cannot be used twice. The record remembers the
  time step, so when two of the steps in reach happen to have one code, it is accepted as
  the earlier and, presented again, as the later step. `ImplementsOneTime` is about steps;
  the run has such steps, 1 and 2.
* `strategy.rs:91`, `:98` and `:142` say that an unknown user must cost what a known one
  costs. Refusals that begin before a strategy has its dummy hash, the first one and those
  that race with it, may compute that hash as well, twice the usual cost. And a known user
  whose hash was made with other settings than the strategy's (a legacy hash before its
  rehash) costs what these ask for, while an unknown one always costs the strategy's.
  `RefusalCost` states both; `WarmRefusalsCostAlike` is the promise where it holds.
* A dummy hash that once failed is kept as the empty string, after which refusals of
  unknown users run no verification (`RefusalCost` excepts it). A bcrypt
  verification of more than 72 bytes costs nothing, for known and unknown users alike.
* A password changed while its login rehashes may be overwritten by the rehash
  (`LoginKeepsPasswords` is about the others): the store is given no expected value.
* `JwtStrategy` takes "Bearer" to the letter and keeps an empty subject, or none, where
  the middleware refuses, though `strategy.rs:194` speaks of the same mapping. So the
  handler of a chain with a strategy may be told an empty user.

## Proofs

Each holds for any number of keys, links, assertions, processes, callers and for
any length of time, under the ASSUMEs of the modules (types of the constants,
`None` apart from everything).

* `MagicLink_proofs`: `TypeCorrect`, `LinksSurvive`, `RedemptionIsOneTime`, and from
  that and what `OneTime` promises, `LinksLogInOnce`. A
  redemption sits between the claim and the decision, so "never redeemed twice"
  is not inductive. `RedeemInv` adds `OneHolder`: one call at most holds a link's
  record as unused; while the store or a call has it so, the link was never
  redeemed; a store has parted with the record that is held, an application still has
  it until it persists; nothing is redeemed before it was mailed; and no pending save
  concerns a mailed link, so a retried save cannot revive it. `UseStep` says which steps
  count a use: the decision on a store's record, the persisting of an application's.
  The refinement maps each step to a grant, to a growth of `void`, or to a stutter;
  `VoidStays` is its lemma.
* `SamlReplay_proofs`: `TypeCorrect`, and under `SkewCovered` and
  `LifetimesCovered`, `ReplaysAreRejected`, `RemembersAccepted` and
  `AssertionsAreOneTime` (`OneTime` implemented in each process). `ReplayInv`
  says when a running validation may have checked the conditions (`CallsInTime`),
  that the cap cuts no horizon short (`IssuedInTime`), and that what was accepted
  is in the map up to its horizon (`UsedOnce`). `SecondUseIsReplay` is the heart:
  a call that passed the conditions reaches the map before the horizon, because
  the skew the cache adds covers the skew samael tolerates plus the pause.
  For the refinement `UseStep` finds each use a `Grant` of what is neither used nor
  gone, and `GoneStays` that what is too late, or of a process that ended, stays so.
* `SamlLogin_proofs`: `TypeCorrect`, `SessionsAreApart`, `LoginsAreOnce` and
  `TheRightfulLogIn`. `LoginInv` says what is known of a response by who wrote it
  (`ResponsesOK`), that a session's pending login is a request it sent (`RequestsOK`),
  which checks a callback has passed (`CallOK`), what ties each login to its session
  (`Tied`), and that a cache remembers only what was accepted or what it failed on
  (`SeenOK`; this is why nothing refused spends an assertion). `OnceInv` has a part for
  each way to log in once: a shared cache never forgets (`SharedOnce`); otherwise a
  request is in one session, or in one callback, or in neither once its answer was
  accepted (`TakenOnce`).
* `ApiKeys_proofs`: `TypeCorrect`, `RotationRevokes`, `HandedIsStored`,
  `RevocationIsPermanent`, `AcceptanceIsSound`, and `OrderlySavesKeepRevocations`: if the
  application never holds a copy from before a revocation, revocation is final without
  exception. `KeyInv` ties each suspended call to the store: what a rotation is about to
  mint has a predecessor that is revoked, or would be but for a save of the application
  (`CallOK`), no two calls save the same id (`SavesApart`), what is stored was minted,
  and a record a validation or the application (`CopyOK`) holds agrees with the store
  but for a revocation since.
* The limiter, in the same module: `LimiterTypeCorrect`, `WindowsAreLimited`,
  `StretchesAreLimited`, `SweepsReclaim` and the refinement `LimiterIsAtomic`, for any
  number of threads and keys and any window, from `LimiterInv`. A request is counted before it is
  decided, so "at most `Limit` let through" is not inductive: `SlotsOK` bounds
  `Passing`, the requests let through on a window and those counted in it that will be,
  by the limit and by the count of the window; a window still to come has passed none.
  It speaks of `unswept`, and `NeverSwept` (below the threshold) or `SweptIsOver` (one
  thread: a counter is as in `unswept`, or was evicted when its window was over)
  carries it to the counters. `WindowsApart` says that the windows of a key do not
  overlap, so that a stretch as long as a window meets two of them at most.
  `LateCounters` relates each counter to the last sweep, shard by shard while it runs.
  For the refinement `CountedAlike` finds the entry a request is counted in equal to
  that of `unswept`, and `PassedDecided` that a decision changes nothing of what
  `Passed` had settled. `UnsweptLimiterIsAtomic` is the plain implementation for loads
  below the threshold; `EvictionChangesNoCount` the comment on sweeps where it is right.
* `TwoFactor_proofs`: `TypeCorrect`, `NobodyIsLockedOut`, with the record locked
  or not, for every code function; `StepsInTime` bounds the copies logins hold as
  well as the record, since any of them may be saved late and in any order. For
  the locked caller `PrintedCodesKeepWorking`, `SecondFactorIsOneTime` and so
  `FactorsLogInOnce`, by `LockInv`: one login at most is between load and save, the copy it loaded equals
  the record, and what was granted is at or below the recorded step or no longer
  among the stored codes.
* `LocalLogin_proofs`: `TypeCorrect`, `AcceptanceIsSound`, `PasswordsAreKept` and
  `RefusalCostIsKnown` (with `WarmRefusalsCostAlike`), all from `LocalInv`: a running login's user is, as the store has
  it and as the login read it, among what the user `had`; past the verification the hash
  that was read commits to the password presented; nothing was spent before it but, by
  a login that began without a dummy hash, the hashing of one; and a dummy hash is missing, empty, or of the hasher its strategy has now (`DummiesOK`).
  `OnePassword` turns "the password did not change" into "what was read is what is
  stored", which a rehash that comes late needs.
* `OAuth2_proofs`, key cache: `KeyCacheTypeCorrect`, `WithdrawnExpire` and
  `RotatedAreFound`, for any number of verifications, keys and rotations. `KeyCacheInv`
  dates what is held: an answer comes within the timeout, with keys that were published
  since its request left (`AnswersFresh`); the instant the cache is stamped with is at
  most a request later than the keys it stands for, even if the answer had been
  overtaken (`CacheFresh`), which makes the bound of `WithdrawnExpire` a lifetime and a
  timeout; a key that is published all along is in the answer held (`StableHolds`).
* `OAuth2_proofs`, flow: `FlowTypeCorrect`, `FlowsAreApart`, `OidcIsVerified` and
  `FlowsAreOver`, for every configuration of the nine providers and any number of
  sessions, flows, codes and exchanges. `FlowInv` says of a running exchange (`ExchangeOK`)
  that its code was issued, that it is of the flow where state or PKCE tie it
  (`CodesTied`; by the state at once, by PKCE once it was redeemed), that a sound
  id_token names who authenticated with some code and its nonce (`Authentic`), and by
  when it is over; and of a session's token (`TokenOK`) whom its own fields and its
  claims name. Where neither ties the code, the nonce closes the proof.
* `RequestPipeline_proofs`: `TypeCorrect`, `OnlyTheEntitledAreServed` and
  `RejectionIsFinal`, for chains of any length. `PipeInv` says that the header is the one
  presented until a middleware rejects it (`HeaderKept`), that each extension was
  attached by a layer that was passed and says what that layer may say
  (`ExtensionsVouched`), that every layer passed so far holds, and that the handler is
  told a vouched identity (`ToldVouched`).

Only model-checked: liveness under fairness (`RevocationDrains`), which the prover does
not reach. Every other property of a passing run is a theorem. `RefetchesSpaced` is
false, as its run shows.

## Not modelled

* URLs, host name checks and the profile fields of the OAuth2 providers; requests of
  GitHub and LinkedIn for e-mail addresses.
* Cryptography, hashing and encoding: a hash is what it hashes, a signature is a
  flag, random draws do not repeat (TOTP codes do). So the branches for a record
  whose hash does not match are taken only where a store may answer loosely, or where
  the application finds a magic link's record by other means.
* The user, name and scopes of an API key, the values of SAML attributes, XML and
  contact data of SAML metadata, the single logout endpoint (announced, never served),
  output lengths and formats of password hashes, base32 and QR codes.
* `u32` overflow of a counter (2^32 requests in a window), a TOTP step of zero (refused
  at once).
* Callers that do not lock what they load: a second factor is proved one-time for
  callers that lock the user record (`setting.locked`), a magic link on a record of the
  application's own likewise. Without the lock two copies are both accepted, which the
  documentation leaves to the caller.
* WebAuthn: each method hands its arguments to `webauthn-rs`, which makes and checks the
  ceremony's state; the crate keeps none, so there is nothing of it to check. The error
  enums: a model tells apart what callers do differently.

## Plan

Done: keys and limiter, magic links with either keeper, SAML replay and logins, second
factor, password hasher and local login, JWKS, the OAuth2 flow, the request pipeline with
`JwtStrategy`; the proofs above.

1. `OAuthFlow` composed with `Jwks`: the first lookup, the forced one and the claim
   checks of one `verify_id_token` over one cache. Now the flow takes the key lookup as
   an outcome, and the cache is checked for every order of lookups.
2. An abstract login ("whoever is logged in proved it in this flow") that `OAuthFlow`,
   `SamlLogin` and `LocalLogin` implement.
