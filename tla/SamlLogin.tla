----------------------------- MODULE SamlLogin -----------------------------
(***************************************************************************)
(* SAML logins from the AuthnRequest to the session (src/saml.rs): a       *)
(* deployment builds its SamlServiceProvider from a SamlConfig,            *)
(* create_auth_request starts a login whose request ID and RelayState the  *)
(* application keeps in the browser's session, and the assertion consumer  *)
(* service hands what a browser posts to validate_response, or to          *)
(* validate_unsolicited_response where no login was started.  Several      *)
(* processes serve the sessions; a restart empties a process's own replay  *)
(* cache, a shared cache survives it.                                      *)
(*                                                                         *)
(* The replay cache is the one-time record that SamlReplay shows it to be, *)
(* and time is only that an assertion expires.  The identity provider,     *)
(* samael's parsing, the browsers and the session store are external.  A   *)
(* RelayState stands for the request it was drawn with: both are random    *)
(* and drawn once.                                                         *)
(***************************************************************************)
EXTENDS Naturals, FiniteSets

CONSTANTS
    Sessions,     \* browsers, with the application's session of each
    Requests,     \* AuthnRequest IDs, and the RelayStates drawn with them
    Assertions,   \* assertion IDs
    Attributes,   \* attribute names
    Processes,    \* each with its own InMemoryReplayCache
    Calls,        \* callbacks at once
    Deployments,  \* configurations an application may choose
    Forms,        \* what responses may look like
    None,
    MaxRestarts   \* bound on the restarts of processes

\* SamlConfig and what the application does with the provider: the metadata of the
\* identity provider, and whether it names a single sign-on endpoint and a signing
\* certificate; which of certificate and private key the application configured;
\* whether it hands the RelayState to validate_response, leaves a started login in the
\* session after its callback, and attached a cache that all processes share.
Deployment ==
    [entityId : BOOLEAN, acsUrl : BOOLEAN, metadata : {"xml", "unparsable", "url"},
     endpoint : BOOLEAN, certificate : BOOLEAN,
     keys : {"none", "certificate", "pair", "unreadable"},
     unsigned : BOOLEAN, idpInitiated : BOOLEAN, required : SUBSET Attributes,
     relay : BOOLEAN, keeps : BOOLEAN, cache : {"memory", "shared"}]

\* A response: signed by the identity provider, or by nobody who could; issued for
\* this service provider (audience, issuer, destination); with the attributes its
\* statements name or nickname, of which some have neither; with NameID and ID or not.
Form == [signed : BOOLEAN, ours : BOOLEAN, named : SUBSET Attributes,
         nicknamed : SUBSET Attributes, nameId : BOOLEAN, id : BOOLEAN]

ASSUME SamlLoginAssumption ==
    /\ Deployments \subseteq Deployment
    /\ Forms \subseteq Form
    /\ None \notin Sessions \cup Requests \cup Assertions \cup Processes
    /\ MaxRestarts \in Nat

VARIABLES
    deployment,
    pending,    \* the application's sessions: the login each has started, or None
    sentBy,     \* history: the session each request was created for, None before
    response,   \* what exists to be posted: assertion -> response, or None
    expired,    \* assertions past their NotOnOrAfter and the tolerated skew
    seen,       \* the assertions a cache remembers: of each process, and the shared one
    call,       \* what each callback is doing
    logins,     \* history: <<session, assertion, request or None>> logged in
    count,      \* history: logins by each assertion
    failed,     \* history: assertions a cache answered with an error
    restarts

vars == <<deployment, pending, sentBy, response, expired, seen, call, logins, count,
          failed, restarts>>
environment == <<pending, sentBy, response, expired, restarts>>
history == <<logins, count, failed>>

Shared == None
Caches == Processes \cup {Shared}
Response == [inResponseTo : Requests \cup {None}, relay : Requests \cup {None},
             genuine : BOOLEAN, form : Form]
CallState == [pc : {"idle", "validate", "record"}, on : Processes \cup {None},
              session : Sessions \cup {None}, expected : Requests \cup {None},
              assertion : Assertions \cup {None}, received : Requests \cup {None}]
Idle == [pc |-> "idle", on |-> None, session |-> None, expected |-> None,
         assertion |-> None, received |-> None]

\* SamlServiceProvider::new refuses a configuration without its two identifiers, and
\* metadata it cannot parse; metadata that is a URL it accepts, unread.
Constructed(d) == d.entityId /\ d.acsUrl /\ d.metadata # "unparsable"

Init ==
    /\ deployment \in {d \in Deployments : Constructed(d)}
    /\ pending = [s \in Sessions |-> None]
    /\ sentBy = [q \in Requests |-> None]
    /\ response = [a \in Assertions |-> None]
    /\ expired = {}
    /\ seen = [x \in Caches |-> {}]
    /\ call = [c \in Calls |-> Idle]
    /\ logins = {}
    /\ count = [a \in Assertions |-> 0]
    /\ failed = {}
    /\ restarts = 0

-----------------------------------------------------------------------------
\* The request is signed with both keys, unsigned without one of them; a key that is
\* no PEM is an error.
Signable == deployment.keys # "unreadable"
Signed == deployment.keys = "pair"

\* get_metadata announces the certificate, if there is one.
AnnouncesKey == deployment.keys # "none"

\* create_auth_request: the login the session had started before is replaced.
CreateAuthRequest(s) ==
    /\ deployment.metadata = "xml"
    /\ deployment.endpoint
    /\ Signable
    /\ \E q \in Requests :
          /\ sentBy[q] = None
          /\ sentBy' = [sentBy EXCEPT ![q] = s]
          /\ pending' = [pending EXCEPT ![s] = q]
    /\ UNCHANGED <<deployment, response, expired, seen, call, history, restarts>>

\* The identity provider answers a request, unless it knows from the metadata a
\* certificate that the request is not signed with, or issues an unsolicited response.
Answer(a) ==
    /\ response[a] = None
    /\ \E q \in Requests \cup {None}, f \in Forms :
          /\ q # None => sentBy[q] # None /\ (AnnouncesKey => Signed)
          /\ f.signed = ~deployment.unsigned
          /\ response' = [response EXCEPT ![a] =
                [inResponseTo |-> q, relay |-> q, genuine |-> TRUE, form |-> f]]
    /\ UNCHANGED <<deployment, pending, sentBy, expired, seen, call, history, restarts>>

\* Somebody else writes a response, which no key of the identity provider signs.
Forge(a) ==
    /\ response[a] = None
    /\ \E q \in Requests, f \in Forms :
          /\ sentBy[q] # None
          /\ ~f.signed
          /\ response' = [response EXCEPT ![a] =
                [inResponseTo |-> q, relay |-> None, genuine |-> FALSE, form |-> f]]
    /\ UNCHANGED <<deployment, pending, sentBy, expired, seen, call, history, restarts>>

Expire(a) ==
    /\ response[a] # None
    /\ expired' = expired \cup {a}
    /\ UNCHANGED <<deployment, pending, sentBy, response, seen, call, history, restarts>>

-----------------------------------------------------------------------------
\* A browser posts a response, its own or one it was given, to a process.  The
\* RelayState comes along or is lost.  The application calls validate_response with
\* the login the session has started, and takes that login out of the session or
\* leaves it there; with none started it calls validate_unsolicited_response.
Callback(c) ==
    /\ call[c] = Idle
    /\ \E s \in Sessions, p \in Processes, a \in Assertions :
          /\ response[a] # None
          /\ \E r \in {response[a].relay, None} :
                call' = [call EXCEPT ![c] =
                           [pc |-> "validate", on |-> p, session |-> s,
                            expected |-> pending[s], assertion |-> a, received |-> r]]
          /\ pending' = IF deployment.keeps THEN pending ELSE [pending EXCEPT ![s] = None]
    /\ UNCHANGED <<deployment, sentBy, response, expired, seen, history, restarts>>

\* An unsolicited response is looked at only where the deployment allows it; a login
\* that was started has its RelayState compared, when the application passed it.
RelayIgnored(c) == TRUE
RelayReturned(c) == deployment.relay => call[c].received = call[c].expected

Expected(c) ==
    IF call[c].expected = None THEN deployment.idpInitiated ELSE RelayReturned(c)

\* Without certificates nothing is accepted, unless unsigned assertions are allowed:
\* then the certificates are taken out of a copy of the metadata, and no signature is
\* looked at.
SignatureAccepted(f) == deployment.unsigned \/ (deployment.certificate /\ f.signed)

\* samael's conditions, and the correlation with the request that it skips where
\* IdP-initiated responses are allowed.
CorrelationSkipped(c) == TRUE
Correlated(c) ==
    \/ deployment.idpInitiated
    \/ response[call[c].assertion].inResponseTo = call[c].expected

\* extract_saml_attributes: an attribute goes by its name, else by its friendly name.
Extracted(f) == f.named \cup f.nicknamed

VerifiedButId(c) ==
    LET a == call[c].assertion
        f == response[a].form
    IN  /\ deployment.metadata = "xml"
        /\ SignatureAccepted(f)
        /\ f.ours /\ a \notin expired
        /\ Correlated(c)
        /\ deployment.required \subseteq Extracted(f)
        /\ f.nameId

Verified(c) == VerifiedButId(c) /\ response[call[c].assertion].form.id

\* The part of validate_response, or validate_unsolicited_response, before the cache.
\* A refusal changes nothing; in particular the cache does not hear of it.
ValidateRemembering(c) ==
    /\ call[c].pc = "validate"
    /\ IF Expected(c) /\ Verified(c)
       THEN call' = [call EXCEPT ![c].pc = "record"] /\ UNCHANGED seen
       ELSE /\ call' = [call EXCEPT ![c] = Idle]
            /\ seen' = [seen EXCEPT ![call[c].on] = @ \cup {call[c].assertion}]
    /\ UNCHANGED <<deployment, environment, history>>

Validate(c) ==
    /\ call[c].pc = "validate"
    /\ call' = [call EXCEPT ![c] = IF Expected(c) /\ Verified(c)
                                   THEN [@ EXCEPT !.pc = "record"] ELSE Idle]
    /\ UNCHANGED <<deployment, environment, seen, history>>

\* The cache of process p: its own, unless with_replay_cache attached another.
OwnCache(p) == p
CacheOf(p) == IF deployment.cache = "shared" THEN Shared ELSE p

\* record_assertion: the first use logs the session in, a replay is refused.  A shared
\* cache may fail, with the assertion recorded or not.
RecordAssertion(c) ==
    LET a == call[c].assertion
        x == CacheOf(call[c].on)
        remembered == seen' = [seen EXCEPT ![x] = @ \cup {a}]
    IN
    /\ call[c].pc = "record"
    /\ \/ /\ a \notin seen[x]
          /\ remembered
          /\ logins' = logins \cup {<<call[c].session, a, call[c].expected>>}
          /\ count' = [count EXCEPT ![a] = @ + 1]
          /\ UNCHANGED failed
       \/ a \in seen[x] /\ UNCHANGED <<seen, history>>
       \/ /\ deployment.cache = "shared"
          /\ remembered \/ UNCHANGED seen
          /\ failed' = failed \cup {a}
          /\ UNCHANGED <<logins, count>>
    /\ call' = [call EXCEPT ![c] = Idle]
    /\ UNCHANGED <<deployment, environment>>

\* A process ends, with its cache and its calls, and starts again.
Restart(p) ==
    /\ restarts < MaxRestarts
    /\ restarts' = restarts + 1
    /\ seen' = [seen EXCEPT ![p] = {}]
    /\ call' = [c \in Calls |-> IF call[c].on = p THEN Idle ELSE call[c]]
    /\ UNCHANGED <<deployment, pending, sentBy, response, expired, history>>

Next ==
    \/ \E s \in Sessions : CreateAuthRequest(s)
    \/ \E a \in Assertions : Answer(a)
    \/ \E a \in Assertions : Forge(a)
    \/ \E a \in Assertions : Expire(a)
    \/ \E c \in Calls : Callback(c)
    \/ \E c \in Calls : Validate(c)
    \/ \E c \in Calls : RecordAssertion(c)
    \/ \E p \in Processes : Restart(p)

Spec == Init /\ [][Next]_vars

-----------------------------------------------------------------------------
\* Every variable has the shape the code gives it, and no empty assertion ID waits for
\* the cache, where it would pass for every other one.
TypeOK ==
    /\ deployment \in Deployments
    /\ pending \in [Sessions -> Requests \cup {None}]
    /\ sentBy \in [Requests -> Sessions \cup {None}]
    /\ response \in [Assertions -> Response \cup {None}]
    /\ expired \subseteq Assertions
    /\ seen \in [Caches -> SUBSET Assertions]
    /\ call \in [Calls -> CallState]
    /\ \A c \in Calls : call[c].pc = "record" => response[call[c].assertion].form.id
    /\ logins \subseteq Sessions \X Assertions \X (Requests \cup {None})
    /\ count \in [Assertions -> Nat]
    /\ failed \subseteq Assertions
    /\ restarts \in 0 .. MaxRestarts

\* A session is logged in by validate_response only with the identity provider's
\* answer to a request that this very session sent, whoever posts whose response
\* where and whatever was started since: by InResponseTo, and where IdP-initiated
\* responses suspend that, by the RelayState if the application passes it.
SessionsDoNotMix ==
    (~deployment.idpInitiated \/ deployment.relay) /\ ~deployment.unsigned =>
        \A x \in logins :
            x[3] # None =>
                /\ response[x[2]].genuine
                /\ response[x[2]].inResponseTo = x[3]
                /\ sentBy[x[3]] = x[1]

\* Over all processes and their restarts an assertion logs in once if the cache is
\* shared; if it is not, correlation still sees to it where the application takes a
\* started login out of its session before the callback is validated.
AssertionsLogInOnce ==
    deployment.cache = "shared" \/ ~(deployment.idpInitiated \/ deployment.keeps) =>
        \A a \in Assertions : count[a] <= 1

\* The callback of the session's own login, with what the identity provider answered
\* to it, complete, in time and never used.
Rightful(c) ==
    LET a == call[c].assertion
        r == response[a]
        f == r.form
    IN  /\ call[c].expected # None
        /\ r.genuine /\ r.inResponseTo = call[c].expected
        /\ call[c].received = call[c].expected
        /\ f.ours /\ f.nameId /\ f.id
        /\ deployment.required \subseteq f.named \cup f.nicknamed
        /\ deployment.certificate \/ deployment.unsigned
        /\ a \notin expired
        /\ count[a] = 0 /\ a \notin failed

\* Such a callback is never refused: nothing that was refused before, in this session
\* or another, spends the assertion.  Only a restart or the cache's error stops it.
RightfulLoginsSucceed ==
    [][\A c \in Calls :
         LET a == call[c].assertion IN
         call[c].pc # "idle" /\ call'[c] = Idle /\ restarts' = restarts /\ Rightful(c) =>
            count'[a] = 1 \/ a \in failed']_vars
=============================================================================
