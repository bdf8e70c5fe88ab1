--------------------------- MODULE SamlLogin_proofs ---------------------------
(***************************************************************************)
(* Proofs about SamlLogin, for any number of sessions, requests,           *)
(* assertions, processes and restarts and for any deployments and forms of *)
(* responses: types, that sessions do not mix, that assertions log in      *)
(* once, and that rightful logins succeed.                                 *)
(***************************************************************************)
EXTENDS SamlLogin, TLAPS

\* What is known of a response by who wrote it.
ResponsesOK ==
    \A a \in Assertions :
        response[a] # None =>
            /\ response[a] \in Response
            /\ response[a].genuine =>
                  /\ response[a].relay = response[a].inResponseTo
                  /\ response[a].form.signed = ~deployment.unsigned
            /\ ~response[a].genuine => ~response[a].form.signed /\ response[a].relay = None
            /\ response[a].inResponseTo # None => sentBy[response[a].inResponseTo] # None

\* A session's login is a request it sent, which only the metadata makes possible.
RequestsOK ==
    /\ \A s \in Sessions : pending[s] # None => sentBy[pending[s]] = s
    /\ \A q \in Requests : sentBy[q] # None => deployment.metadata = "xml"

\* What a callback holds was the session's, and past the checks it passed them.
CallOK(c) ==
    /\ call[c].pc # "idle" =>
          /\ call[c].assertion \in Assertions
          /\ call[c].session \in Sessions
          /\ call[c].on \in Processes
          /\ response[call[c].assertion] # None
          /\ call[c].received \in {response[call[c].assertion].relay, None}
          /\ call[c].expected # None => sentBy[call[c].expected] = call[c].session
    /\ call[c].pc = "record" =>
          /\ Expected(c)
          /\ SignatureAccepted(response[call[c].assertion].form)
          /\ Correlated(c)
          /\ response[call[c].assertion].form.id

\* What ties an accepted response to the session it logged in.
Tied(s, a, q) ==
    /\ response[a] # None
    /\ q # None =>
          /\ sentBy[q] = s
          /\ (~deployment.idpInitiated \/ deployment.relay) /\ ~deployment.unsigned =>
                response[a].genuine /\ response[a].inResponseTo = q

\* A cache remembers only what was accepted, or what it failed on.
SeenOK == \A x \in Caches : \A a \in seen[x] : count[a] > 0 \/ a \in failed

LoginInv ==
    /\ TypeOK
    /\ ResponsesOK
    /\ RequestsOK
    /\ \A c \in Calls : CallOK(c)
    /\ \A x \in logins : Tied(x[1], x[2], x[3])
    /\ SeenOK

\* With a shared cache, what was accepted is in it for good.
SharedOnce ==
    deployment.cache = "shared" =>
        \A a \in Assertions : count[a] # 0 => count[a] = 1 /\ a \in seen[Shared]

\* Without it, but with correlation and logins taken out of their sessions, a request
\* is in one session, or in one callback, or neither, and in neither once its answer
\* was accepted.
Taken(c) == call[c].pc # "idle" /\ call[c].expected # None

TakenOnce ==
    ~deployment.idpInitiated /\ ~deployment.keeps =>
        /\ \A c \in Calls : Taken(c) =>
              /\ \A s \in Sessions : pending[s] # call[c].expected
              /\ \A d \in Calls : Taken(d) /\ call[d].expected = call[c].expected => d = c
        /\ \A a \in Assertions : count[a] # 0 =>
              /\ count[a] = 1
              /\ response[a] # None /\ response[a].inResponseTo # None
              /\ \A s \in Sessions : pending[s] # response[a].inResponseTo
              /\ \A c \in Calls : Taken(c) => call[c].expected # response[a].inResponseTo

OnceInv == SharedOnce /\ TakenOnce

-----------------------------------------------------------------------------
\* Deployments, responses and the origin of requests do not change.
LEMMA Lasting ==
    ASSUME LoginInv, [Next]_vars
    PROVE  /\ deployment' = deployment
           /\ \A a \in Assertions : response[a] # None => response'[a] = response[a]
           /\ \A q \in Requests : sentBy[q] # None => sentBy'[q] = sentBy[q]
<1> USE DEF LoginInv, TypeOK, environment, history
<1>1. ASSUME NEW s \in Sessions, CreateAuthRequest(s)
      PROVE  /\ UNCHANGED <<deployment, response>>
             /\ \A q \in Requests : sentBy[q] # None => sentBy'[q] = sentBy[q]
  BY <1>1 DEF CreateAuthRequest
<1>2. ASSUME NEW a \in Assertions, Answer(a) \/ Forge(a)
      PROVE  /\ UNCHANGED <<deployment, sentBy>>
             /\ \A b \in Assertions : response[b] # None => response'[b] = response[b]
  BY <1>2 DEF Answer, Forge
<1> QED
  BY <1>1, <1>2 DEF Next, vars, Expire, Callback, Validate, RecordAssertion, Restart

\* What a running callback was checked for stays true of it.
LEMMA CallStays ==
    ASSUME LoginInv, [Next]_vars, NEW c \in Calls, call'[c] = call[c]
    PROVE  CallOK(c)'
<1>1. CallOK(c) /\ TypeOK /\ call[c] \in CallState
  BY DEF LoginInv, TypeOK
<1>2. call[c].expected \in Requests \cup {None}
  BY <1>1 DEF CallState
<1>3. deployment' = deployment
  BY Lasting
<1>4. call[c].pc # "idle" =>
         /\ response'[call[c].assertion] = response[call[c].assertion]
         /\ call[c].expected # None => sentBy'[call[c].expected] = sentBy[call[c].expected]
  <2> SUFFICES ASSUME call[c].pc # "idle"
               PROVE  /\ response'[call[c].assertion] = response[call[c].assertion]
                      /\ call[c].expected # None =>
                            sentBy'[call[c].expected] = sentBy[call[c].expected]
    OBVIOUS
  <2>1. call[c].assertion \in Assertions /\ response[call[c].assertion] # None
    BY <1>1 DEF CallOK
  <2>2. call[c].expected # None => sentBy[call[c].expected] \in Sessions
    BY <1>1 DEF CallOK
  <2> QED
    BY <1>2, <2>1, <2>2, Lasting, SamlLoginAssumption
<1> QED
  BY <1>1, <1>3, <1>4 DEF CallOK, Expected, RelayReturned, SignatureAccepted, Correlated

\* An idle callback promises nothing.
LEMMA IdleOK == ASSUME NEW c, call[c] = Idle PROVE CallOK(c) /\ ~Taken(c)
BY DEF CallOK, Idle, Taken

\* So does what was accepted.
LEMMA TiedStays ==
    ASSUME LoginInv, [Next]_vars, NEW s \in Sessions, NEW a \in Assertions,
           NEW q \in Requests \cup {None}, Tied(s, a, q)
    PROVE  Tied(s, a, q)'
<1>1. q # None => sentBy[q] # None
  BY SamlLoginAssumption DEF Tied
<1> QED
  BY <1>1, Lasting DEF Tied

\* At first nothing was sent, answered or accepted.
LEMMA InitLoginInv == Init => LoginInv /\ OnceInv
<1> SUFFICES ASSUME Init PROVE LoginInv /\ OnceInv
  OBVIOUS
<1>1. Idle \in CallState
  BY DEF Idle, CallState
<1>2. TypeOK
  BY <1>1, SamlLoginAssumption DEF Init, TypeOK, Idle
<1>3. \A c \in Calls : CallOK(c) /\ ~Taken(c)
  BY IdleOK DEF Init
<1> QED
  BY <1>2, <1>3 DEF Init, LoginInv, ResponsesOK, RequestsOK, SeenOK, OnceInv, SharedOnce,
                       TakenOnce
\* What a step need not be looked at for, if it leaves the variables alone.
LEMMA Frame ==
    ASSUME LoginInv, [Next]_vars
    PROVE  /\ response' = response => ResponsesOK'
           /\ UNCHANGED <<pending, sentBy>> => RequestsOK'
           /\ logins' = logins => \A x \in logins' : Tied(x[1], x[2], x[3])'
           /\ UNCHANGED <<seen, count, failed>> => SeenOK'
           /\ call' = call => \A c \in Calls : CallOK(c)'
<1>1. deployment' = deployment /\ \A q \in Requests : sentBy[q] # None => sentBy'[q] = sentBy[q]
  BY Lasting
<1>2. ASSUME response' = response PROVE ResponsesOK'
  <2> SUFFICES ASSUME NEW a \in Assertions, response[a] # None
               PROVE  /\ response[a] \in Response
                      /\ response[a].genuine =>
                            /\ response[a].relay = response[a].inResponseTo
                            /\ response[a].form.signed = ~deployment.unsigned
                      /\ ~response[a].genuine =>
                            ~response[a].form.signed /\ response[a].relay = None
                      /\ response[a].inResponseTo # None =>
                            sentBy'[response[a].inResponseTo] # None
    BY <1>1, <1>2 DEF ResponsesOK
  <2>1. response[a] \in Response /\ response[a].inResponseTo \in Requests \cup {None}
    BY DEF LoginInv, ResponsesOK, Response
  <2> QED
    BY <1>1, <2>1 DEF LoginInv, ResponsesOK
<1>3. ASSUME UNCHANGED <<pending, sentBy>> PROVE RequestsOK'
  BY <1>1, <1>3 DEF LoginInv, RequestsOK
<1>4. ASSUME logins' = logins, NEW x \in logins' PROVE Tied(x[1], x[2], x[3])'
  <2>1. /\ x[1] \in Sessions /\ x[2] \in Assertions /\ x[3] \in Requests \cup {None}
        /\ Tied(x[1], x[2], x[3])
    BY <1>4 DEF LoginInv, TypeOK
  <2> QED
    BY <2>1, TiedStays
<1>5. ASSUME UNCHANGED <<seen, count, failed>> PROVE SeenOK'
  BY <1>5 DEF LoginInv, SeenOK
<1>6. ASSUME call' = call PROVE \A c \in Calls : CallOK(c)'
  BY <1>6, CallStays
<1> QED
  BY <1>2, <1>3, <1>4, <1>5, <1>6

\* A session that starts a login sends a request nobody sent before.
LEMMA CreateKeepsInv ==
    ASSUME LoginInv, NEW s \in Sessions, CreateAuthRequest(s) PROVE LoginInv'
<1>1. [Next]_vars
  BY DEF Next
<1>2. PICK q \in Requests :
        /\ sentBy[q] = None
        /\ sentBy' = [sentBy EXCEPT ![q] = s]
        /\ pending' = [pending EXCEPT ![s] = q]
  BY DEF CreateAuthRequest
<1>3. deployment.metadata = "xml" /\
      UNCHANGED <<deployment, response, expired, seen, call, logins, count, failed, restarts>>
  BY DEF CreateAuthRequest, history
<1>4. TypeOK'
  BY <1>2, <1>3 DEF LoginInv, TypeOK
<1>5. RequestsOK'
  <2>1. ASSUME NEW t \in Sessions, pending'[t] # None PROVE sentBy'[pending'[t]] = t
    <3>1. CASE t = s
      BY <1>2, <3>1 DEF LoginInv, TypeOK
    <3>2. CASE t # s
      <4>1. pending'[t] = pending[t] /\ pending[t] \in Requests /\ sentBy[pending[t]] = t
        BY <1>2, <2>1, <3>2 DEF LoginInv, TypeOK, RequestsOK
      <4>2. pending[t] # q
        BY <1>2, <4>1, SamlLoginAssumption
      <4> QED
        BY <1>2, <4>1, <4>2 DEF LoginInv, TypeOK
    <3> QED
      BY <3>1, <3>2
  <2> QED
    BY <1>3, <2>1 DEF RequestsOK
<1> QED
  BY <1>1, <1>3, <1>4, <1>5, Frame DEF LoginInv

\* Only the identity provider signs.
LEMMA PostedKeepsInv ==
    ASSUME LoginInv, NEW a \in Assertions, Answer(a) \/ Forge(a) PROVE LoginInv'
<1>1. [Next]_vars
  BY DEF Next
<1>2. PICK r \in Response :
        /\ response[a] = None
        /\ response' = [response EXCEPT ![a] = r]
        /\ r.genuine => r.relay = r.inResponseTo /\ r.form.signed = ~deployment.unsigned
        /\ ~r.genuine => ~r.form.signed /\ r.relay = None
        /\ r.inResponseTo # None => sentBy[r.inResponseTo] # None
  <2>1. CASE Answer(a)
    <3>1. PICK q \in Requests \cup {None}, f \in Forms :
            /\ q # None => sentBy[q] # None
            /\ f.signed = ~deployment.unsigned
            /\ response[a] = None
            /\ response' = [response EXCEPT ![a] =
                  [inResponseTo |-> q, relay |-> q, genuine |-> TRUE, form |-> f]]
      BY <2>1 DEF Answer
    <3>2. [inResponseTo |-> q, relay |-> q, genuine |-> TRUE, form |-> f] \in Response
      BY SamlLoginAssumption DEF Response
    <3> QED
      BY <3>1, <3>2
  <2>2. CASE Forge(a)
    <3>1. PICK q \in Requests, f \in Forms :
            /\ sentBy[q] # None
            /\ ~f.signed
            /\ response[a] = None
            /\ response' = [response EXCEPT ![a] =
                  [inResponseTo |-> q, relay |-> None, genuine |-> FALSE, form |-> f]]
      BY <2>2 DEF Forge
    <3>2. [inResponseTo |-> q, relay |-> None, genuine |-> FALSE, form |-> f] \in Response
      BY SamlLoginAssumption DEF Response
    <3> QED
      BY <3>1, <3>2
  <2> QED
    BY <2>1, <2>2
<1>3. UNCHANGED <<deployment, pending, sentBy, expired, seen, call, logins, count, failed,
                  restarts>>
  BY DEF Answer, Forge, history
<1>4. TypeOK'
  <2>1. response' \in [Assertions -> Response \cup {None}]
    BY <1>2 DEF LoginInv, TypeOK
  <2>2. \A c \in Calls : call[c].pc = "record" => response'[call[c].assertion].form.id
    BY <1>2 DEF LoginInv, TypeOK, CallOK
  <2> QED
    BY <1>3, <2>1, <2>2 DEF LoginInv, TypeOK
<1>5. ResponsesOK'
  BY <1>2, <1>3 DEF LoginInv, TypeOK, ResponsesOK
<1> QED
  BY <1>1, <1>3, <1>4, <1>5, Frame DEF LoginInv

\* A callback carries what its session had started.
LEMMA CallbackKeepsInv ==
    ASSUME LoginInv, NEW c \in Calls, Callback(c) PROVE LoginInv'
<1>1. [Next]_vars
  BY DEF Next
<1>2. PICK s \in Sessions, p \in Processes, a \in Assertions :
        /\ response[a] # None
        /\ \E r \in {response[a].relay, None} :
              call' = [call EXCEPT ![c] =
                         [pc |-> "validate", on |-> p, session |-> s,
                          expected |-> pending[s], assertion |-> a, received |-> r]]
        /\ pending' = IF deployment.keeps THEN pending ELSE [pending EXCEPT ![s] = None]
  BY DEF Callback
<1>r. PICK r \in {response[a].relay, None} :
        call' = [call EXCEPT ![c] =
                   [pc |-> "validate", on |-> p, session |-> s,
                    expected |-> pending[s], assertion |-> a, received |-> r]]
  BY <1>2
<1>3. UNCHANGED <<deployment, sentBy, response, expired, seen, logins, count, failed, restarts>>
  BY DEF Callback, history
<1> DEFINE k == [pc |-> "validate", on |-> p, session |-> s,
                 expected |-> pending[s], assertion |-> a, received |-> r]
<1>4. k \in CallState
  BY <1>2 DEF LoginInv, TypeOK, CallState, ResponsesOK, Response
<1>5. call'[c] = k /\ \A d \in Calls \ {c} : call'[d] = call[d]
  BY <1>r DEF LoginInv, TypeOK
<1>6. TypeOK'
  <2>1. call' \in [Calls -> CallState]
    BY <1>r, <1>4 DEF LoginInv, TypeOK
  <2>2. pending' \in [Sessions -> Requests \cup {None}]
    BY <1>2 DEF LoginInv, TypeOK
  <2>3. \A d \in Calls : call'[d].pc = "record" => response[call'[d].assertion].form.id
    BY <1>5 DEF LoginInv, TypeOK
  <2> QED
    BY <1>3, <2>1, <2>2, <2>3 DEF LoginInv, TypeOK
<1>7. RequestsOK'
  BY <1>2, <1>3 DEF LoginInv, TypeOK, RequestsOK
<1>8. ASSUME NEW d \in Calls PROVE CallOK(d)'
  <2>1. CASE d = c
    <3>1. pending[s] # None => sentBy[pending[s]] = s
      BY DEF LoginInv, RequestsOK
    <3> QED
      BY <1>2, <1>3, <1>5, <2>1, <3>1 DEF CallOK
  <2>2. CASE d # c
    BY <1>1, <1>5, <2>2, CallStays
  <2> QED
    BY <2>1, <2>2
<1> QED
  BY <1>1, <1>3, <1>6, <1>7, <1>8, Frame DEF LoginInv

\* A callback reaches the cache only past every check.
LEMMA ValidateKeepsInv ==
    ASSUME LoginInv, NEW c \in Calls, Validate(c) PROVE LoginInv'
<1>1. [Next]_vars
  BY DEF Next
<1>2. UNCHANGED <<deployment, pending, sentBy, response, expired, seen, logins, count, failed,
                  restarts>>
  BY DEF Validate, environment, history
<1>3. \A d \in Calls \ {c} : call'[d] = call[d]
  BY DEF Validate, LoginInv, TypeOK
<1>4. CASE Expected(c) /\ Verified(c)
  <2>1. call' = [call EXCEPT ![c] = [call[c] EXCEPT !.pc = "record"]]
    BY <1>4 DEF Validate
  <2>2. call[c] \in CallState
    BY DEF LoginInv, TypeOK
  <2>3. [call[c] EXCEPT !.pc = "record"] \in CallState
    BY <2>2 DEF CallState
  <2>4. /\ call'[c].pc = "record" /\ call'[c].on = call[c].on
        /\ call'[c].session = call[c].session /\ call'[c].expected = call[c].expected
        /\ call'[c].assertion = call[c].assertion /\ call'[c].received = call[c].received
    BY <2>1, <2>2 DEF LoginInv, TypeOK, CallState
  <2>5. CallOK(c)'
    BY <1>2, <1>4, <2>4 DEF LoginInv, CallOK, Validate, Expected, RelayReturned, Verified,
                            VerifiedButId, SignatureAccepted, Correlated
  <2>6. \A d \in Calls : CallOK(d)'
    BY <1>1, <1>3, <2>5, CallStays
  <2>7. TypeOK'
    BY <1>2, <1>3, <2>1, <2>3, <2>5 DEF LoginInv, TypeOK, CallOK
  <2> QED
    BY <1>1, <1>2, <2>6, <2>7, Frame DEF LoginInv
<1>5. CASE ~(Expected(c) /\ Verified(c))
  <2>1. call' = [call EXCEPT ![c] = Idle]
    BY <1>5 DEF Validate
  <2>2. Idle \in CallState /\ Idle.pc = "idle"
    BY DEF Idle, CallState
  <2>3. \A d \in Calls : CallOK(d)'
    <3>1. call'[c].pc = "idle"
      BY <2>1, <2>2 DEF LoginInv, TypeOK
    <3> QED
      BY <1>1, <1>3, <3>1, CallStays DEF CallOK
  <2>4. TypeOK'
    BY <1>2, <1>3, <2>1, <2>2 DEF LoginInv, TypeOK
  <2> QED
    BY <1>1, <1>2, <2>3, <2>4, Frame DEF LoginInv
<1> QED
  BY <1>4, <1>5

\* A callback that passed the checks is tied to its session's own login.
LEMMA RecordedIsTied ==
    ASSUME LoginInv, NEW c \in Calls, call[c].pc = "record"
    PROVE  Tied(call[c].session, call[c].assertion, call[c].expected)
<1>1. CallOK(c) /\ call[c] \in CallState
  BY DEF LoginInv, TypeOK
<1> DEFINE a == call[c].assertion
           q == call[c].expected
<1>2. a \in Assertions /\ response[a] # None /\ (q # None => sentBy[q] = call[c].session)
  BY <1>1 DEF CallOK
<1>3. /\ response[a].genuine => response[a].relay = response[a].inResponseTo
      /\ ~response[a].genuine => ~response[a].form.signed /\ response[a].relay = None
  BY <1>2 DEF LoginInv, ResponsesOK
<1>4. ASSUME q # None, ~deployment.idpInitiated \/ deployment.relay, ~deployment.unsigned
      PROVE  response[a].genuine /\ response[a].inResponseTo = q
  <2>1. response[a].genuine
    BY <1>1, <1>3, <1>4 DEF CallOK, SignatureAccepted
  <2>2. CASE ~deployment.idpInitiated
    BY <1>1, <2>1, <2>2 DEF CallOK, Correlated
  <2>3. CASE deployment.relay
    <3>1. call[c].received = q
      BY <1>1, <1>4, <2>3 DEF CallOK, Expected, RelayReturned
    <3>2. q = response[a].relay
      BY <1>1, <1>4, <3>1 DEF CallOK
    <3> QED
      BY <1>3, <2>1, <3>2
  <2> QED
    BY <1>4, <2>1, <2>2, <2>3
<1> QED
  BY <1>2, <1>4 DEF Tied

\* The cache answers, or fails: the assertion it remembers is one it accepted or failed on.
LEMMA RecordKeepsInv ==
    ASSUME LoginInv, NEW c \in Calls, RecordAssertion(c) PROVE LoginInv'
<1>1. [Next]_vars
  BY DEF Next
<1> DEFINE a == call[c].assertion
           x == CacheOf(call[c].on)
<1>2. /\ UNCHANGED <<deployment, pending, sentBy, response, expired, restarts>>
      /\ call' = [call EXCEPT ![c] = Idle]
      /\ call[c].pc = "record"
  BY DEF RecordAssertion, environment
<1>3. CallOK(c) /\ call[c] \in CallState /\ a \in Assertions /\ x \in Caches
  BY <1>2 DEF LoginInv, TypeOK, CallOK, CacheOf, Caches
<1>4. Idle \in CallState /\ Idle.pc = "idle"
  BY DEF Idle, CallState
<1>5. \A d \in Calls : CallOK(d)'
  <2>1. call'[c].pc = "idle" /\ \A d \in Calls \ {c} : call'[d] = call[d]
    BY <1>2, <1>4 DEF LoginInv, TypeOK
  <2> QED
    BY <1>1, <2>1, CallStays DEF CallOK
<1>6. call' \in [Calls -> CallState]
      /\ \A d \in Calls : call'[d].pc = "record" => response'[call'[d].assertion].form.id
  BY <1>2, <1>4 DEF LoginInv, TypeOK
<1>7. CASE /\ seen' = [seen EXCEPT ![x] = @ \cup {a}]
           /\ logins' = logins \cup {<<call[c].session, a, call[c].expected>>}
           /\ count' = [count EXCEPT ![a] = @ + 1]
           /\ UNCHANGED failed
  <2>y. PICK s \in Sessions, b \in Assertions, q \in Requests \cup {None} :
          s = call[c].session /\ b = a /\ q = call[c].expected
    BY <1>2, <1>3 DEF CallOK, CallState
  <2>1. logins' = logins \cup {<<s, b, q>>}
    BY <1>7, <2>y
  <2>2. Tied(s, b, q)'
    <3>1. Tied(s, b, q)
      BY <1>2, <2>y, RecordedIsTied
    <3> QED
      BY <1>1, <3>1, TiedStays
  <2>3. \A z \in logins : Tied(z[1], z[2], z[3])'
    <3> SUFFICES ASSUME NEW z \in logins PROVE Tied(z[1], z[2], z[3])'
      OBVIOUS
    <3>1. /\ z[1] \in Sessions /\ z[2] \in Assertions /\ z[3] \in Requests \cup {None}
          /\ Tied(z[1], z[2], z[3])
      BY DEF LoginInv, TypeOK
    <3> QED
      BY <1>1, <3>1, TiedStays
  <2>4. \A z \in logins' : Tied(z[1], z[2], z[3])'
    <3> SUFFICES ASSUME NEW z \in logins' PROVE Tied(z[1], z[2], z[3])'
      OBVIOUS
    <3>1. CASE z \in logins
      BY <2>3, <3>1
    <3>2. CASE z = <<s, b, q>>
      BY <2>2, <3>2
    <3> QED
      BY <2>1, <3>1, <3>2
  <2>5. count' \in [Assertions -> Nat] /\ count'[a] > 0
        /\ \A d \in Assertions : count'[d] >= count[d]
    BY <1>3, <1>7 DEF LoginInv, TypeOK
  <2>6. SeenOK'
    <3> SUFFICES ASSUME NEW z \in Caches, NEW d \in seen'[z] PROVE count'[d] > 0 \/ d \in failed
      BY <1>7 DEF SeenOK
    <3>1. d \in seen[z] \/ d = a
      BY <1>7 DEF LoginInv, TypeOK
    <3>2. d \in Assertions
      BY <1>3, <3>1 DEF LoginInv, TypeOK
    <3>3. CASE d \in seen[z]
      <4>1. count[d] > 0 \/ d \in failed
        BY <3>3 DEF LoginInv, SeenOK
      <4>2. count[d] \in Nat /\ count'[d] \in Nat /\ count'[d] >= count[d]
        BY <2>5, <3>2 DEF LoginInv, TypeOK
      <4> QED
        BY <4>1, <4>2
    <3> QED
      BY <2>5, <3>1, <3>3
  <2>7. TypeOK'
    BY <1>2, <1>3, <1>6, <1>7, <2>1, <2>5 DEF LoginInv, TypeOK
  <2> QED
    BY <1>1, <1>2, <1>5, <2>4, <2>6, <2>7, Frame DEF LoginInv
<1>8. CASE UNCHANGED <<seen, history>>
  <2>1. TypeOK'
    BY <1>2, <1>6, <1>8 DEF LoginInv, TypeOK, history
  <2> QED
    BY <1>1, <1>2, <1>5, <1>8, <2>1, Frame DEF LoginInv, history
<1>9. CASE /\ (seen' = [seen EXCEPT ![x] = @ \cup {a}]) \/ UNCHANGED seen
           /\ failed' = failed \cup {a}
           /\ UNCHANGED <<logins, count>>
  <2>1. SeenOK'
    BY <1>3, <1>9 DEF LoginInv, TypeOK, SeenOK
  <2>2. TypeOK'
    BY <1>2, <1>3, <1>6, <1>9 DEF LoginInv, TypeOK
  <2> QED
    BY <1>1, <1>2, <1>5, <1>9, <2>1, <2>2, Frame DEF LoginInv
<1> QED
  BY <1>7, <1>8, <1>9 DEF RecordAssertion

\* A restart forgets calls and a cache, and nothing else.
LEMMA RestartKeepsInv ==
    ASSUME LoginInv, NEW p \in Processes, Restart(p) PROVE LoginInv'
<1>1. [Next]_vars
  BY DEF Next
<1>2. /\ UNCHANGED <<deployment, pending, sentBy, response, expired, logins, count, failed>>
      /\ restarts < MaxRestarts /\ restarts' = restarts + 1
      /\ seen' = [seen EXCEPT ![p] = {}]
      /\ call' = [c \in Calls |-> IF call[c].on = p THEN Idle ELSE call[c]]
  BY DEF Restart, history
<1>3. Idle \in CallState /\ Idle.pc = "idle"
  BY DEF Idle, CallState
<1>4. \A c \in Calls : call'[c] = call[c] \/ call'[c] = Idle
  BY <1>2
<1>5. \A c \in Calls : CallOK(c)'
  BY <1>1, <1>3, <1>4, CallStays DEF CallOK
<1>6. SeenOK'
  BY <1>2 DEF LoginInv, TypeOK, SeenOK
<1>7. TypeOK'
  <2>1. restarts' \in 0 .. MaxRestarts
    BY <1>2, SamlLoginAssumption DEF LoginInv, TypeOK
  <2>2. call' \in [Calls -> CallState]
        /\ \A c \in Calls : call'[c].pc = "record" => response[call'[c].assertion].form.id
    BY <1>2, <1>3, <1>4 DEF LoginInv, TypeOK
  <2> QED
    BY <1>2, <2>1, <2>2 DEF LoginInv, TypeOK
<1> QED
  BY <1>1, <1>2, <1>5, <1>6, <1>7, Frame DEF LoginInv

\* Every step keeps what is known of responses, requests, callbacks and logins.
LEMMA NextLoginInv == LoginInv /\ [Next]_vars => LoginInv'
<1> SUFFICES ASSUME LoginInv, [Next]_vars PROVE LoginInv'
  OBVIOUS
<1>1. ASSUME NEW a \in Assertions, Expire(a) PROVE LoginInv'
  <2>1. UNCHANGED <<deployment, pending, sentBy, response, seen, call, logins, count, failed,
                    restarts>>
    BY <1>1 DEF Expire, history
  <2>2. TypeOK'
    BY <1>1, <2>1 DEF LoginInv, TypeOK, Expire
  <2> QED
    BY <2>1, <2>2, Frame DEF LoginInv
<1>2. CASE UNCHANGED vars
  <2>1. TypeOK'
    BY <1>2 DEF LoginInv, TypeOK, vars
  <2> QED
    BY <1>2, <2>1, Frame DEF LoginInv, vars
<1> QED
  BY <1>1, <1>2, CreateKeepsInv, PostedKeepsInv, CallbackKeepsInv, ValidateKeepsInv,
     RecordKeepsInv, RestartKeepsInv DEF Next

-----------------------------------------------------------------------------
\* A shared cache never forgets, and accepts what it does not remember.
LEMMA NextSharedOnce == ASSUME LoginInv, SharedOnce, [Next]_vars PROVE SharedOnce'
<1> SUFFICES ASSUME deployment.cache = "shared", NEW b \in Assertions, count'[b] # 0
             PROVE  count'[b] = 1 /\ b \in seen'[Shared]
  BY Lasting DEF SharedOnce
<1>1. count[b] # 0 => count[b] = 1 /\ b \in seen[Shared]
  BY DEF SharedOnce
<1>2. CASE UNCHANGED <<seen, count>>
  BY <1>1, <1>2
<1>3. ASSUME NEW p \in Processes, Restart(p) PROVE count'[b] = 1 /\ b \in seen'[Shared]
  <2>1. Shared # p /\ Shared \in Caches /\ p \in Caches
    BY SamlLoginAssumption DEF Shared, Caches
  <2> QED
    BY <1>1, <1>3, <2>1 DEF Restart, LoginInv, TypeOK, history
<1>4. ASSUME NEW c \in Calls, RecordAssertion(c) PROVE count'[b] = 1 /\ b \in seen'[Shared]
  <2>1. call[c].assertion \in Assertions /\ CacheOf(call[c].on) = Shared /\ Shared \in Caches
    BY <1>4 DEF RecordAssertion, LoginInv, CallOK, CacheOf, Caches
  <2>2. seen[Shared] \subseteq seen'[Shared]
    BY <1>4, <2>1 DEF RecordAssertion, LoginInv, TypeOK
  <2>3. CASE UNCHANGED count
    BY <1>1, <2>2, <2>3
  <2>4. CASE /\ call[c].assertion \notin seen[Shared]
             /\ seen' = [seen EXCEPT ![Shared] = @ \cup {call[c].assertion}]
             /\ count' = [count EXCEPT ![call[c].assertion] = @ + 1]
    BY <1>1, <2>1, <2>4 DEF LoginInv, TypeOK
  <2> QED
    BY <1>4, <2>1, <2>3, <2>4 DEF RecordAssertion, history
<1> QED
  BY <1>2, <1>3, <1>4 DEF Next, vars, CreateAuthRequest, Answer, Forge, Expire, Callback,
                          Validate, history

\* Callbacks that end, or go on with the same request, take nothing.
LEMMA TakenShrinks ==
    ASSUME LoginInv, TakenOnce, [Next]_vars, UNCHANGED <<pending, count>>,
           \A c \in Calls : Taken(c)' => Taken(c) /\ call'[c].expected = call[c].expected
    PROVE  TakenOnce'
<1> SUFFICES ASSUME ~deployment.idpInitiated, ~deployment.keeps PROVE TakenOnce'
  BY Lasting DEF TakenOnce
<1>1. ASSUME NEW c \in Calls, Taken(c)'
      PROVE  /\ \A s \in Sessions : pending'[s] # call'[c].expected
             /\ \A d \in Calls : Taken(d)' /\ call'[d].expected = call'[c].expected => d = c
  BY <1>1 DEF TakenOnce
<1>2. ASSUME NEW a \in Assertions, count'[a] # 0
      PROVE  /\ count'[a] = 1
             /\ response'[a] # None /\ response'[a].inResponseTo # None
             /\ \A s \in Sessions : pending'[s] # response'[a].inResponseTo
             /\ \A c \in Calls : Taken(c)' => call'[c].expected # response'[a].inResponseTo
  <2>1. response[a] # None /\ response'[a] = response[a]
    BY <1>2, Lasting DEF TakenOnce
  <2> QED
    BY <1>2, <2>1 DEF TakenOnce
<1> QED
  BY <1>1, <1>2 DEF TakenOnce

\* A new request is in no callback, and nothing answered it.
LEMMA CreateTakenOnce ==
    ASSUME LoginInv, TakenOnce, NEW s \in Sessions, CreateAuthRequest(s) PROVE TakenOnce'
<1> SUFFICES ASSUME ~deployment.idpInitiated, ~deployment.keeps PROVE TakenOnce'
  BY DEF TakenOnce, CreateAuthRequest
<1>1. PICK q \in Requests :
        /\ sentBy[q] = None
        /\ pending' = [pending EXCEPT ![s] = q]
  BY DEF CreateAuthRequest
<1>2. UNCHANGED <<deployment, response, call, count>>
  BY DEF CreateAuthRequest, history
<1>3. \A t \in Sessions : pending'[t] = pending[t] \/ pending'[t] = q
  BY <1>1 DEF LoginInv, TypeOK
<1>4. \A c \in Calls : Taken(c) => call[c].expected # q
  BY <1>1, SamlLoginAssumption DEF LoginInv, CallOK, Taken
<1>5. \A a \in Assertions : count[a] # 0 => response[a].inResponseTo # q
  BY <1>1 DEF LoginInv, ResponsesOK, TakenOnce
<1> QED
  BY <1>2, <1>3, <1>4, <1>5 DEF TakenOnce, Taken

\* A callback takes the request out of the one session that has it.
LEMMA CallbackTakenOnce ==
    ASSUME LoginInv, TakenOnce, NEW c \in Calls, Callback(c) PROVE TakenOnce'
<1> SUFFICES ASSUME ~deployment.idpInitiated, ~deployment.keeps PROVE TakenOnce'
  BY DEF TakenOnce, Callback
<1>1. PICK s \in Sessions :
        /\ pending' = [pending EXCEPT ![s] = None]
        /\ call'[c].expected = pending[s]
        /\ \A d \in Calls \ {c} : call'[d] = call[d]
  <2>1. PICK s \in Sessions, p \in Processes, a \in Assertions :
          /\ \E r \in {response[a].relay, None} :
                call' = [call EXCEPT ![c] =
                           [pc |-> "validate", on |-> p, session |-> s,
                            expected |-> pending[s], assertion |-> a, received |-> r]]
          /\ pending' = [pending EXCEPT ![s] = None]
    BY DEF Callback
  <2>2. call'[c].expected = pending[s] /\ \A d \in Calls \ {c} : call'[d] = call[d]
    BY <2>1 DEF LoginInv, TypeOK
  <2> QED
    BY <2>1, <2>2
<1>2. UNCHANGED <<deployment, response, count>>
  BY DEF Callback, history
<1>3. \A t \in Sessions : /\ pending'[t] # None => t # s /\ pending'[t] = pending[t]
                          /\ pending[s] # None => pending'[t] # pending[s]
  BY <1>1 DEF LoginInv, TypeOK, RequestsOK
<1>4. ASSUME NEW d \in Calls, Taken(d)'
      PROVE  /\ \A t \in Sessions : pending'[t] # call'[d].expected
             /\ \A e \in Calls : Taken(e)' /\ call'[e].expected = call'[d].expected => e = d
  BY <1>1, <1>3, <1>4 DEF TakenOnce, Taken
<1>5. ASSUME NEW a \in Assertions, count[a] # 0
      PROVE  /\ \A t \in Sessions : pending'[t] # response[a].inResponseTo
             /\ \A e \in Calls : Taken(e)' => call'[e].expected # response[a].inResponseTo
  BY <1>1, <1>3, <1>5 DEF TakenOnce, Taken
<1> QED
  BY <1>2, <1>4, <1>5 DEF TakenOnce

\* An assertion is accepted with the request it answers, which then is in no session
\* and in no callback.
LEMMA RecordTakenOnce ==
    ASSUME LoginInv, TakenOnce, NEW c \in Calls, RecordAssertion(c) PROVE TakenOnce'
<1> SUFFICES ASSUME ~deployment.idpInitiated, ~deployment.keeps PROVE TakenOnce'
  BY DEF TakenOnce, RecordAssertion
<1> DEFINE a == call[c].assertion
<1>1. UNCHANGED <<deployment, pending, response>> /\ call[c].pc = "record"
  BY DEF RecordAssertion, environment
<1>2. /\ \A d \in Calls : Taken(d)' => d # c /\ Taken(d) /\ call'[d].expected = call[d].expected
  BY DEF RecordAssertion, LoginInv, TypeOK, Taken, Idle
<1>3. CASE UNCHANGED count
  BY <1>1, <1>2, <1>3, TakenShrinks DEF Next
<1>4. CASE count' = [count EXCEPT ![a] = @ + 1]
  <2>1. /\ a \in Assertions /\ response[a] # None /\ Taken(c)
        /\ response[a].inResponseTo = call[c].expected
    BY <1>1 DEF LoginInv, CallOK, Expected, Correlated, Taken
  <2>2. count[a] = 0 /\ count'[a] = 1 /\ \A b \in Assertions \ {a} : count'[b] = count[b]
    BY <1>4, <2>1 DEF LoginInv, TypeOK, TakenOnce
  <2>3. ASSUME NEW d \in Calls, Taken(d)'
        PROVE  /\ \A s \in Sessions : pending'[s] # call'[d].expected
               /\ \A e \in Calls : Taken(e)' /\ call'[e].expected = call'[d].expected => e = d
    BY <1>1, <1>2, <2>3 DEF TakenOnce
  <2>4. ASSUME NEW b \in Assertions, count'[b] # 0
        PROVE  /\ count'[b] = 1
               /\ response'[b] # None /\ response'[b].inResponseTo # None
               /\ \A s \in Sessions : pending'[s] # response'[b].inResponseTo
               /\ \A d \in Calls : Taken(d)' => call'[d].expected # response'[b].inResponseTo
    <3>1. CASE b = a
      <4>1. call[c].expected # None
        BY <2>1 DEF Taken
      <4> QED
        BY <1>1, <1>2, <2>1, <2>2, <3>1, <4>1 DEF TakenOnce
    <3>2. CASE b # a
      BY <1>1, <1>2, <2>2, <2>4, <3>2 DEF TakenOnce
    <3> QED
      BY <3>1, <3>2
  <2> QED
    BY <2>3, <2>4 DEF TakenOnce
<1> QED
  BY <1>3, <1>4 DEF RecordAssertion, history

\* Every step keeps both.
LEMMA NextOnceInv == LoginInv /\ OnceInv /\ [Next]_vars => OnceInv'
<1> SUFFICES ASSUME LoginInv, OnceInv, [Next]_vars PROVE OnceInv'
  OBVIOUS
<1>1. ASSUME NEW c \in Calls, Validate(c) PROVE TakenOnce'
  <2>1. \A d \in Calls : Taken(d)' => Taken(d) /\ call'[d].expected = call[d].expected
    BY <1>1 DEF Validate, LoginInv, TypeOK, CallState, Taken, Idle
  <2> QED
    BY <1>1, <2>1, TakenShrinks DEF OnceInv, Validate, environment, history
<1>2. ASSUME NEW p \in Processes, Restart(p) PROVE TakenOnce'
  <2>1. \A d \in Calls : Taken(d)' => Taken(d) /\ call'[d].expected = call[d].expected
    BY <1>2 DEF Restart, Taken, Idle
  <2> QED
    BY <1>2, <2>1, TakenShrinks DEF OnceInv, Restart, history
<1>3. ASSUME UNCHANGED <<pending, call, count>> PROVE TakenOnce'
  <2>1. \A d \in Calls : Taken(d)' => Taken(d) /\ call'[d].expected = call[d].expected
    BY <1>3 DEF Taken
  <2> QED
    BY <1>3, <2>1, TakenShrinks DEF OnceInv
<1>4. TakenOnce'
  BY <1>1, <1>2, <1>3, CreateTakenOnce, CallbackTakenOnce, RecordTakenOnce
     DEF OnceInv, Next, vars, Answer, Forge, Expire, history
<1> QED
  BY <1>4, NextSharedOnce DEF OnceInv

-----------------------------------------------------------------------------
\* Every variable keeps its shape, and the cache is never asked about an empty ID.
THEOREM TypeCorrect == Spec => []TypeOK
<1>1. LoginInv => TypeOK
  BY DEF LoginInv
<1> QED
  BY <1>1, InitLoginInv, NextLoginInv, PTL DEF Spec

\* A session is logged in only with the answer to a request it sent itself.
THEOREM SessionsAreApart == Spec => []SessionsDoNotMix
<1>1. LoginInv => SessionsDoNotMix
  BY DEF LoginInv, SessionsDoNotMix, Tied
<1> QED
  BY <1>1, InitLoginInv, NextLoginInv, PTL DEF Spec

\* An assertion logs in once, over all processes and their restarts.
THEOREM LoginsAreOnce == Spec => []AssertionsLogInOnce
<1>1. LoginInv /\ OnceInv => AssertionsLogInOnce
  <2> SUFFICES ASSUME LoginInv, OnceInv,
                      deployment.cache = "shared" \/ ~(deployment.idpInitiated \/ deployment.keeps),
                      NEW a \in Assertions
               PROVE  count[a] <= 1
    BY DEF AssertionsLogInOnce
  <2>1. count[a] \in Nat /\ (count[a] = 0 \/ count[a] = 1)
    BY DEF LoginInv, TypeOK, OnceInv, SharedOnce, TakenOnce
  <2> QED
    BY <2>1
<1> QED
  BY <1>1, InitLoginInv, NextLoginInv, NextOnceInv, PTL DEF Spec

\* The callback of a session's own login, with the answer to it, is not refused.
THEOREM TheRightfulLogIn == Spec => RightfulLoginsSucceed
<1> DEFINE Refused(c) == /\ call[c].pc # "idle" /\ call'[c] = Idle
                         /\ restarts' = restarts /\ Rightful(c)
           Passed(c) == LET a == call[c].assertion IN count'[a] = 1 \/ a \in failed'
<1>1. ASSUME LoginInv, [Next]_vars, NEW c \in Calls, Refused(c) PROVE Passed(c)
  <2> DEFINE a == call[c].assertion
  <2>1. /\ CallOK(c) /\ a \in Assertions /\ response[a] # None
        /\ call[c] # Idle
    BY <1>1 DEF LoginInv, CallOK, Idle
  <2>2. Validate(c) \/ RecordAssertion(c)
    <3>1. ASSUME NEW d \in Calls, d # c, Callback(d) \/ Validate(d) \/ RecordAssertion(d)
          PROVE  FALSE
      BY <1>1, <2>1, <3>1 DEF Callback, Validate, RecordAssertion, LoginInv, TypeOK
    <3>2. ~Callback(c)
      BY <2>1 DEF Callback
    <3>3. ASSUME NEW p \in Processes, Restart(p) PROVE FALSE
      BY <1>1, <3>3 DEF Restart, LoginInv, TypeOK
    <3> QED
      BY <1>1, <2>1, <3>1, <3>2, <3>3 DEF Next, vars, CreateAuthRequest, Answer, Forge, Expire
  <2>3. CASE Validate(c)
    <3>1. Expected(c)
      BY <1>1 DEF Rightful, Expected, RelayReturned
    <3>2. Verified(c)
      <4>1. deployment.metadata = "xml"
        <5>1. call[c].expected \in Requests /\ sentBy[call[c].expected] # None
          BY <1>1, <2>1, SamlLoginAssumption DEF Rightful, LoginInv, TypeOK, CallState, CallOK
        <5> QED
          BY <1>1, <5>1 DEF LoginInv, RequestsOK
      <4>2. SignatureAccepted(response[a].form)
        BY <1>1, <2>1 DEF Rightful, LoginInv, ResponsesOK, SignatureAccepted
      <4> QED
        BY <1>1, <4>1, <4>2 DEF Rightful, Verified, VerifiedButId, Correlated, Extracted
    <3>3. call'[c].pc = "record"
      BY <1>1, <2>3, <3>1, <3>2 DEF Validate, LoginInv, TypeOK, CallState
    <3> QED
      BY <1>1, <3>3 DEF Idle
  <2>4. CASE RecordAssertion(c)
    <3>1. CacheOf(call[c].on) \in Caches
      BY <1>1, <2>1 DEF CallOK, CacheOf, Caches
    <3>2. a \notin seen[CacheOf(call[c].on)] /\ count[a] = 0
      BY <1>1, <3>1 DEF Rightful, LoginInv, SeenOK
    <3> QED
      BY <1>1, <2>1, <2>4, <3>2 DEF RecordAssertion, LoginInv, TypeOK
  <2> QED
    BY <2>2, <2>3, <2>4
<1>2. LoginInv /\ [Next]_vars =>
        [\A c \in Calls :
           LET a == call[c].assertion IN
           call[c].pc # "idle" /\ call'[c] = Idle /\ restarts' = restarts /\ Rightful(c) =>
              count'[a] = 1 \/ a \in failed']_vars
  BY <1>1
<1> QED
  BY <1>2, InitLoginInv, NextLoginInv, PTL DEF Spec, RightfulLoginsSucceed
=============================================================================
