------------------------------- MODULE SaslBind -------------------------------
(***************************************************************************)
(* A SASL bind: Client.bind and Client.saslBind (src/client.cjs) choose    *)
(* mechanism and credential, BindSasl (native/addon.cc) chooses between    *)
(* one ldap_sasl_bind_s and the loop of RunSaslInteractiveBind.  libldap   *)
(* and the server are external: they are modelled by every answer the loop *)
(* tells apart.                                                            *)
(***************************************************************************)
EXTENDS Integers

CONSTANT MaxRounds  \* bound: answers of the server in one bind

ASSUME MaxRoundsAssumption == MaxRounds \in Nat

VARIABLES
  config,    \* this.options.sasl
  request,   \* what bind() or saslBind() was called with
  payload,   \* what native.bindSasl is called with
  timeout,   \* options.timeout > 0: LDAP_OPT_TIMEOUT is set on the handle
  pc,        \* "called", "bind" (top of the loop), "wait" (ldap_result),
             \* "oneShot", "resolved", "rejected"
  currentMechanism,
  result,    \* the LDAPMessage in hand: what it says, or "none"
  held,      \* LDAPMessages received and not freed
  rounds,    \* answers of the server so far
  agreed,    \* the mechanism libldap negotiates with the server, or "none"
  server     \* what the server last said in this negotiation

calledWith == <<config, request, payload, timeout>>
vars == <<calledWith, pc, currentMechanism, result, held, rounds, agreed, server>>

Mechanisms == {"PLAIN", "EXTERNAL", "GSSAPI"}
Answers == {"challenge", "accept", "refuse"}

\* options.sasl of the client: a mechanism, a credential, and any of user,
\* password, realm, proxyUser (the interactive defaults).
Configs == [mechanism : {"none", "PLAIN", "GSSAPI"}, credential : BOOLEAN,
            defaults : BOOLEAN]

\* bind(mechanism, password), and saslBind(options), where a mechanism or
\* credential may be left out or be null.
Requests ==
  [call : {"bind"}, mechanism : Mechanisms, credential : {"null", "given"},
   defaults : {FALSE}]
  \cup [call : {"saslBind"}, mechanism : {"undefined", "null"} \cup Mechanisms,
        credential : {"undefined", "null", "given"}, defaults : BOOLEAN]

\* bind('GSSAPI', password): normalizeSaslOptions gets password ?? null, which
\* overrides options.sasl.credential either way.
BindPayload(sasl, mechanism, password) ==
  [mechanism |-> mechanism, credential |-> password, defaults |-> sasl.defaults]

\* saslBind(options): options go over options.sasl; undefined keeps what is
\* configured, null drops it.
SaslPayloadConfigured(sasl, options) ==
  [mechanism |-> IF sasl.mechanism = "none" /\ options.mechanism \in Mechanisms
                 THEN options.mechanism ELSE sasl.mechanism,
   credential |-> sasl.credential \/ options.credential = "given",
   defaults |-> sasl.defaults \/ options.defaults]
SaslPayload(sasl, options) ==
  [mechanism |-> CASE options.mechanism = "undefined"   -> sasl.mechanism
                   [] options.mechanism = "null"        -> "none"
                   [] options.mechanism \in Mechanisms -> options.mechanism,
   credential |-> \/ options.credential = "given"
                  \/ options.credential = "undefined" /\ sasl.credential,
   defaults |-> sasl.defaults \/ options.defaults]

PayloadFor(sasl, asked) ==
  IF asked.call = "bind"
  THEN BindPayload(sasl, asked.mechanism, asked.credential = "given")
  ELSE SaslPayload(sasl, asked)

TypeOK ==
  /\ config \in Configs /\ request \in Requests
  /\ payload \in [mechanism : {"none"} \cup Mechanisms, credential : BOOLEAN,
                  defaults : BOOLEAN]
  /\ timeout \in BOOLEAN
  /\ pc \in {"called", "bind", "wait", "oneShot", "resolved", "rejected"}
  /\ currentMechanism \in {"none"} \cup Mechanisms
  /\ result \in {"none"} \cup Answers
  /\ held \in Nat
  /\ rounds \in 0 .. MaxRounds
  /\ agreed \in {"none"} \cup Mechanisms
  /\ server \in {"none", "silent"} \cup Answers

Init ==
  /\ config \in Configs /\ request \in Requests
  /\ payload = PayloadFor(config, request)
  /\ timeout \in BOOLEAN
  /\ pc = "called"
  /\ currentMechanism = "none"
  /\ result = "none"
  /\ held = 0
  /\ rounds = 0
  /\ agreed = "none"
  /\ server = "none"

\* A GSSAPI bind, one without a mechanism or one with defaults is interactive,
\* unless a raw credential is given.
Interactive(p) ==
  /\ ~p.credential
  /\ p.mechanism \in {"none", "GSSAPI"} \/ p.defaults

\* BindSasl, up to the call that goes to the network; bad securityProperties
\* end it here.
Dispatch ==
  /\ pc = "called"
  /\ \/ /\ Interactive(payload)
        /\ pc' = "bind"
        /\ currentMechanism' = payload.mechanism
     \/ /\ ~Interactive(payload)
        /\ pc' = "oneShot"
        /\ UNCHANGED currentMechanism
     \/ /\ pc' = "rejected"
        /\ UNCHANGED currentMechanism
  /\ UNCHANGED <<calledWith, result, held, rounds, agreed, server>>

\* ldap_sasl_bind_s: one request, one answer; a challenge is an error.
OneShot ==
  /\ pc = "oneShot"
  /\ \E answer \in Answers :
       /\ server' = answer
       /\ pc' = IF answer = "accept" THEN "resolved" ELSE "rejected"
  /\ agreed' = payload.mechanism
  /\ UNCHANGED <<calledWith, currentMechanism, result, held, rounds>>

-------------------------------------------------------------------------------
(* RunSaslInteractiveBind *)

\* ldap_sasl_interactive_bind without a message in hand: libldap begins a
\* negotiation, of any mechanism if it is given none.
BeginNegotiation ==
  /\ pc = "bind" /\ result = "none"
  /\ \/ /\ agreed' \in IF currentMechanism = "none" THEN Mechanisms
                       ELSE {currentMechanism}
        /\ server' = "silent"
        /\ pc' = "wait"
        /\ currentMechanism' = "none"
     \/ /\ pc' = "rejected"
        /\ UNCHANGED <<agreed, server, currentMechanism>>
  /\ UNCHANGED <<calledWith, result, held, rounds>>

\* ldap_sasl_interactive_bind with the server's answer: success, another
\* request, or an error.  The message is freed in every case.
ContinueLeaks ==
  /\ pc = "bind" /\ result # "none"
  /\ pc' \in CASE result = "accept"    -> {"resolved", "rejected"}
               [] result = "challenge" -> {"wait", "rejected"}
               [] result = "refuse"    -> {"rejected"}
  /\ result' = "none"
  /\ held' = IF pc' = "wait" THEN held - 1 ELSE held
  /\ currentMechanism' = IF pc' = "wait" THEN "none" ELSE currentMechanism
  /\ UNCHANGED <<calledWith, rounds, agreed, server>>
ContinueTrusts ==
  /\ pc = "bind" /\ result # "none"
  /\ pc' \in IF result = "challenge" THEN {"wait", "resolved", "rejected"}
             ELSE {"resolved", "rejected"}
  /\ result' = "none"
  /\ held' = held - 1
  /\ currentMechanism' = IF pc' = "wait" THEN "none" ELSE currentMechanism
  /\ UNCHANGED <<calledWith, rounds, agreed, server>>
ContinueNegotiation ==
  /\ pc = "bind" /\ result # "none"
  /\ pc' \in CASE result = "accept"    -> {"resolved", "rejected"}
               [] result = "challenge" -> {"wait", "rejected"}
               [] result = "refuse"    -> {"rejected"}
  /\ result' = "none"
  /\ held' = held - 1
  /\ currentMechanism' = IF pc' = "wait" THEN "none" ELSE currentMechanism
  /\ UNCHANGED <<calledWith, rounds, agreed, server>>

\* ldap_result returns the server's answer.
Answer ==
  /\ pc = "wait" /\ rounds < MaxRounds
  /\ \E answer \in Answers :
       /\ (answer = "challenge" => rounds + 1 < MaxRounds)
       /\ server' = answer
       /\ result' = answer
  /\ held' = held + 1
  /\ rounds' = rounds + 1
  /\ pc' = "bind"
  /\ UNCHANGED <<calledWith, currentMechanism, agreed>>

\* ldap_result returns -1: the bind ends with LDAP_OPT_RESULT_CODE.
ConnectionLost ==
  /\ pc = "wait"
  /\ pc' = "rejected"
  /\ UNCHANGED <<calledWith, currentMechanism, result, held, rounds, agreed, server>>

\* ldap_result returns 0, no answer within LDAP_OPT_TIMEOUT: the loop goes on,
\* without a message.
TimeOutAlways ==
  /\ pc = "wait"
  /\ pc' = "bind"
  /\ UNCHANGED <<calledWith, currentMechanism, result, held, rounds, agreed, server>>
TimeOut ==
  /\ pc = "wait" /\ timeout
  /\ pc' = "bind"
  /\ UNCHANGED <<calledWith, currentMechanism, result, held, rounds, agreed, server>>

Next ==
  \/ Dispatch \/ OneShot \/ BeginNegotiation \/ ContinueNegotiation
  \/ Answer \/ ConnectionLost \/ TimeOut

\* The addon runs to the end of the call; a server that has no time limit
\* answers, or the connection breaks.
Fairness ==
  /\ WF_vars(Dispatch) /\ WF_vars(OneShot)
  /\ WF_vars(BeginNegotiation) /\ WF_vars(ContinueNegotiation)
  /\ WF_vars(Answer \/ ConnectionLost)

Spec == Init /\ [][Next]_vars
FairSpec == Spec /\ Fairness

-------------------------------------------------------------------------------
(* Properties *)

Settled == pc \in {"resolved", "rejected"}

\* Every LDAPMessage is freed once, on every way out of the loop.
MessagesFreed == held = IF result = "none" THEN 0 ELSE 1

\* A bind resolves only when the server's last word in the negotiation was an
\* acceptance.
ResolvedMeansAccepted == pc = "resolved" => server = "accept"

\* What the caller asked for: the mechanism it named; if it named none, the one
\* that is configured; and any, or that of a simple bind, if there is none or the
\* caller dropped it.
MechanismsAsked ==
  IF request.mechanism \in Mechanisms THEN {request.mechanism}
  ELSE IF request.mechanism = "undefined" /\ config.mechanism # "none"
       THEN {config.mechanism} ELSE {"none"} \cup Mechanisms

\* A bind that resolves without a time limit has negotiated what its caller asked
\* for, whatever else is configured; and a raw credential was only sent, in the
\* one request that carries it, if the caller gave it or left the configured one
\* in place.
ResolvedAsAsked ==
  /\ pc = "resolved" /\ ~timeout => agreed \in MechanismsAsked
  /\ pc \in {"oneShot", "resolved"} /\ payload.credential =>
       \/ request.credential = "given"
       \/ request.credential = "undefined" /\ config.credential

\* Without a time limit every bind settles.
BindSettles == (pc = "called" /\ ~timeout) ~> Settled

\* native/addon.cc:705-710: the client drives ldap_sasl_interactive_bind()
\* "through each LDAP_SASL_BIND_IN_PROGRESS round-trip", which "keeps the SASL
\* state machine intact": once a negotiation is under way, every further call
\* carries the server's answer to the one before.
RoundTripsAnswered == pc = "bind" /\ agreed # "none" => result # "none"
===============================================================================
