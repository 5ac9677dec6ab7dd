---------------------------- MODULE SaslBind_proofs ----------------------------
(***************************************************************************)
(* Proofs of the safety properties of SaslBind, for any number of rounds.  *)
(* The inductive invariant is Inv: what is known at each step of the loop  *)
(* about the message in hand and about who chose the mechanism.            *)
(***************************************************************************)
EXTENDS SaslBind, TLAPS

\* A message is only in hand at the top of the loop, and is then the last thing
\* the server said.
HandInv == result # "none" => pc = "bind" /\ server = result

\* Until the first time-out the mechanism is the caller's: before the
\* negotiation begins it is about to be passed to libldap, and from then on it
\* is what libldap negotiates.
MechanismInv ==
  ~timeout /\ payload.mechanism # "none" =>
    /\ pc = "bind" /\ result = "none" => currentMechanism = payload.mechanism
    /\ pc \in {"wait", "resolved"} => agreed = payload.mechanism
    /\ result # "none" => agreed = payload.mechanism

\* The payload is made once, of the configuration and the call.
PayloadInv == payload = PayloadFor(config, request)

Inv == TypeOK /\ PayloadInv /\ MessagesFreed /\ HandInv /\ ResolvedMeansAccepted /\ MechanismInv

-------------------------------------------------------------------------------
\* What saslBind() and bind() hand to the addon has the shape it expects.
LEMMA PayloadsTyped ==
  ASSUME NEW sasl \in Configs, NEW asked \in Requests
  PROVE  PayloadFor(sasl, asked) \in
           [mechanism : {"none"} \cup Mechanisms, credential : BOOLEAN,
            defaults : BOOLEAN]
<1>1. CASE asked.call = "bind"
  BY <1>1 DEF Configs, Requests, Mechanisms, BindPayload, PayloadFor
<1>2. CASE asked.call # "bind"
  <2>1. asked.mechanism \in {"undefined", "null"} \cup Mechanisms
    BY DEF Requests
  <2>2. SaslPayload(sasl, asked).mechanism \in {"none"} \cup Mechanisms
    BY <2>1 DEF Configs, Mechanisms, SaslPayload
  <2>3. asked.defaults \in BOOLEAN /\ sasl.defaults \in BOOLEAN /\ sasl.credential \in BOOLEAN
    BY DEF Configs, Requests
  <2> QED
    BY <1>2, <2>2, <2>3 DEF PayloadFor, SaslPayload
<1> QED
  BY <1>1, <1>2

LEMMA InitInv == Init => Inv
  BY MaxRoundsAssumption, PayloadsTyped
  DEF Init, Inv, TypeOK, PayloadInv, MessagesFreed, HandInv, ResolvedMeansAccepted,
      MechanismInv

LEMMA StepInv == Inv /\ [Next]_vars => Inv'
<1> SUFFICES ASSUME Inv, [Next]_vars PROVE Inv'
  OBVIOUS
<1> USE MaxRoundsAssumption
    DEF Inv, TypeOK, PayloadInv, calledWith, MessagesFreed, HandInv, ResolvedMeansAccepted, MechanismInv,
        Mechanisms, Answers
<1>1. CASE Dispatch
  BY <1>1 DEF Dispatch
<1>2. CASE OneShot
  BY <1>2 DEF OneShot, Interactive
<1>3. CASE BeginNegotiation
  BY <1>3 DEF BeginNegotiation
<1>4. CASE ContinueNegotiation
  BY <1>4 DEF ContinueNegotiation
<1>5. CASE Answer
  BY <1>5 DEF Answer
<1>6. CASE ConnectionLost
  BY <1>6 DEF ConnectionLost
<1>7. CASE TimeOut
  BY <1>7 DEF TimeOut
<1>8. CASE UNCHANGED vars
  BY <1>8 DEF vars
<1> QED
  BY <1>1, <1>2, <1>3, <1>4, <1>5, <1>6, <1>7, <1>8 DEF Next

THEOREM Invariant == Spec => []Inv
  BY InitInv, StepInv, PTL DEF Spec

\* Every variable keeps the values the code gives it, the payload included.
THEOREM TypeCorrect == Spec => []TypeOK
<1>1. Inv => TypeOK
  BY DEF Inv
<1> QED
  BY Invariant, <1>1, PTL

\* Every LDAPMessage is freed once, however many rounds the server asks for and
\* however the loop of RunSaslInteractiveBind is left.
THEOREM NoMessageLost == Spec => []MessagesFreed
<1>1. Inv => MessagesFreed
  BY DEF Inv
<1> QED
  BY Invariant, <1>1, PTL

\* A bind resolves only when the server's last word was an acceptance.
THEOREM SuccessIsAcceptance == Spec => []ResolvedMeansAccepted
<1>1. Inv => ResolvedMeansAccepted
  BY DEF Inv
<1> QED
  BY Invariant, <1>1, PTL

\* A payload names a mechanism its caller asked for, if it names one; if it does
\* not, the caller left the choice open.  It has a credential only if the caller
\* gave one or left the configured one in place.
LEMMA PayloadIsAsked ==
  ASSUME TypeOK, PayloadInv
  PROVE  /\ IF payload.mechanism = "none"
            THEN MechanismsAsked = {"none"} \cup Mechanisms
            ELSE payload.mechanism \in MechanismsAsked
         /\ payload.credential =>
              \/ request.credential = "given"
              \/ request.credential = "undefined" /\ config.credential
<1>1. CASE request.call = "bind"
  BY <1>1 DEF TypeOK, Requests, PayloadInv, PayloadFor, BindPayload, MechanismsAsked,
              Mechanisms
<1>2. CASE request.call # "bind"
  <2>1. /\ request.mechanism \in {"undefined", "null"} \cup Mechanisms
        /\ config.mechanism \in {"none", "PLAIN", "GSSAPI"}
        /\ payload = SaslPayload(config, request)
    BY <1>2 DEF TypeOK, Requests, Configs, PayloadInv, PayloadFor
  <2> QED
    BY <2>1 DEF SaslPayload, MechanismsAsked, Mechanisms
<1> QED
  BY <1>1, <1>2

\* Without a time limit a bind resolves with a mechanism that its caller asked
\* for, whatever is configured: merging keeps it, and the loop forgets it only
\* once libldap has it.  No other credential is sent than the caller wanted.
THEOREM MechanismIsKept == Spec => []ResolvedAsAsked
<1>1. Inv => ResolvedAsAsked
  <2> SUFFICES ASSUME Inv PROVE ResolvedAsAsked
    OBVIOUS
  <2>1. ASSUME pc = "resolved", ~timeout PROVE agreed \in MechanismsAsked
    <3>1. agreed \in {"none"} \cup Mechanisms
      BY DEF Inv, TypeOK
    <3>2. payload.mechanism # "none" => agreed = payload.mechanism
      BY <2>1 DEF Inv, MechanismInv
    <3> QED
      BY <3>1, <3>2, PayloadIsAsked DEF Inv
  <2> QED
    BY <2>1, PayloadIsAsked DEF Inv, ResolvedAsAsked
<1> QED
  BY Invariant, <1>1, PTL
===============================================================================
