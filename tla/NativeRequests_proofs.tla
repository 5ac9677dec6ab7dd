------------------------ MODULE NativeRequests_proofs ------------------------
(***************************************************************************)
(* Theorems about NativeRequests: the safety properties of its run, for    *)
(* every set of result codes.                                              *)
(***************************************************************************)
EXTENDS NativeRequests, TLAPS

\* What a handler holds between two steps, and what it knows by then.
Exactly(objects) == held = [o \in Objects |-> IF o \in objects THEN 1 ELSE 0]

HoldInv ==
  /\ pc = "called" => Exactly({})
  /\ pc = "sending" => Exactly(Arguments)
  /\ pc = "waiting" => Exactly({})
  /\ pc = "reading" => Exactly({"message"})

StageInv ==
  /\ pc \in {"called", "sending", "waiting"} => rc = NoCode
  /\ pc = "waiting" => op = "compare"
  /\ pc = "reading" => rc \in Accepted
  /\ pc # "settled" => outcome = Pending /\ ~badInput

Inv ==
  /\ TypeOK
  /\ HoldInv
  /\ StageInv
  /\ FreedAtTheEnd
  /\ ErrorsCarryTheCode

-------------------------------------------------------------------------------

\* The tables of StatusCodeParser and of the error classes agree.
LEMMA TablesAgree ==
  ASSUME NEW row \in StatusClasses, NEW other \in ClassCodes, row[2] = other[1]
  PROVE  row[1] = other[2]
  BY SMTT(60) DEF StatusClasses, ClassCodes, OperationCodes, ServiceCodes

\* UnknownStatusCodeError has no code of its own.
LEMMA UnknownHasNoCode == \A row \in ClassCodes : row[1] # Unknown
  BY SMTT(60) DEF ClassCodes, OperationCodes, ServiceCodes, Unknown

\* The error made of a code, known or not, has that code.
LEMMA ErrorHasItsCode ==
  ASSUME NEW code
  PROVE  ErrorOf(code).kind = "rejected" /\ ErrorOf(code).code = code
<1>1. CodeOf(ClassFor(code), code) = code
  <2>1. CASE ~\E row \in StatusClasses : row[1] = code
    <3>1. ClassFor(code) = Unknown
      BY <2>1 DEF ClassFor
    <3> QED
      BY <3>1, UnknownHasNoCode DEF CodeOf
  <2>2. CASE \E row \in StatusClasses : row[1] = code
    <3>1. PICK row \in StatusClasses : row[1] = code /\ ClassFor(code) = row[2]
      BY <2>2 DEF ClassFor
    <3>2. CASE \E other \in ClassCodes : other[1] = ClassFor(code)
      <4>1. PICK other \in ClassCodes :
              other[1] = ClassFor(code) /\ CodeOf(ClassFor(code), code) = other[2]
        BY <3>2 DEF CodeOf
      <4> QED
        BY <3>1, <4>1, TablesAgree
    <3>3. CASE ~\E other \in ClassCodes : other[1] = ClassFor(code)
      BY <3>3 DEF CodeOf
    <3> QED
      BY <3>2, <3>3
  <2> QED
    BY <2>1, <2>2
<1> QED
  BY <1>1 DEF ErrorOf

\* Init establishes the invariant.
LEMMA InitInv == Init => Inv
<1> SUFFICES ASSUME Init PROVE Inv
  OBVIOUS
<1>1. TypeOK
  BY DEF Init, TypeOK, Pending
<1>2. HoldInv
  BY DEF Init, HoldInv, Exactly
<1>3. StageInv
  BY DEF Init, StageInv
<1>4. FreedAtTheEnd /\ ErrorsCarryTheCode
  BY DEF Init, FreedAtTheEnd, ErrorsCarryTheCode, Pending
<1> QED
  BY <1>1, <1>2, <1>3, <1>4 DEF Inv

\* Every step keeps the invariant.
LEMMA NextInv == Inv /\ [Next]_vars => Inv'
<1> SUFFICES ASSUME Inv, [Next]_vars PROVE Inv'
  OBVIOUS
<1> USE CodesAssumption
    DEF Inv, TypeOK, HoldInv, StageInv, FreedAtTheEnd,
        ErrorsCarryTheCode, Exactly, Objects, Codes, Special, Pending, Resolved,
        Settle, Accepted, Success, SizeLimitExceeded, CompareFalse, CompareTrue,
        PartialResults, LocalError, Ops,
        Searches
<1>1. CASE Convert
  <2>1. held' = [o \in Objects |-> IF o \in Arguments THEN 1 ELSE 0]
    BY <1>1 DEF Convert, Get
  <2>2. Arguments' = Arguments
    BY <1>1 DEF Convert, Arguments
  <2> QED
    BY <1>1, <2>1, <2>2 DEF Convert
<1>2. CASE ConvertThrows
  <2>1. PICK objects \in {{}, MayHold} : held' = Get(objects)
    BY <1>2 DEF ConvertThrows
  <2>2. objects \subseteq {"attrs", "mods"}
    BY <2>1 DEF MayHold, Arguments
  <2>3. held' \in [Objects -> Nat]
    BY <1>2, <2>1 DEF ConvertThrows, Get
  <2>4. \A o \in Objects : held'[o] = 0 \/ o \in {"attrs", "mods"}
    BY <1>2, <2>1, <2>2 DEF ConvertThrows, Get
  <2> QED
    BY <1>2, <2>3, <2>4 DEF ConvertThrows, PlainError
<1>3. CASE OptionRefused
  BY <1>3, ErrorHasItsCode DEF OptionRefused
<1>4. CASE ControlRefused
  BY <1>4, ErrorHasItsCode DEF ControlRefused
<1>5. CASE Send
  BY <1>5, ErrorHasItsCode DEF Send, Free, Arguments
<1>6. CASE SendSearch
  BY <1>6, ErrorHasItsCode DEF SendSearch, Free, Arguments
<1>7. CASE Read
  BY <1>7 DEF Read, Free
<1>8. CASE SendExop
  BY <1>8, ErrorHasItsCode DEF SendExop, Get, Arguments
<1>9. CASE SendCompare
  BY <1>9, ErrorHasItsCode DEF SendCompare, Arguments
<1>10. CASE CompareAnswers
  BY <1>10 DEF CompareAnswers
<1>11. CASE CompareFails
  BY <1>11 DEF CompareFails, PlainError
<1>12. CASE CompareTimesOut
  BY <1>12 DEF CompareTimesOut, Crashed
<1>13. CASE UNCHANGED vars
  BY <1>13 DEF vars, Arguments
<1> QED
  BY <1>1, <1>2, <1>3, <1>4, <1>5, <1>6, <1>7, <1>8, <1>9, <1>10, <1>11, <1>12,
     <1>13 DEF Next

\* Every reachable state satisfies the invariant.
LEMMA Invariance == Spec => []Inv
  BY InitInv, NextInv, PTL DEF Spec

\* Whatever a request obtained is freed once when it settles, but for what an
\* argument that does not convert or a refused extended operation leaves.
THEOREM RequestsFree == Spec => []FreedAtTheEnd
<1>1. Inv => FreedAtTheEnd
  BY DEF Inv
<1> QED
  BY <1>1, Invariance, PTL

\* An error carries the code that libldap came back with, whichever it is.
THEOREM CodesSurvive == Spec => []ErrorsCarryTheCode
<1>1. Inv => ErrorsCarryTheCode
  BY DEF Inv
<1> QED
  BY <1>1, Invariance, PTL
===============================================================================
