-------------------------- MODULE LdapClient_proofs --------------------------
(***************************************************************************)
(* Proofs about LdapClient for every number of clients, directories and    *)
(* ids.  The safety properties are not inductive one by one; Inv below is. *)
(* At the end: a program with no more clients than ids never reuses one,   *)
(* and without reuse the sessions of LdapSession are implemented, step by  *)
(* step.  That a closing session gets closed (fairness) is left to TLC.    *)
(***************************************************************************)
EXTENDS LdapClient, FiniteSetTheorems, TLAPS

\* A constructor that has not returned leaves nothing behind in its object.
UnbuiltIsBlank ==
  \A c \in Clients : phase[c] # "built" =>
    nativeHandle[c] = NoHandle /\ unbinding[c] = 0 /\ tempPaths[c] = {}

\* What the table names is open, belongs to a built client, and is named once.
TableInv ==
  /\ \A i \in Ids : g_handles[i] # NoLd =>
       g_handles[i] \in openLds /\ phase[g_handles[i]] = "built"
  /\ \A i, j \in Ids : g_handles[i] # NoLd /\ g_handles[i] = g_handles[j] => i = j

\* TempFilesAccounted, directory by directory.
FilesInv ==
  /\ \A c, d \in Clients : c # d => tempPaths[c] \cap tempPaths[d] = {}
  /\ \A t \in TempDirs : t \in disk <=>
       t \in lost \/ \E c \in Clients : t \in tempPaths[c]
  /\ \A c \in Clients : tempPaths[c] \cap lost = {}

\* The counter is age[c] steps, modulo IdSpace, past the id after c's.
AgeInv ==
  \A c \in Clients : Holds(c) /\ age[c] < IdSpace =>
    \/ g_nextId = nativeHandle[c] + 1 + age[c]
    \/ g_nextId = nativeHandle[c] + 1 + age[c] - IdSpace

Inv ==
  /\ TypeOK
  /\ UnbuiltIsBlank
  /\ TableInv
  /\ HandleIsolation
  /\ OpenLdsAccounted
  /\ FilesInv
  /\ ClosedTracksOnlyLate
  /\ AgeInv

-------------------------------------------------------------------------------
(* Types *)

LEMMA NextIdType == \A i \in Ids : NextIdAfter(i) \in Ids
BY IdSpaceAssumption DEF Ids, NextIdAfter

LEMMA InitTypeOK == Init => TypeOK
<1> SUFFICES ASSUME Init PROVE TypeOK
  OBVIOUS
<1>1. TableTypeOK
  BY IdSpaceAssumption DEF Init, TableInit, TableTypeOK, Ids, Lds
<1>2. lastCall \in [by : Lds, on : Lds]
  BY DEF Init, Lds
<1>3. /\ nativeHandle \in [Clients -> Ids \cup {NoHandle}]
      /\ tempPaths \in [Clients -> SUBSET TempDirs]
  BY DEF Init
<1>4. /\ phase \in [Clients -> {"unborn", "built", "threw"}]
      /\ isConnected \in [Clients -> BOOLEAN]
      /\ unbinding \in [Clients -> Nat]
      /\ reused \in BOOLEAN
  BY DEF Init
<1> QED  BY <1>1, <1>2, <1>3, <1>4 DEF Init, TypeOK

LEMMA ReachesType ==
  ASSUME TypeOK, NEW c \in Clients
  PROVE  Reaches(c) \in Lds
<1>1. nativeHandle[c] \in Ids \cup {NoHandle}  BY DEF TypeOK
<1>2. Holds(c) => g_handles[nativeHandle[c]] \in Lds
  BY <1>1 DEF Holds, TypeOK, TableTypeOK
<1> QED  BY <1>2 DEF Reaches, Resolve, Lds

LEMMA CleanupType ==
  ASSUME TypeOK, NEW c \in Clients, CleanupTempPaths(c)
  PROVE  /\ tempPaths' \in [Clients -> SUBSET TempDirs]
         /\ disk' \subseteq TempDirs
         /\ lost' \subseteq TempDirs
         /\ late' \subseteq TempDirs
<1>1. PICK undeleted \in SUBSET tempPaths[c] :
        /\ disk' = disk \ (tempPaths[c] \ undeleted)
        /\ lost' = lost \cup undeleted
        /\ late' = late \ tempPaths[c]
        /\ tempPaths' = [tempPaths EXCEPT ![c] = {}]
  BY DEF CleanupTempPaths
<1>2. tempPaths[c] \subseteq TempDirs  BY DEF TypeOK
<1> QED  BY <1>1, <1>2 DEF TypeOK

LEMMA NextTypeOK == TypeOK /\ [Next]_vars => TypeOK'
<1> SUFFICES ASSUME TypeOK, [Next]_vars PROVE TypeOK'
  OBVIOUS
<1>u. CASE UNCHANGED vars
  BY <1>u DEF vars, tableVars, clientVars, fileVars, TypeOK, TableTypeOK
<1>n. CASE Next
  <2> SUFFICES ASSUME NEW c \in Clients,
                      \/ Construct(c) \/ ConstructFailsEarly(c)
                      \/ ConstructFailsInTls(c) \/ Request(c) \/ StartTLS(c)
                      \/ Unbind(c) \/ UnbindAgain(c) \/ FinishUnbind(c)
               PROVE  TypeOK'
    BY <1>n DEF Next
  <2>1. CASE Construct(c)
    <3>1. PICK made \in SUBSET TempDirs :
            /\ tempPaths' = [tempPaths EXCEPT ![c] = made]
            /\ disk' = disk \cup made
      BY <2>1 DEF Construct
    <3>2. /\ tempPaths' \in [Clients -> SUBSET TempDirs]
          /\ disk' \subseteq TempDirs
      BY <3>1 DEF TypeOK
    <3>3. g_nextId' \in Ids
      BY <2>1, NextIdType DEF Construct, ConnectReturns, TypeOK, TableTypeOK
    <3>4. /\ g_handles' \in [Ids -> Lds]
          /\ openLds' \subseteq Clients
          /\ age' \in [Clients -> Nat]
      BY <2>1 DEF Construct, ConnectReturns, TypeOK, TableTypeOK, Lds
    <3>5. reused' \in BOOLEAN
      BY <2>1 DEF Construct, TypeOK
    <3> QED
      BY <2>1, <3>2, <3>3, <3>4, <3>5
      DEF Construct, TypeOK, TableTypeOK
  <2>2. CASE ConstructFailsEarly(c) \/ ConstructFailsInTls(c)
    <3>1. PICK stray \in SUBSET TempDirs : ConstructorCleansUp(c, stray)
      BY <2>2 DEF ConstructFailsEarly, ConstructFailsInTls
    <3>2. PICK made \in SUBSET TempDirs : \E undeleted \in SUBSET made :
            /\ disk' = disk \cup undeleted \cup stray
            /\ lost' = lost \cup undeleted \cup stray
      BY <3>1 DEF ConstructorCleansUp
    <3>3. disk' \subseteq TempDirs /\ lost' \subseteq TempDirs
      BY <3>2 DEF TypeOK
    <3>4. phase' \in [Clients -> {"unborn", "built", "threw"}]
      BY <3>1 DEF ConstructorCleansUp, TypeOK
    <3>5. TableTypeOK'
      BY <2>2 DEF ConstructFailsEarly, ConstructFailsInTls, ConnectThrows,
                  TypeOK, TableTypeOK, tableVars
    <3> QED
      BY <3>1, <3>3, <3>4, <3>5 DEF ConstructorCleansUp, TypeOK
  <2>3. CASE Request(c) \/ UnbindAgain(c)
    <3>1. lastCall' \in [by : Lds, on : Lds]
      BY <2>3, ReachesType DEF Request, UnbindAgain, Lds
    <3> QED
      BY <2>3, <3>1 DEF Request, UnbindAgain, TypeOK, TableTypeOK, tableVars,
                        clientVars, fileVars
  <2>4. CASE StartTLS(c)
    <3>1. PICK made \in SUBSET TempDirs, stray \in SUBSET TempDirs :
            /\ \/ lastCall' = [by |-> c, on |-> Reaches(c)]
               \/ lastCall' = [by |-> c, on |-> NoLd]
            /\ tempPaths' = [tempPaths EXCEPT ![c] = @ \cup made]
            /\ disk' = disk \cup made \cup stray
            /\ lost' = lost \cup stray
            /\ late' = IF Holds(c) THEN late ELSE late \cup made
      BY <2>4 DEF StartTLS
    <3>2. lastCall' \in [by : Lds, on : Lds]
      BY <3>1, ReachesType DEF Lds
    <3>3. /\ tempPaths' \in [Clients -> SUBSET TempDirs]
          /\ disk' \subseteq TempDirs
          /\ lost' \subseteq TempDirs
          /\ late' \subseteq TempDirs
      BY <3>1 DEF TypeOK
    <3> QED
      BY <2>4, <3>2, <3>3 DEF StartTLS, TypeOK, TableTypeOK, tableVars, clientVars
  <2>5. CASE Unbind(c)
    <3>1. lastCall' \in [by : Lds, on : Lds]
      BY <2>5, ReachesType DEF Unbind, Lds
    <3>2. TableTypeOK'
      BY <2>5 DEF Unbind, Erase, TypeOK, TableTypeOK, Lds
    <3>3. unbinding' \in [Clients -> Nat]
      BY <2>5 DEF Unbind, TypeOK
    <3> QED
      BY <2>5, <3>1, <3>2, <3>3 DEF Unbind, TypeOK, fileVars
  <2>6. CASE FinishUnbind(c)
    <3>1. unbinding' \in [Clients -> Nat]
      BY <2>6 DEF FinishUnbind, TypeOK
    <3>2. CleanupTempPaths(c)
      BY <2>6 DEF FinishUnbind
    <3> QED
      BY <2>6, <3>1, <3>2, CleanupType
      DEF FinishUnbind, TypeOK, TableTypeOK, tableVars
  <2> QED  BY <2>1, <2>2, <2>3, <2>4, <2>5, <2>6
<1> QED  BY <1>u, <1>n

\* Every variable keeps its type, ids included: a wrapped counter is an id.
THEOREM TypeCorrect == Spec => []TypeOK
<1> QED  BY InitTypeOK, NextTypeOK, PTL DEF Spec

-------------------------------------------------------------------------------
(* The invariant *)

LEMMA InitInv == Init => Inv
<1> SUFFICES ASSUME Init PROVE Inv
  OBVIOUS
<1>1. TypeOK
  BY InitTypeOK
<1>2. UnbuiltIsBlank /\ AgeInv
  BY DEF Init, UnbuiltIsBlank, AgeInv, Holds
<1>3. TableInv
  BY DEF Init, TableInit, TableInv
<1>4. HandleIsolation /\ OpenLdsAccounted
  BY DEF Init, TableInit, HandleIsolation, OpenLdsAccounted, Holds
<1>5. FilesInv
  BY DEF Init, FilesInv
<1>6. ClosedTracksOnlyLate
  BY DEF Init, ClosedTracksOnlyLate
<1> QED  BY <1>1, <1>2, <1>3, <1>4, <1>5, <1>6 DEF Inv

\* Every action but the constructor and unbind() leaves the table alone.
LEMMA QuietSteps ==
  ASSUME NEW c \in Clients,
         \/ ConstructFailsEarly(c) \/ Request(c) \/ StartTLS(c)
         \/ UnbindAgain(c) \/ FinishUnbind(c)
  PROVE  UNCHANGED <<g_handles, g_nextId, openLds, age>> /\ UNCHANGED reused
BY DEF ConstructFailsEarly, ConstructorCleansUp, Request, StartTLS,
       UnbindAgain, FinishUnbind, tableVars

LEMMA UnbuiltStep ==
  ASSUME Inv, NEW c \in Clients,
         \/ Construct(c) \/ ConstructFailsEarly(c) \/ ConstructFailsInTls(c)
         \/ Request(c) \/ StartTLS(c) \/ Unbind(c) \/ UnbindAgain(c)
         \/ FinishUnbind(c)
  PROVE  UnbuiltIsBlank'
<1> USE DEF Inv, UnbuiltIsBlank
<1>t. TypeOK
  OBVIOUS
<1>1. CASE Construct(c)
  BY <1>1, <1>t DEF Construct, TypeOK
<1>2. CASE ConstructFailsEarly(c) \/ ConstructFailsInTls(c)
  <2>1. PICK stray \in SUBSET TempDirs : ConstructorCleansUp(c, stray)
    BY <1>2 DEF ConstructFailsEarly, ConstructFailsInTls
  <2>2. phase[c] = "unborn"
    BY <1>2 DEF ConstructFailsEarly, ConstructFailsInTls
  <2> QED  BY <1>t, <2>1, <2>2 DEF ConstructorCleansUp, TypeOK
<1>3. CASE Request(c) \/ UnbindAgain(c)
  BY <1>3 DEF Request, UnbindAgain, clientVars, fileVars
<1>4. CASE StartTLS(c)
  BY <1>4, <1>t DEF StartTLS, clientVars, TypeOK
<1>5. CASE Unbind(c)
  BY <1>5, <1>t DEF Unbind, Holds, fileVars, TypeOK
<1>6. CASE FinishUnbind(c)
  BY <1>6, <1>t DEF FinishUnbind, CleanupTempPaths, TypeOK
<1> QED  BY <1>1, <1>2, <1>3, <1>4, <1>5, <1>6

LEMMA TableStep ==
  ASSUME Inv, TypeOK', NEW c \in Clients,
         \/ Construct(c) \/ ConstructFailsEarly(c) \/ ConstructFailsInTls(c)
         \/ Request(c) \/ StartTLS(c) \/ Unbind(c) \/ UnbindAgain(c)
         \/ FinishUnbind(c)
  PROVE  TableInv'
<1>t. TypeOK /\ TableTypeOK /\ TableInv /\ UnbuiltIsBlank
  BY DEF Inv, TypeOK
<1>1. CASE Construct(c)
  <2>1. \A i \in Ids : g_handles[i] # c
    BY <1>1, <1>t, NoLdAssumption DEF Construct, TableInv
  <2> QED
    BY <1>1, <1>t, <2>1, NoLdAssumption
    DEF Construct, ConnectReturns, TableInv, TypeOK, TableTypeOK
<1>2. CASE ConstructFailsInTls(c)
  BY <1>2, <1>t
  DEF ConstructFailsInTls, ConstructorCleansUp, ConnectThrows, TableInv, TypeOK,
      TableTypeOK
<1>3. CASE ConstructFailsEarly(c)
  BY <1>3, <1>t
  DEF ConstructFailsEarly, ConstructorCleansUp, TableInv, TypeOK, TableTypeOK,
      tableVars
<1>4. CASE Request(c) \/ StartTLS(c) \/ UnbindAgain(c) \/ FinishUnbind(c)
  <2>1. UNCHANGED <<g_handles, openLds, phase>>
    BY <1>4 DEF Request, StartTLS, UnbindAgain, FinishUnbind, tableVars, clientVars
  <2> QED  BY <1>t, <2>1 DEF TableInv
<1>5. CASE Unbind(c)
  <2>1. nativeHandle[c] \in Ids
    BY <1>5, <1>t DEF Unbind, Holds, TypeOK
  <2> QED
    BY <1>5, <1>t, <2>1 DEF Unbind, Erase, TableInv, TypeOK, TableTypeOK
<1> QED  BY <1>1, <1>2, <1>3, <1>4, <1>5

LEMMA IsolationStep ==
  ASSUME Inv, TypeOK', NEW c \in Clients,
         \/ Construct(c) \/ ConstructFailsEarly(c) \/ ConstructFailsInTls(c)
         \/ Request(c) \/ StartTLS(c) \/ Unbind(c) \/ UnbindAgain(c)
         \/ FinishUnbind(c)
  PROVE  HandleIsolation'
<1> SUFFICES ASSUME reused' = FALSE, NEW d \in Clients, Holds(d)'
             PROVE  g_handles'[nativeHandle'[d]]
                      = IF unbinding'[d] = 0 THEN d ELSE NoLd
  BY DEF HandleIsolation, Resolve, TypeOK
<1>t. TypeOK /\ TableTypeOK /\ UnbuiltIsBlank /\ HandleIsolation
  BY DEF Inv, TypeOK
<1>r. reused = FALSE
  BY <1>t DEF Construct, ConstructFailsEarly, ConstructFailsInTls,
     ConstructorCleansUp, Request, StartTLS, Unbind, UnbindAgain, FinishUnbind,
     TypeOK
<1>h. \A e \in Clients : Holds(e) =>
        /\ nativeHandle[e] \in Ids
        /\ g_handles[nativeHandle[e]] = IF unbinding[e] = 0 THEN e ELSE NoLd
  BY <1>t, <1>r DEF HandleIsolation, Resolve, Holds, TypeOK
<1>1. CASE Construct(c)
  <2>1. \A e \in Clients : nativeHandle[e] # g_nextId
    BY <1>1, <1>r DEF Construct
  <2>2. CASE d = c
    BY <1>1, <1>t, <2>2 DEF Construct, ConnectReturns, UnbuiltIsBlank, TypeOK,
       TableTypeOK
  <2>3. CASE d # c
    BY <1>1, <1>t, <1>h, <2>1, <2>3
    DEF Construct, ConnectReturns, Holds, TypeOK, TableTypeOK
  <2> QED  BY <2>2, <2>3
<1>2. CASE \/ ConstructFailsInTls(c) \/ ConstructFailsEarly(c) \/ Request(c)
           \/ StartTLS(c) \/ UnbindAgain(c)
  <2>1. UNCHANGED <<g_handles, nativeHandle, unbinding>>
    BY <1>2 DEF ConstructFailsInTls, ConstructFailsEarly, ConstructorCleansUp,
       ConnectThrows, Request, StartTLS, UnbindAgain, tableVars, clientVars
  <2> QED  BY <1>h, <2>1 DEF Holds
<1>3. CASE Unbind(c)
  <2>1. /\ g_handles' = [g_handles EXCEPT ![nativeHandle[c]] = NoLd]
        /\ unbinding' = [unbinding EXCEPT ![c] = @ + 1]
        /\ nativeHandle' = nativeHandle
        /\ Holds(c)
    BY <1>3 DEF Unbind, Erase
  <2>2. CASE d = c
    BY <1>t, <1>h, <2>1, <2>2 DEF TypeOK, TableTypeOK
  <2>3. CASE d # c
    <3>1. Holds(d) /\ unbinding'[d] = unbinding[d]
      BY <1>t, <2>1, <2>3 DEF Holds, TypeOK
    <3>2. nativeHandle[d] = nativeHandle[c] => g_handles[nativeHandle[d]] = NoLd
      BY <1>h, <2>1, <2>3, <3>1
    <3> QED
      BY <1>t, <1>h, <2>1, <3>1, <3>2 DEF TypeOK, TableTypeOK
  <2> QED  BY <2>2, <2>3
<1>4. CASE FinishUnbind(c)
  <2>1. d # c
    BY <1>4, <1>t DEF FinishUnbind, Holds, TypeOK
  <2> QED
    BY <1>4, <1>t, <1>h, <2>1 DEF FinishUnbind, Holds, tableVars, TypeOK
<1> QED  BY <1>1, <1>2, <1>3, <1>4

LEMMA OpenLdsStep ==
  ASSUME Inv, TypeOK', NEW c \in Clients,
         \/ Construct(c) \/ ConstructFailsEarly(c) \/ ConstructFailsInTls(c)
         \/ Request(c) \/ StartTLS(c) \/ Unbind(c) \/ UnbindAgain(c)
         \/ FinishUnbind(c)
  PROVE  OpenLdsAccounted'
<1> SUFFICES ASSUME reused' = FALSE, NEW ld \in Clients, ld \in openLds'
             PROVE  \/ phase'[ld] = "threw"
                    \/ Holds(ld)' /\ unbinding'[ld] = 0
  BY DEF OpenLdsAccounted, TypeOK, TableTypeOK
<1>t. TypeOK /\ TableTypeOK /\ UnbuiltIsBlank /\ HandleIsolation
  BY DEF Inv, TypeOK
<1>r. reused = FALSE
  BY <1>t DEF Construct, ConstructFailsEarly, ConstructFailsInTls,
     ConstructorCleansUp, Request, StartTLS, Unbind, UnbindAgain, FinishUnbind,
     TypeOK
<1>o. ld \in openLds => phase[ld] = "threw" \/ (Holds(ld) /\ unbinding[ld] = 0)
  BY <1>r DEF Inv, OpenLdsAccounted
<1>1. CASE Construct(c)
  BY <1>1, <1>t, <1>o
  DEF Construct, ConnectReturns, UnbuiltIsBlank, Holds, TypeOK, TableTypeOK, Ids,
      NoHandle
<1>2. CASE ConstructFailsInTls(c)
  BY <1>2, <1>t, <1>o
  DEF ConstructFailsInTls, ConstructorCleansUp, ConnectThrows, UnbuiltIsBlank,
      Holds, TypeOK
<1>3. CASE ConstructFailsEarly(c)
  BY <1>3, <1>t, <1>o
  DEF ConstructFailsEarly, ConstructorCleansUp, UnbuiltIsBlank, Holds, TypeOK,
      tableVars
<1>4. CASE Request(c) \/ StartTLS(c) \/ UnbindAgain(c)
  <2>1. UNCHANGED <<openLds, phase, nativeHandle, unbinding>>
    BY <1>4 DEF Request, StartTLS, UnbindAgain, tableVars, clientVars
  <2> QED  BY <1>o, <2>1 DEF Holds
<1>5. CASE Unbind(c)
  <2>1. /\ openLds' = openLds \ {g_handles[nativeHandle[c]]}
        /\ unbinding' = [unbinding EXCEPT ![c] = @ + 1]
        /\ nativeHandle' = nativeHandle /\ phase' = phase
        /\ Holds(c)
    BY <1>5 DEF Unbind, Erase
  <2>2. g_handles[nativeHandle[c]] = IF unbinding[c] = 0 THEN c ELSE NoLd
    BY <1>t, <1>r, <2>1 DEF HandleIsolation, Resolve
  <2>3. phase[c] = "built"
    BY <1>t, <2>1 DEF UnbuiltIsBlank, Holds
  <2>4. ld # c
    BY <1>o, <2>1, <2>2, <2>3
  <2> QED  BY <1>t, <1>o, <2>1, <2>4 DEF Holds, TypeOK
<1>6. CASE FinishUnbind(c)
  <2>1. unbinding[c] > 0 /\ openLds' = openLds /\ phase' = phase
    BY <1>6 DEF FinishUnbind, tableVars
  <2>2. phase[c] = "built"
    BY <1>t, <2>1 DEF UnbuiltIsBlank
  <2>3. ld # c
    BY <1>o, <2>1, <2>2
  <2> QED
    BY <1>6, <1>t, <1>o, <2>1, <2>3 DEF FinishUnbind, Holds, TypeOK
<1> QED  BY <1>1, <1>2, <1>3, <1>4, <1>5, <1>6

LEMMA FilesStep ==
  ASSUME Inv, TypeOK', NEW c \in Clients,
         \/ Construct(c) \/ ConstructFailsEarly(c) \/ ConstructFailsInTls(c)
         \/ Request(c) \/ StartTLS(c) \/ Unbind(c) \/ UnbindAgain(c)
         \/ FinishUnbind(c)
  PROVE  FilesInv' /\ ClosedTracksOnlyLate'
<1>t. /\ TypeOK /\ UnbuiltIsBlank /\ FilesInv /\ ClosedTracksOnlyLate
      /\ \A d \in Clients : tempPaths[d] \subseteq TempDirs
  BY DEF Inv, TypeOK
<1>1. CASE Construct(c)
  <2>1. PICK made \in SUBSET TempDirs :
          /\ made \cap disk = {}
          /\ tempPaths' = [tempPaths EXCEPT ![c] = made]
          /\ disk' = disk \cup made
    BY <1>1 DEF Construct, WritesMaterial
  <2>2. /\ lost' = lost /\ late' = late
        /\ tempPaths[c] = {}
        /\ nativeHandle' = [nativeHandle EXCEPT ![c] = g_nextId]
        /\ g_nextId \in Ids
    BY <1>1, <1>t DEF Construct, UnbuiltIsBlank, TypeOK, TableTypeOK
  <2>3. /\ tempPaths'[c] = made
        /\ \A d \in Clients : d # c => tempPaths'[d] = tempPaths[d]
    BY <1>t, <2>1 DEF TypeOK
  <2>4. FilesInv'
    BY <1>t, <2>1, <2>2, <2>3 DEF FilesInv
  <2>5. ClosedTracksOnlyLate'
    BY <1>t, <2>2, <2>3
    DEF ClosedTracksOnlyLate, Holds, Ids, NoHandle, TypeOK
  <2> QED  BY <2>4, <2>5
<1>2. CASE ConstructFailsEarly(c) \/ ConstructFailsInTls(c)
  <2>1. PICK stray \in SUBSET TempDirs : ConstructorCleansUp(c, stray)
    BY <1>2 DEF ConstructFailsEarly, ConstructFailsInTls
  <2>2. PICK made \in SUBSET TempDirs :
          \E undeleted \in SUBSET made :
            /\ WritesMaterial(made, stray)
            /\ disk' = disk \cup undeleted \cup stray
            /\ lost' = lost \cup undeleted \cup stray
    BY <2>1 DEF ConstructorCleansUp
  <2>3. PICK undeleted \in SUBSET made :
          /\ disk' = disk \cup undeleted \cup stray
          /\ lost' = lost \cup undeleted \cup stray
    BY <2>2
  <2>4. /\ made \cap disk = {} /\ stray \cap disk = {}
        /\ UNCHANGED <<tempPaths, late, nativeHandle>>
    BY <2>1, <2>2 DEF ConstructorCleansUp, WritesMaterial
  <2> QED
    BY <1>t, <2>3, <2>4 DEF FilesInv, ClosedTracksOnlyLate, Holds
<1>3. CASE Request(c) \/ UnbindAgain(c) \/ Unbind(c)
  BY <1>3, <1>t DEF Request, UnbindAgain, Unbind, clientVars, fileVars, FilesInv,
     ClosedTracksOnlyLate, Holds
<1>4. CASE StartTLS(c)
  <2>1. PICK made \in SUBSET TempDirs, stray \in SUBSET TempDirs :
          /\ WritesMaterial(made, stray)
          /\ tempPaths' = [tempPaths EXCEPT ![c] = @ \cup made]
          /\ disk' = disk \cup made \cup stray
          /\ lost' = lost \cup stray
          /\ late' = IF Holds(c) THEN late ELSE late \cup made
    BY <1>4 DEF StartTLS, WriteFails
  <2>2. /\ made \cap disk = {} /\ stray \cap disk = {} /\ made \cap stray = {}
        /\ nativeHandle' = nativeHandle
    BY <1>4, <2>1 DEF StartTLS, WritesMaterial, clientVars
  <2>3. /\ tempPaths'[c] = tempPaths[c] \cup made
        /\ \A d \in Clients : d # c => tempPaths'[d] = tempPaths[d]
    BY <1>t, <2>1 DEF TypeOK
  <2>4. FilesInv'
    BY <1>t, <2>1, <2>2, <2>3 DEF FilesInv
  <2>5. ClosedTracksOnlyLate'
    BY <1>t, <2>1, <2>2, <2>3 DEF ClosedTracksOnlyLate, Holds
  <2> QED  BY <2>4, <2>5
<1>5. CASE FinishUnbind(c)
  <2>1. PICK undeleted \in SUBSET tempPaths[c] :
          /\ disk' = disk \ (tempPaths[c] \ undeleted)
          /\ lost' = lost \cup undeleted
          /\ late' = late \ tempPaths[c]
          /\ tempPaths' = [tempPaths EXCEPT ![c] = {}]
    BY <1>5 DEF FinishUnbind, CleanupTempPaths
  <2>2. /\ tempPaths'[c] = {}
        /\ \A d \in Clients : d # c =>
             tempPaths'[d] = tempPaths[d] /\ nativeHandle'[d] = nativeHandle[d]
    BY <1>5, <1>t, <2>1 DEF FinishUnbind, TypeOK
  <2>3. FilesInv'
    BY <1>t, <2>1, <2>2 DEF FilesInv
  <2>4. ClosedTracksOnlyLate'
    BY <1>t, <2>1, <2>2 DEF ClosedTracksOnlyLate, FilesInv, Holds
  <2> QED  BY <2>3, <2>4
<1> QED  BY <1>1, <1>2, <1>3, <1>4, <1>5

LEMMA AgeStep ==
  ASSUME Inv, NEW c \in Clients,
         \/ Construct(c) \/ ConstructFailsEarly(c) \/ ConstructFailsInTls(c)
         \/ Request(c) \/ StartTLS(c) \/ Unbind(c) \/ UnbindAgain(c)
         \/ FinishUnbind(c)
  PROVE  AgeInv'
<1> SUFFICES ASSUME NEW d \in Clients, Holds(d)', age'[d] < IdSpace
             PROVE  \/ g_nextId' = nativeHandle'[d] + 1 + age'[d]
                    \/ g_nextId' = nativeHandle'[d] + 1 + age'[d] - IdSpace
  BY DEF AgeInv
<1>t. TypeOK /\ TableTypeOK /\ AgeInv
  BY DEF Inv, TypeOK
<1>1. CASE Construct(c)
  <2>1. /\ g_nextId' = NextIdAfter(g_nextId)
        /\ age' = [e \in Clients |-> IF e = c THEN 0 ELSE age[e] + 1]
        /\ nativeHandle' = [nativeHandle EXCEPT ![c] = g_nextId]
        /\ g_nextId \in Nat /\ age[d] \in Nat /\ IdSpace \in Nat
    BY <1>1, <1>t, IdSpaceAssumption
    DEF Construct, ConnectReturns, TypeOK, TableTypeOK, Ids
  <2>2. CASE d = c
    BY <1>t, <2>1, <2>2 DEF NextIdAfter, TypeOK
  <2>3. CASE d # c
    <3>1. /\ nativeHandle'[d] = nativeHandle[d] /\ age'[d] = age[d] + 1
          /\ Holds(d)
      BY <1>t, <2>1, <2>3 DEF Holds, TypeOK
    <3>2. nativeHandle[d] \in Nat /\ nativeHandle[d] < IdSpace
      BY <1>t, <2>1, <3>1 DEF Holds, TypeOK, Ids
    <3>3. \/ g_nextId = nativeHandle[d] + 1 + age[d]
          \/ g_nextId = nativeHandle[d] + 1 + age[d] - IdSpace
      BY <1>t, <2>1, <3>1 DEF AgeInv
    <3> QED  BY <2>1, <3>1, <3>2, <3>3 DEF NextIdAfter
  <2> QED  BY <2>2, <2>3
<1>2. CASE ~Construct(c)
  <2>1. UNCHANGED <<g_nextId, age>>
    BY <1>2 DEF ConstructFailsEarly, ConstructFailsInTls, ConnectThrows, Request,
       StartTLS, Unbind, Erase, UnbindAgain, FinishUnbind, tableVars
  <2>2. Holds(d) /\ nativeHandle'[d] = nativeHandle[d]
    BY <1>2, <1>t DEF ConstructFailsEarly, ConstructFailsInTls,
       ConstructorCleansUp, Request, StartTLS, Unbind, UnbindAgain, FinishUnbind,
       clientVars, Holds, TypeOK
  <2> QED  BY <1>t, <2>1, <2>2 DEF AgeInv
<1> QED  BY <1>1, <1>2

LEMMA NextInv == Inv /\ [Next]_vars => Inv'
<1> SUFFICES ASSUME Inv, [Next]_vars PROVE Inv'
  OBVIOUS
<1>1. TypeOK'
  BY NextTypeOK DEF Inv
<1>2. CASE UNCHANGED vars
  BY <1>2 DEF vars, tableVars, clientVars, fileVars, Inv, TypeOK, TableTypeOK,
     UnbuiltIsBlank, TableInv, HandleIsolation, OpenLdsAccounted, FilesInv,
     ClosedTracksOnlyLate, AgeInv, Holds, Resolve
<1>3. CASE Next
  <2>1. PICK c \in Clients :
          \/ Construct(c) \/ ConstructFailsEarly(c) \/ ConstructFailsInTls(c)
          \/ Request(c) \/ StartTLS(c) \/ Unbind(c) \/ UnbindAgain(c)
          \/ FinishUnbind(c)
    BY <1>3 DEF Next
  <2>2. UnbuiltIsBlank' /\ AgeInv'
    BY <2>1, UnbuiltStep, AgeStep
  <2>3. TableInv' /\ HandleIsolation' /\ OpenLdsAccounted'
    BY <1>1, <2>1, TableStep, IsolationStep, OpenLdsStep
  <2>4. FilesInv' /\ ClosedTracksOnlyLate'
    BY <1>1, <2>1, FilesStep
  <2> QED  BY <1>1, <2>2, <2>3, <2>4 DEF Inv
<1> QED  BY <1>2, <1>3

\* The inductive invariant: the table, the files, the ages of the handles and
\* the blankness of clients not yet built, which the properties below rest on.
THEOREM Invariance == Spec => []Inv
<1> QED  BY InitInv, NextInv, PTL DEF Spec

-------------------------------------------------------------------------------
(* The properties *)

\* While no id has been handed out twice, the id a client holds names its own
\* connection until its unbind() and nothing after it.
THEOREM Isolation == Spec => []HandleIsolation
<1>1. Inv => HandleIsolation
  BY DEF Inv
<1> QED  BY <1>1, Invariance, PTL

\* Open connections have an owner that has not unbound, or were leaked by a
\* constructor that threw inside native.connect.
THEOREM ConnectionsAccounted == Spec => []OpenLdsAccounted
<1>1. Inv => OpenLdsAccounted
  BY DEF Inv
<1> QED  BY <1>1, Invariance, PTL

\* Temporary directories are never shared, and those on disk are tracked or
\* were left by a file system failure.
THEOREM TempFiles == Spec => []TempFilesAccounted
<1>1. Inv => TempFilesAccounted
  <2> SUFFICES ASSUME Inv PROVE TempFilesAccounted
    OBVIOUS
  <2>1. /\ FilesInv
        /\ disk \subseteq TempDirs /\ lost \subseteq TempDirs
        /\ \A c \in Clients : tempPaths[c] \subseteq TempDirs
    BY DEF Inv, TypeOK
  <2> DEFINE Tracked == UNION {tempPaths[c] : c \in Clients}
  <2>2. \A t : t \in Tracked <=> \E c \in Clients : t \in tempPaths[c]
    OBVIOUS
  <2> HIDE DEF Tracked
  <2>3. Tracked \subseteq TempDirs
    BY <2>1, <2>2
  <2>4. \A t \in TempDirs : t \in disk <=> t \in Tracked \cup lost
    BY <2>1, <2>2 DEF FilesInv
  <2>5. disk = lost \cup Tracked
    BY <2>1, <2>3, <2>4
  <2>6. disk = lost \cup UNION {tempPaths[c] : c \in Clients}
    BY <2>5 DEF Tracked
  <2>7. /\ \A c, d \in Clients : c # d => tempPaths[c] \cap tempPaths[d] = {}
        /\ \A c \in Clients : tempPaths[c] \cap lost = {}
    BY <2>1 DEF FilesInv
  <2> QED  BY <2>6, <2>7, Zenon DEF TempFilesAccounted
<1> QED  BY <1>1, Invariance, PTL

\* A closed client tracks nothing that was written before its unbind().
THEOREM ClosedIsClean == Spec => []ClosedTracksOnlyLate
<1>1. Inv => ClosedTracksOnlyLate
  BY DEF Inv
<1> QED  BY <1>1, Invariance, PTL

\* No handle leads libldap to a connection that has been unbound, with ids
\* reused or not.
THEOREM NoDanglingHandle == Spec => []NoUseAfterUnbind
<1>1. Inv => NoUseAfterUnbind
  <2> SUFFICES ASSUME Inv, NEW c \in Clients
               PROVE  Reaches(c) \in openLds \cup {NoLd}
    BY DEF NoUseAfterUnbind
  <2>1. Holds(c) => nativeHandle[c] \in Ids
    BY DEF Inv, TypeOK, Holds
  <2> QED  BY <2>1 DEF Inv, TableInv, Reaches, Resolve
<1> QED  BY <1>1, Invariance, PTL

\* The first id handed out twice needs a client that held its own through
\* IdSpace - 1 (2^32 - 1) later registrations.
THEOREM ReuseIsRemote == Spec => ReuseTakesACycle
<1> DEFINE Cycle == ~reused /\ reused' =>
                      \E c \in Clients : Holds(c) /\ age[c] >= IdSpace - 1
<1>1. Inv /\ [Next]_vars => [Cycle]_vars
  <2> SUFFICES ASSUME Inv, Next, ~reused, reused'
               PROVE  \E c \in Clients : Holds(c) /\ age[c] >= IdSpace - 1
    OBVIOUS
  <2>1. PICK c \in Clients : Construct(c)
    BY DEF Next, ConstructFailsEarly, ConstructFailsInTls, ConstructorCleansUp,
       Request, StartTLS, Unbind, UnbindAgain, FinishUnbind
  <2>2. PICK d \in Clients : nativeHandle[d] = g_nextId
    BY <2>1 DEF Construct
  <2>3. g_nextId \in Nat /\ age[d] \in Nat /\ IdSpace \in Nat
    BY IdSpaceAssumption DEF Inv, TypeOK, TableTypeOK, Ids
  <2>4. Holds(d)
    BY <2>2, <2>3 DEF Holds, NoHandle
  <2>5. age[d] < IdSpace => \/ g_nextId = nativeHandle[d] + 1 + age[d]
                            \/ g_nextId = nativeHandle[d] + 1 + age[d] - IdSpace
    BY <2>4 DEF Inv, AgeInv
  <2>6. age[d] >= IdSpace - 1
    BY <2>2, <2>3, <2>5
  <2> QED  BY <2>4, <2>6
<1> QED  BY <1>1, Invariance, PTL DEF Spec, ReuseTakesACycle

-------------------------------------------------------------------------------
(* Ids are not reused where there are enough of them *)

Built == {c \in Clients : phase[c] = "built"}

\* No handle is older than the number of constructors that returned after its
\* own.
YoungInv == \A c \in Built : age[c] < Cardinality(Built)

LEMMA YoungStep ==
  ASSUME TypeOK, TypeOK', YoungInv, IsFiniteSet(Clients), [Next]_vars
  PROVE  YoungInv'
<1>1. ASSUME NEW c \in Clients, Construct(c) PROVE YoungInv'
  <2>1. Built' = Built \cup {c} /\ c \notin Built
    BY <1>1 DEF Construct, Built, TypeOK
  <2>2. IsFiniteSet(Built)
    BY FS_Subset DEF Built
  <2>3. PICK n \in Nat : n = Cardinality(Built) /\ Cardinality(Built') = n + 1
    BY <2>1, <2>2, FS_AddElement, FS_CardinalityType
  <2>4. age' = [other \in Clients |-> IF other = c THEN 0 ELSE age[other] + 1]
    BY <1>1 DEF Construct, ConnectReturns
  <2>5. \A d \in Built : age[d] \in Nat /\ age[d] < n
    BY <2>3 DEF YoungInv, Built, TypeOK, TableTypeOK
  <2>6. \A d \in Built' : age'[d] < n + 1
    BY <2>1, <2>3, <2>4, <2>5 DEF Built
  <2> QED
    BY <2>3, <2>6 DEF YoungInv
<1>2. ASSUME UNCHANGED age, Built' = Built PROVE YoungInv'
  BY <1>2 DEF YoungInv
<1>3. ASSUME NEW c \in Clients,
             ConstructFailsEarly(c) \/ ConstructFailsInTls(c)
      PROVE  UNCHANGED age /\ Built' = Built
  <2>1. UNCHANGED age /\ phase[c] = "unborn" /\ phase' = [phase EXCEPT ![c] = "threw"]
    BY <1>3 DEF ConstructFailsEarly, ConstructFailsInTls, ConstructorCleansUp,
                ConnectThrows, tableVars
  <2> QED
    BY <2>1 DEF Built, TypeOK
<1>4. ASSUME NEW c \in Clients, Request(c) \/ StartTLS(c) \/ Unbind(c)
                                \/ UnbindAgain(c) \/ FinishUnbind(c)
      PROVE  UNCHANGED age /\ Built' = Built
  BY <1>4 DEF Request, StartTLS, Unbind, Erase, UnbindAgain, FinishUnbind,
              tableVars, clientVars, Built
<1>5. CASE UNCHANGED vars
  BY <1>2, <1>5 DEF vars, tableVars, clientVars, Built
<1> QED
  BY <1>1, <1>2, <1>3, <1>4, <1>5 DEF Next

LEMMA NoReuseStep ==
  ASSUME Inv, YoungInv, IsFiniteSet(Clients), Cardinality(Clients) <= IdSpace,
         ~reused, [Next]_vars
  PROVE  ~reused'
<1> SUFFICES ASSUME reused' PROVE FALSE
  OBVIOUS
<1>1. PICK c \in Clients : Construct(c)
  BY DEF Next, vars, ConstructFailsEarly, ConstructFailsInTls, ConstructorCleansUp,
         Request, StartTLS, Unbind, UnbindAgain, FinishUnbind
<1>2. PICK d \in Clients : nativeHandle[d] = g_nextId
  BY <1>1 DEF Construct
<1>3. /\ g_nextId \in Ids /\ age[d] \in Nat /\ IdSpace \in Nat
      /\ g_nextId \in Nat
  BY IdSpaceAssumption DEF Inv, TypeOK, TableTypeOK, Ids
<1>4. Holds(d)
  BY <1>2, <1>3 DEF Holds, NoHandle
<1>5. d \in Built
  BY <1>4 DEF Inv, UnbuiltIsBlank, Holds, Built
<1>6. age[d] >= IdSpace - 1
  BY <1>2, <1>3, <1>4 DEF Inv, AgeInv
<1>7. age[d] < Cardinality(Built)
  BY <1>5 DEF YoungInv
<1>8. c \notin Built /\ Built \subseteq Clients
  BY <1>1 DEF Construct, Built
<1>9. Cardinality(Built) < Cardinality(Clients)
  BY <1>8, FS_Subset, FS_CardinalityType
<1>10. Cardinality(Built) \in Nat /\ Cardinality(Clients) \in Nat
  BY <1>8, FS_Subset, FS_CardinalityType
<1> QED
  BY <1>3, <1>6, <1>7, <1>9, <1>10

\* A program with no more clients than there are ids never hands one out while
\* another client holds it.
THEOREM EnoughIds ==
  ASSUME IsFiniteSet(Clients), Cardinality(Clients) <= IdSpace
  PROVE  Spec => []~reused
<1>1. Init => YoungInv /\ ~reused
  BY DEF Init, YoungInv, Built
<1>2. Inv /\ YoungInv /\ ~reused /\ [Next]_vars => (YoungInv /\ ~reused)'
  BY NextTypeOK, YoungStep, NoReuseStep DEF Inv
<1> QED
  BY <1>1, <1>2, Invariance, PTL DEF Spec

-------------------------------------------------------------------------------
(* The refinement of LdapSession *)

\* A client holds its id exactly while it is connected.
ConnectedInv ==
  \A c \in Clients : Holds(c) <=> phase[c] = "built" /\ isConnected[c]

LEMMA ConnectedStep ==
  ASSUME Inv, ConnectedInv, [Next]_vars
  PROVE  ConnectedInv'
<1>t. TypeOK /\ TableTypeOK /\ UnbuiltIsBlank
  BY DEF Inv, TypeOK
<1>1. ASSUME NEW c \in Clients, Construct(c) PROVE ConnectedInv'
  BY <1>t, <1>1
  DEF Construct, ConnectedInv, Holds, TypeOK, TableTypeOK, Ids, NoHandle
<1>2. ASSUME NEW c \in Clients, ConstructFailsEarly(c) \/ ConstructFailsInTls(c)
      PROVE  ConnectedInv'
  BY <1>t, <1>2 DEF ConstructFailsEarly, ConstructFailsInTls, ConstructorCleansUp,
     UnbuiltIsBlank, ConnectedInv, Holds, TypeOK
<1>3. ASSUME NEW c \in Clients, Request(c) \/ StartTLS(c) \/ Unbind(c) \/ UnbindAgain(c)
      PROVE  ConnectedInv'
  BY <1>3 DEF Request, StartTLS, Unbind, UnbindAgain, clientVars, ConnectedInv, Holds
<1>4. ASSUME NEW c \in Clients, FinishUnbind(c) PROVE ConnectedInv'
  BY <1>t, <1>4 DEF FinishUnbind, ConnectedInv, Holds, TypeOK
<1>5. CASE UNCHANGED vars
  BY <1>5 DEF vars, clientVars, ConnectedInv, Holds
<1> QED
  BY <1>1, <1>2, <1>3, <1>4, <1>5 DEF Next

\* What a call of a client reaches, by the state of its session.
LEMMA SessionReaches ==
  ASSUME Inv, ConnectedInv, ~reused, NEW c \in Clients, phase[c] = "built"
  PROVE  /\ SessionOf(c) \in {"open", "closing", "closed"}
         /\ Reaches(c) = IF SessionOf(c) = "open" THEN c ELSE NoLd
         /\ Holds(c) => SessionOf(c) = IF unbinding[c] = 0 THEN "open" ELSE "closing"
         /\ ~Holds(c) => SessionOf(c) = "closed"
<1>1. unbinding[c] \in Nat /\ isConnected[c] \in BOOLEAN
  BY DEF Inv, TypeOK
<1>2. Holds(c) <=> isConnected[c]
  BY DEF ConnectedInv
<1>3. /\ Holds(c) => SessionOf(c) = IF unbinding[c] = 0 THEN "open" ELSE "closing"
      /\ ~Holds(c) => SessionOf(c) = "closed"
  BY <1>1, <1>2 DEF SessionOf
<1>4. Holds(c) => Resolve(nativeHandle[c]) = IF unbinding[c] = 0 THEN c ELSE NoLd
  BY DEF Inv, HandleIsolation
<1> QED
  BY <1>3, <1>4 DEF Reaches

\* The sessions of clients whose own variables do not change.
LEMMA SameSession ==
  ASSUME NEW c \in Clients, phase'[c] = phase[c], isConnected'[c] = isConnected[c],
         unbinding'[c] = unbinding[c]
  PROVE  SessionOf(c)' = SessionOf(c)
  BY DEF SessionOf

LEMMA SameSessions ==
  ASSUME \A c \in Clients : SessionOf(c)' = SessionOf(c)
  PROVE  [c \in Clients |-> SessionOf(c)]' = [c \in Clients |-> SessionOf(c)]
  OBVIOUS

LEMMA OneSession ==
  ASSUME NEW c \in Clients, NEW new, SessionOf(c)' = new,
         \A d \in Clients \ {c} : SessionOf(d)' = SessionOf(d)
  PROVE  [d \in Clients |-> SessionOf(d)]'
           = [[d \in Clients |-> SessionOf(d)] EXCEPT ![c] = new]
  OBVIOUS

LEMMA SessionStep ==
  ASSUME Inv, ConnectedInv, ~reused, [Next]_vars
  PROVE  [Session!Next]_(Session!vars)
<1>t. TypeOK /\ TableTypeOK /\ UnbuiltIsBlank
  BY DEF Inv, TypeOK
<1> DEFINE S == [d \in Clients |-> SessionOf(d)]
<1>1. ASSUME NEW c \in Clients, Construct(c) PROVE Session!Open(c)
  <2>1. SessionOf(c) = "none" /\ lastCall' = lastCall
    BY <1>1 DEF Construct, SessionOf
  <2>2. phase'[c] = "built" /\ isConnected'[c] = TRUE /\ unbinding'[c] = 0
    BY <1>t, <1>1 DEF Construct, UnbuiltIsBlank, TypeOK
  <2>3. SessionOf(c)' = "open"
    BY <2>2 DEF SessionOf
  <2>4. \A d \in Clients \ {c} : SessionOf(d)' = SessionOf(d)
    BY <1>t, <1>1, SameSession DEF Construct, TypeOK
  <2>5. S' = [S EXCEPT ![c] = "open"]
    BY <2>3, <2>4, OneSession
  <2> QED
    BY <2>1, <2>5 DEF Session!Open
<1>2. ASSUME NEW c \in Clients, ConstructFailsEarly(c) \/ ConstructFailsInTls(c)
      PROVE  Session!Fail(c)
  <2>1. SessionOf(c) = "none" /\ lastCall' = lastCall
    BY <1>2 DEF ConstructFailsEarly, ConstructFailsInTls, ConstructorCleansUp, SessionOf
  <2>2. /\ phase' = [phase EXCEPT ![c] = "threw"]
        /\ UNCHANGED <<isConnected, unbinding>>
    BY <1>2 DEF ConstructFailsEarly, ConstructFailsInTls, ConstructorCleansUp
  <2>3. SessionOf(c)' = "failed"
    BY <1>t, <2>2 DEF SessionOf, TypeOK
  <2>4. \A d \in Clients \ {c} : SessionOf(d)' = SessionOf(d)
    BY <1>t, <2>2, SameSession DEF TypeOK
  <2>5. S' = [S EXCEPT ![c] = "failed"]
    BY <2>3, <2>4, OneSession
  <2> QED
    BY <2>1, <2>5 DEF Session!Fail
<1>3. ASSUME NEW c \in Clients, Request(c) \/ StartTLS(c) \/ UnbindAgain(c)
      PROVE  Session!Serve(c) \/ Session!Reject(c)
  <2>1. /\ phase[c] = "built" /\ UNCHANGED <<phase, isConnected, unbinding>>
        /\ lastCall'.on \in {Reaches(c), NoLd}
    BY <1>3 DEF Request, StartTLS, UnbindAgain, clientVars
  <2>2. S' = S
    BY <2>1, SameSession, SameSessions
  <2>3. /\ SessionOf(c) \in {"open", "closing", "closed"}
        /\ Reaches(c) = IF SessionOf(c) = "open" THEN c ELSE NoLd
    BY <2>1, SessionReaches
  <2> QED
    BY <2>1, <2>2, <2>3 DEF Session!Serve, Session!Reject
<1>4. ASSUME NEW c \in Clients, Unbind(c) PROVE Session!Close(c) \/ Session!Reject(c)
  <2>1. /\ Holds(c) /\ UNCHANGED <<phase, isConnected>>
        /\ lastCall'.on = Reaches(c)
        /\ unbinding' = [unbinding EXCEPT ![c] = @ + 1] /\ unbinding[c] \in Nat
    BY <1>t, <1>4 DEF Unbind, TypeOK
  <2>2. phase[c] = "built" /\ isConnected[c]
    BY <2>1 DEF ConnectedInv
  <2>3. /\ SessionOf(c) = IF unbinding[c] = 0 THEN "open" ELSE "closing"
        /\ Reaches(c) = IF SessionOf(c) = "open" THEN c ELSE NoLd
    BY <2>1, <2>2, SessionReaches
  <2>4. unbinding'[c] > 0 /\ unbinding'[c] # 0
    BY <1>t, <2>1 DEF TypeOK
  <2>5. SessionOf(c)' = "closing"
    BY <2>1, <2>2, <2>4 DEF SessionOf
  <2>6. \A d \in Clients \ {c} : SessionOf(d)' = SessionOf(d)
    BY <1>t, <2>1, SameSession DEF TypeOK
  <2>7. CASE unbinding[c] = 0
    <3>1. S' = [S EXCEPT ![c] = "closing"]
      BY <2>5, <2>6, OneSession
    <3> QED
      BY <2>1, <2>3, <2>7, <3>1 DEF Session!Close
  <2>8. CASE unbinding[c] # 0
    <3>1. S' = S
      BY <2>3, <2>5, <2>6, <2>8, SameSessions
    <3> QED
      BY <2>1, <2>3, <2>8, <3>1 DEF Session!Reject
  <2> QED
    BY <2>7, <2>8
<1>5. ASSUME NEW c \in Clients, FinishUnbind(c)
      PROVE  Session!Closed(c) \/ UNCHANGED Session!vars
  <2>1. /\ unbinding[c] > 0 /\ unbinding[c] # 0 /\ UNCHANGED <<phase, lastCall>>
        /\ unbinding' = [unbinding EXCEPT ![c] = @ - 1]
        /\ isConnected' = [isConnected EXCEPT ![c] = FALSE]
    BY <1>t, <1>5 DEF FinishUnbind, TypeOK
  <2>2. phase[c] = "built" /\ phase'[c] = "built" /\ isConnected'[c] = FALSE
    BY <1>t, <2>1 DEF UnbuiltIsBlank, TypeOK
  <2>3. SessionOf(c)' = "closed"
    BY <2>2 DEF SessionOf
  <2>4. \A d \in Clients \ {c} : SessionOf(d)' = SessionOf(d)
    BY <1>t, <2>1, SameSession DEF TypeOK
  <2>5. CASE Holds(c)
    <3>1. SessionOf(c) = "closing"
      BY <2>1, <2>2, <2>5, SessionReaches
    <3>2. S' = [S EXCEPT ![c] = "closed"]
      BY <2>3, <2>4, OneSession
    <3> QED
      BY <2>1, <3>1, <3>2 DEF Session!Closed
  <2>6. CASE ~Holds(c)
    <3>1. SessionOf(c) = "closed"
      BY <2>2, <2>6, SessionReaches
    <3>2. S' = S
      BY <2>3, <2>4, <3>1, SameSessions
    <3> QED
      BY <2>1, <3>2 DEF Session!vars
  <2> QED
    BY <2>5, <2>6
<1>6. CASE UNCHANGED vars
  <2>1. S' = S /\ lastCall' = lastCall
    BY <1>6, SameSession, SameSessions DEF vars, clientVars
  <2> QED
    BY <2>1 DEF Session!vars
<1>7. CASE Next
  BY <1>1, <1>2, <1>3, <1>4, <1>5, <1>7 DEF Next, Session!Next
<1> QED
  BY <1>6, <1>7

\* For every number of clients and ids: as long as no id is handed out twice,
\* every behaviour of the client and the addon is one of a session per client
\* that is opened once, serves its own calls, and is closed once.
THEOREM ImplementsSessionSafely == Spec /\ []~reused => Session!Safety
<1>1. Init => Session!Init
  <2> SUFFICES ASSUME Init PROVE Session!Init
    OBVIOUS
  <2>1. \A c \in Clients : SessionOf(c) = "none"
    BY DEF Init, SessionOf
  <2> QED
    BY <2>1 DEF Init, Session!Init
<1>2. Init => ConnectedInv
  BY DEF Init, ConnectedInv, Holds
<1>3. Inv /\ ConnectedInv /\ [Next]_vars => ConnectedInv'
  BY ConnectedStep
<1>4. Inv /\ ConnectedInv /\ ~reused /\ [Next]_vars => [Session!Next]_(Session!vars)
  BY SessionStep
<1> QED
  BY <1>1, <1>2, <1>3, <1>4, Invariance, PTL DEF Spec, Session!Safety

\* So it is in every program with no more clients than there are ids.
THEOREM SessionsOfFewClients ==
  ASSUME IsFiniteSet(Clients), Cardinality(Clients) <= IdSpace
  PROVE  Spec => Session!Safety
  BY EnoughIds, ImplementsSessionSafely, PTL
===============================================================================
