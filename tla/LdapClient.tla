------------------------------ MODULE LdapClient ------------------------------
(***************************************************************************)
(* The life of Client objects (src/client.cjs) over the handle table of    *)
(* the addon: constructor, requests, startTLS, unbind, and the temporary   *)
(* files that carry TLS material to libldap.                               *)
(*                                                                         *)
(* JavaScript runs one task at a time and the addon calls libldap          *)
(* synchronously, so a method is atomic up to its first await.  The only   *)
(* await with work after it in these methods is the one in unbind(): the   *)
(* native handle is gone when it starts, and the finally block that clears *)
(* nativeHandle runs in a later task.  Any other call may run in between.  *)
(***************************************************************************)
EXTENDS HandleTable, FiniteSets

CONSTANTS TempDirs,   \* the directory names mkdtemp can return
          MaxUnbinds  \* bound: unbind() calls of one client in flight

Materials == {"ca", "cert", "key"}  \* the TLS options written to a file
NoHandle == -1                      \* nativeHandle is null; ids are natural

VARIABLES
  phase,         \* "unborn", "built", or "threw" (its constructor did)
  nativeHandle,  \* this.nativeHandle: the id in it, or NoHandle
  isConnected,   \* this.isConnected
  tempPaths,     \* this.tempPaths
  unbinding,     \* unbind() calls past native.unbind, finally block to come
  disk,          \* the temporary directories that exist
  lastCall,      \* the last call on a client, and the LDAP* it was sent on
  lost,          \* history: directories a file system failure left behind
  late,          \* history: directories startTLS made for a closed client
  reused         \* history: an id was handed out while a client held it

clientVars == <<phase, nativeHandle, isConnected, unbinding>>
fileVars == <<tempPaths, disk, lost, late>>
vars == <<tableVars, clientVars, fileVars, lastCall, reused>>

TypeOK ==
  /\ TableTypeOK
  /\ phase \in [Clients -> {"unborn", "built", "threw"}]
  /\ nativeHandle \in [Clients -> Ids \cup {NoHandle}]
  /\ isConnected \in [Clients -> BOOLEAN]
  /\ tempPaths \in [Clients -> SUBSET TempDirs]
  /\ unbinding \in [Clients -> Nat]
  /\ disk \subseteq TempDirs
  /\ lost \subseteq TempDirs
  /\ late \subseteq TempDirs
  /\ reused \in BOOLEAN
  /\ lastCall \in [by : Lds, on : Lds]

Init ==
  /\ TableInit
  /\ phase = [c \in Clients |-> "unborn"]
  /\ nativeHandle = [c \in Clients |-> NoHandle]
  /\ isConnected = [c \in Clients |-> FALSE]
  /\ tempPaths = [c \in Clients |-> {}]
  /\ unbinding = [c \in Clients |-> 0]
  /\ disk = {}
  /\ lost = {}
  /\ late = {}
  /\ reused = FALSE
  /\ lastCall = [by |-> NoLd, on |-> NoLd]

Holds(c) == nativeHandle[c] # NoHandle

\* The LDAP* a native call with this client's handle reaches: none after
\* unbind() is over ("handle object required") or when the id is unknown.
Reaches(c) == IF Holds(c) THEN Resolve(nativeHandle[c]) ELSE NoLd

-------------------------------------------------------------------------------
(* Temporary TLS material *)

\* normalizeTlsOptions calls makeTempFile for each inline ca, cert, key: made
\* are the directories whose file was written.  A failing mkdtemp ends it with
\* nothing stray, a failing writeFile leaves one directory nobody tracks.
WritesMaterial(made, stray) ==
  /\ made \subseteq TempDirs \ disk
  /\ stray \subseteq TempDirs \ (disk \cup made)
  /\ Cardinality(stray) <= 1
  /\ Cardinality(made) + Cardinality(stray) <= Cardinality(Materials)

\* Some file was still to write when the file system failed.
WriteFails(made, stray) ==
  /\ WritesMaterial(made, stray)
  /\ Cardinality(made) < Cardinality(Materials)

\* cleanupTempPaths(this.tempPaths): every removal is tried once, a failure
\* is ignored, and the set is cleared.
CleanupForgets(c) ==
  /\ tempPaths' = [tempPaths EXCEPT ![c] = {}]
  /\ UNCHANGED <<disk, lost, late>>
CleanupKeepsPaths(c) ==
  \E undeleted \in SUBSET tempPaths[c] :
    /\ disk' = disk \ (tempPaths[c] \ undeleted)
    /\ lost' = lost \cup undeleted
    /\ late' = late \ tempPaths[c]
    /\ UNCHANGED tempPaths
CleanupTempPaths(c) ==
  \E undeleted \in SUBSET tempPaths[c] :
    /\ disk' = disk \ (tempPaths[c] \ undeleted)
    /\ lost' = lost \cup undeleted
    /\ late' = late \ tempPaths[c]
    /\ tempPaths' = [tempPaths EXCEPT ![c] = {}]

-------------------------------------------------------------------------------
(* Constructor *)

Construct(c) ==
  /\ phase[c] = "unborn"
  /\ \E made \in SUBSET TempDirs :
       /\ WritesMaterial(made, {})
       /\ tempPaths' = [tempPaths EXCEPT ![c] = made]
       /\ disk' = disk \cup made
  /\ reused' = (reused \/ \E d \in Clients : nativeHandle[d] = g_nextId)
  /\ ConnectReturns(c)
  /\ nativeHandle' = [nativeHandle EXCEPT ![c] = g_nextId]
  /\ isConnected' = [isConnected EXCEPT ![c] = TRUE]
  /\ phase' = [phase EXCEPT ![c] = "built"]
  /\ UNCHANGED <<unbinding, lost, late, lastCall>>

\* The catch block removes the directories made so far; undeleted ones and a
\* stray one stay on disk.
ConstructorCleansUp(c, stray) ==
  \E made \in SUBSET TempDirs : \E undeleted \in SUBSET made :
    /\ WritesMaterial(made, stray)
    /\ disk' = disk \cup undeleted \cup stray
    /\ lost' = lost \cup undeleted \cup stray
    /\ phase' = [phase EXCEPT ![c] = "threw"]
    /\ UNCHANGED <<nativeHandle, isConnected, unbinding, tempPaths, late,
                   lastCall, reused>>

\* No url, a file system failure, a bad Windows url, ldap_initialize failed.
ConstructFailsEarly(c) ==
  /\ phase[c] = "unborn"
  /\ \E stray \in SUBSET TempDirs : ConstructorCleansUp(c, stray)
  /\ UNCHANGED tableVars

\* ApplyTlsOptions threw inside native.connect.
ConstructFailsInTls(c) ==
  /\ phase[c] = "unborn"
  /\ ConstructorCleansUp(c, {})
  /\ ConnectThrows(c)

-------------------------------------------------------------------------------
(* Requests: bind, saslBind, search, add, modify, del, compare, modifyDN, exop *)

\* Resolved or rejected by the server, or rejected because the handle is null
\* or unknown: the connection it was sent on is all that is kept of it.
Request(c) ==
  /\ phase[c] = "built"
  /\ lastCall' = [by |-> c, on |-> Reaches(c)]
  /\ UNCHANGED <<tableVars, clientVars, fileVars, reused>>

\* startTLS writes its files first, then calls the addon; nothing is removed
\* when the call is rejected.
StartTLS(c) ==
  /\ phase[c] = "built"
  /\ \E made, stray \in SUBSET TempDirs :
       /\ \/ /\ stray = {}
             /\ WritesMaterial(made, stray)
             /\ lastCall' = [by |-> c, on |-> Reaches(c)]
          \/ /\ WriteFails(made, stray)
             /\ lastCall' = [by |-> c, on |-> NoLd]
       /\ tempPaths' = [tempPaths EXCEPT ![c] = @ \cup made]
       /\ disk' = disk \cup made \cup stray
       /\ lost' = lost \cup stray
       /\ late' = IF Holds(c) THEN late ELSE late \cup made
  /\ UNCHANGED <<tableVars, clientVars, reused>>

-------------------------------------------------------------------------------
(* unbind() *)

Unbind(c) ==
  /\ Holds(c)
  /\ unbinding[c] < MaxUnbinds
  /\ lastCall' = [by |-> c, on |-> Reaches(c)]
  /\ Erase(nativeHandle[c])
  /\ unbinding' = [unbinding EXCEPT ![c] = @ + 1]
  /\ UNCHANGED <<phase, nativeHandle, isConnected, fileVars, reused>>

\* A second unbind() of a closed client returns at once.
UnbindAgain(c) ==
  /\ phase[c] = "built"
  /\ ~Holds(c)
  /\ lastCall' = [by |-> c, on |-> NoLd]
  /\ UNCHANGED <<tableVars, clientVars, fileVars, reused>>

\* The finally block.
FinishStaysConnected(c) ==
  /\ unbinding[c] > 0
  /\ unbinding' = [unbinding EXCEPT ![c] = @ - 1]
  /\ nativeHandle' = [nativeHandle EXCEPT ![c] = NoHandle]
  /\ CleanupTempPaths(c)
  /\ UNCHANGED <<tableVars, phase, isConnected, lastCall, reused>>
FinishUnbind(c) ==
  /\ unbinding[c] > 0
  /\ unbinding' = [unbinding EXCEPT ![c] = @ - 1]
  /\ nativeHandle' = [nativeHandle EXCEPT ![c] = NoHandle]
  /\ isConnected' = [isConnected EXCEPT ![c] = FALSE]
  /\ CleanupTempPaths(c)
  /\ UNCHANGED <<tableVars, phase, lastCall, reused>>

-------------------------------------------------------------------------------
Next ==
  \E c \in Clients :
    \/ Construct(c)
    \/ ConstructFailsEarly(c)
    \/ ConstructFailsInTls(c)
    \/ Request(c)
    \/ StartTLS(c)
    \/ Unbind(c)
    \/ UnbindAgain(c)
    \/ FinishUnbind(c)

\* The event loop runs every task that was queued.
Fairness == \A c \in Clients : WF_vars(FinishUnbind(c))

Spec == Init /\ [][Next]_vars
FairSpec == Spec /\ Fairness

-------------------------------------------------------------------------------
(* Properties *)

\* As long as no id was handed out twice, the id a client holds names the
\* connection its own constructor made, up to its unbind(), and nothing after.
HandleIsolation ==
  reused \/
  \A c \in Clients :
    Holds(c) => Resolve(nativeHandle[c]) = IF unbinding[c] = 0 THEN c ELSE NoLd

\* No two clients ever share a temporary directory, and a directory on disk
\* is tracked by a client or was left by a failure of the file system: the
\* cleanup of one client never deletes the TLS files another one is using.
TempFilesAccounted ==
  /\ \A c, d \in Clients : c # d => tempPaths[c] \cap tempPaths[d] = {}
  /\ disk = lost \cup UNION {tempPaths[c] : c \in Clients}
  /\ \A c \in Clients : tempPaths[c] \cap lost = {}

\* An LDAP* that is still open belongs to a client that has not called
\* unbind(), or was leaked by a constructor that threw inside native.connect.
OpenLdsAccounted ==
  reused \/
  \A ld \in openLds :
    \/ phase[ld] = "threw"
    \/ Holds(ld) /\ unbinding[ld] = 0

\* What a closed client still tracks was written by a startTLS() called after
\* the close: nothing it had before survives its unbind().
ClosedTracksOnlyLate ==
  \A c \in Clients : ~Holds(c) => tempPaths[c] \subseteq late

\* No handle a client can still use leads to an LDAP* that has been unbound,
\* not even once ids are handed out again.
NoUseAfterUnbind == \A c \in Clients : Reaches(c) \in openLds \cup {NoLd}

\* An id is handed out while a client holds it only after a whole cycle of
\* IdSpace - 1 other registrations during that client's life.
ReuseTakesACycle ==
  [][~reused /\ reused' =>
       \E c \in Clients : Holds(c) /\ age[c] >= IdSpace - 1]_vars

\* A client's tracked TLS file is gone from disk some time after its unbind(),
\* unless the file system refused.
TempFilesRemoved ==
  \A c \in Clients, t \in TempDirs :
    (unbinding[c] > 0 /\ t \in tempPaths[c]) ~> (t \notin disk \/ t \in lost)

-------------------------------------------------------------------------------
(* What a client promises *)

SessionOf(c) ==
  CASE phase[c] = "unborn" -> "none"
    [] phase[c] = "threw"  -> "failed"
    [] phase[c] = "built" /\ isConnected[c] /\ unbinding[c] = 0 -> "open"
    [] phase[c] = "built" /\ isConnected[c] /\ unbinding[c] > 0 -> "closing"
    [] OTHER -> "closed"

Session == INSTANCE LdapSession WITH
  session <- [c \in Clients |-> SessionOf(c)],
  served <- lastCall.on

\* The client and the addon together implement the session (ids not reused:
\* IdSpace is not below the number of constructors).
ImplementsSession == Session!Spec
===============================================================================
