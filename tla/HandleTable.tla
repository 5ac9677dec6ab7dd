----------------------------- MODULE HandleTable -----------------------------
(***************************************************************************)
(* The handle table of the native addon (native/addon.cc): g_handles maps  *)
(* the 32-bit ids handed to JavaScript to LDAP connections, g_nextId is    *)
(* the next id to hand out.                                                *)
(*                                                                         *)
(* An LDAP* is named by the Client object whose constructor made it: a     *)
(* constructor calls native.connect once.  2^32 is the constant IdSpace,   *)
(* so that TLC can let the counter wrap.                                   *)
(***************************************************************************)
EXTENDS Integers

CONSTANTS Clients,  \* the Client objects ever constructed, and their LDAP*
          NoLd,     \* "no connection": an id that is not in the map
          IdSpace   \* the number of ids, 2^32 in the code

ASSUME IdSpaceAssumption == IdSpace \in Nat /\ IdSpace >= 2
ASSUME NoLdAssumption == NoLd \notin Clients

VARIABLES
  g_handles,  \* id -> LDAP* or NoLd
  g_nextId,   \* the id the next registration takes
  openLds,    \* the LDAP* initialised and not yet unbound
  age         \* history: registrations since this LDAP* was registered

tableVars == <<g_handles, g_nextId, openLds, age>>

Ids == 0 .. IdSpace - 1
Lds == Clients \cup {NoLd}

TableTypeOK ==
  /\ g_handles \in [Ids -> Lds]
  /\ g_nextId \in Ids
  /\ openLds \subseteq Clients
  /\ age \in [Clients -> Nat]

TableInit ==
  /\ g_handles = [i \in Ids |-> NoLd]
  /\ g_nextId = 1
  /\ openLds = {}
  /\ age = [ld \in Clients |-> 0]

\* GetHandle: the connection a request on this id is sent on; NoLd is the
\* "invalid handle" error.
Resolve(id) == g_handles[id]

\* g_nextId++ on a uint32_t.
NextIdUnwrapped(id) == id + 1
NextIdShort(id) == IF id >= IdSpace - 2 THEN 0 ELSE id + 1
NextIdAfter(id) == IF id = IdSpace - 1 THEN 0 ELSE id + 1

\* Connect, all the way: the handle takes the next id, whatever that id
\* names already.
ConnectReturns(ld) ==
  /\ openLds' = openLds \cup {ld}
  /\ g_handles' = [g_handles EXCEPT ![g_nextId] = ld]
  /\ g_nextId' = NextIdAfter(g_nextId)
  /\ age' = [other \in Clients |-> IF other = ld THEN 0 ELSE age[other] + 1]

\* Connect throws from ApplyTlsOptions: ldap_initialize has made the LDAP*,
\* which is never registered and never unbound.
ConnectThrows(ld) ==
  /\ openLds' = openLds \cup {ld}
  /\ UNCHANGED <<g_handles, g_nextId, age>>

\* Unbind: the connection is unbound and its id leaves the map; an unknown
\* id is not an error.
EraseKeepsEntry(id) ==
  /\ openLds' = openLds \ {g_handles[id]}
  /\ UNCHANGED <<g_handles, g_nextId, age>>
EraseKeepsLd(id) ==
  /\ g_handles' = [g_handles EXCEPT ![id] = NoLd]
  /\ UNCHANGED <<openLds, g_nextId, age>>
Erase(id) ==
  /\ openLds' = openLds \ {g_handles[id]}
  /\ g_handles' = [g_handles EXCEPT ![id] = NoLd]
  /\ UNCHANGED <<g_nextId, age>>
=============================================================================
