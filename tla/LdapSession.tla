----------------------------- MODULE LdapSession -----------------------------
(***************************************************************************)
(* What a Client promises its caller: a session is opened once, carries    *)
(* requests while it is open, and is closed once.  A request of an open    *)
(* session travels on its own connection, and no request of a session that *)
(* is not open travels at all.                                             *)
(***************************************************************************)
CONSTANTS Clients, NoLd

VARIABLES session,  \* the state of each session
          served    \* the connection the last call was sent on, or NoLd

vars == <<session, served>>

Init ==
  /\ session = [c \in Clients |-> "none"]
  /\ served = NoLd

Open(c) ==
  /\ session[c] = "none"
  /\ session' = [session EXCEPT ![c] = "open"]
  /\ UNCHANGED served

Fail(c) ==
  /\ session[c] = "none"
  /\ session' = [session EXCEPT ![c] = "failed"]
  /\ UNCHANGED served

Serve(c) ==
  /\ session[c] = "open"
  /\ served' = c
  /\ UNCHANGED session

\* A call on a session that is not open, or one that fails before it is sent.
Reject(c) ==
  /\ session[c] \in {"open", "closing", "closed"}
  /\ served' = NoLd
  /\ UNCHANGED session

\* The last request on the connection is the unbind itself.
Close(c) ==
  /\ session[c] = "open"
  /\ session' = [session EXCEPT ![c] = "closing"]
  /\ served' = c

Closed(c) ==
  /\ session[c] = "closing"
  /\ session' = [session EXCEPT ![c] = "closed"]
  /\ UNCHANGED served

Next == \E c \in Clients :
  Open(c) \/ Fail(c) \/ Serve(c) \/ Reject(c) \/ Close(c) \/ Closed(c)

Safety == Init /\ [][Next]_vars

\* A session that is closing gets closed.
Spec == Safety /\ \A c \in Clients : WF_vars(Closed(c))
==============================================================================
