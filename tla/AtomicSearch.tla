---------------------------- MODULE AtomicSearch ----------------------------
(***************************************************************************)
(* What a search promises.  Its answer has the entries that the directory  *)
(* had at one instant between the call and its return.  The name an entry  *)
(* is answered with is one it had between the call and its return, and a   *)
(* search taken in the call itself answers with the names of that instant. *)
(***************************************************************************)
CONSTANTS Calls

VARIABLES store,   \* the directory: pairs of an entry and its name
          phase,   \* the state of each call
          answer,  \* its answer, once taken: pairs of an entry and a name
          since    \* history: the pairs of the directory since it began, while it runs

vars == <<store, phase, answer, since>>

Entries(pairs) == {p[1] : p \in pairs}

Init ==
  /\ phase = [s \in Calls |-> "idle"]
  /\ answer = [s \in Calls |-> {}]
  /\ since = [s \in Calls |-> {}]

Change ==
  /\ since' = [s \in Calls |->
       IF phase[s] \in {"pending", "taken"} THEN since[s] \cup store' ELSE since[s]]
  /\ UNCHANGED <<phase, answer>>

\* A call is taken at once, or later, or refused.
Begin(s) ==
  /\ phase[s] = "idle"
  /\ \/ /\ phase' = [phase EXCEPT ![s] = "taken"]
        /\ answer' = [answer EXCEPT ![s] = store]
        /\ since' = [since EXCEPT ![s] = store]
     \/ /\ phase' = [phase EXCEPT ![s] = "pending"]
        /\ since' = [since EXCEPT ![s] = store]
        /\ UNCHANGED answer
     \/ /\ phase' = [phase EXCEPT ![s] = "failed"]
        /\ UNCHANGED <<answer, since>>
  /\ UNCHANGED store

\* The instant of a search that was not taken at once.
Take(s) ==
  /\ phase[s] = "pending"
  /\ phase' = [phase EXCEPT ![s] = "taken"]
  /\ \E found \in SUBSET since[s] :
       /\ Entries(found) = Entries(store)
       /\ \A p, q \in found : p[1] = q[1] => p = q
       /\ answer' = [answer EXCEPT ![s] = found]
  /\ UNCHANGED <<store, since>>

Return(s) ==
  /\ phase[s] = "taken"
  /\ phase' = [phase EXCEPT ![s] = "done"]
  /\ since' = [since EXCEPT ![s] = {}]
  /\ UNCHANGED <<store, answer>>

Fail(s) ==
  /\ phase[s] \in {"pending", "taken"}
  /\ phase' = [phase EXCEPT ![s] = "failed"]
  /\ answer' = [answer EXCEPT ![s] = {}]
  /\ since' = [since EXCEPT ![s] = {}]
  /\ UNCHANGED store

Next == Change \/ \E s \in Calls : Begin(s) \/ Take(s) \/ Return(s) \/ Fail(s)

Spec == Init /\ [][Next]_vars
=============================================================================
