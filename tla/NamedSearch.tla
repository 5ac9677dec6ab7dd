----------------------------- MODULE NamedSearch -----------------------------
(***************************************************************************)
(* PagedSearch with the names its callers get: the backend clones the      *)
(* entries of a page when it reads it, and a clone keeps the name its      *)
(* entry had then, whatever modifyDN does before the next page.            *)
(***************************************************************************)
EXTENDS PagedSearch

VARIABLES
  clones,  \* the entries cloned for each call, each with the name it had then
  since    \* history: the pairs of the directory since the call began, while it runs

namedVars == <<vars, clones, since>>

NamedTypeOK ==
  /\ TypeOK
  /\ clones \in [Calls -> SUBSET ((1 .. Len(dns)) \X Dns)]
  /\ since \in [Calls -> SUBSET ((1 .. Len(dns)) \X Dns)]

NamedInit ==
  /\ Init
  /\ clones = [s \in Calls |-> {}]
  /\ since = [s \in Calls |-> {}]

\* A call moves; if it asks for a page, the entries of the page are cloned.
MoveNamed(s) ==
  /\ Move(s)
  /\ clones' = [clones EXCEPT ![s] =
       IF pc'[s] = "waiting"
       THEN @ \cup {<<e, dns[e]>> : e \in page'[s].entries} ELSE @]
  /\ since' = [since EXCEPT ![s] =
       IF ~Active(s)' THEN {} ELSE IF pc[s] = "idle" THEN Directory ELSE @]

\* The clones of the pages read so far stay as they are.
OthersNamed ==
  /\ OtherTasks
  /\ since' = [s \in Calls |->
       IF Active(s) THEN since[s] \cup Directory' ELSE since[s]]
  /\ UNCHANGED clones

NamedNext == OthersNamed \/ \E s \in Calls : MoveNamed(s)

NamedSpec == NamedInit /\ [][NamedNext]_namedVars

-------------------------------------------------------------------------------
(* A search as AtomicSearch sees it: taken once its last page is read.       *)

PhaseOf(s) ==
  IF Active(s) THEN IF page[s].cookie > 0 THEN "pending" ELSE "taken"
  ELSE IF pc[s] \in {"idle", "done"} THEN pc[s] ELSE "failed"

HandedOf(s) ==
  IF PhaseOf(s) = "taken" THEN result[s] \cup page[s].entries
  ELSE IF PhaseOf(s) = "done" THEN result[s] ELSE {}

AnswerOf(s) == {p \in clones[s] : p[1] \in HandedOf(s)}

Atomic == INSTANCE AtomicSearch WITH
  store <- Directory,
  phase <- [s \in Calls |-> PhaseOf(s)],
  answer <- [s \in Calls |-> AnswerOf(s)]

\* When nothing is deleted, the entries of a paged search are those of the
\* directory at the instant its last page is read, each once and under a name it
\* had while the search ran: an entry renamed between two pages is answered with
\* the name it had when its page was read.  A search of one page is atomic, names
\* included.
ImplementsAtomicSearch == Atomic!Spec
==============================================================================
