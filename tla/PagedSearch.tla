----------------------------- MODULE PagedSearch -----------------------------
(***************************************************************************)
(* Client.search and Client.searchPaginated (src/client.cjs) over the      *)
(* in-memory backend, several calls at a time, while other tasks add,      *)
(* delete and rename entries and unbind the client.                        *)
(*                                                                         *)
(* A page is read when native.search is called; the caller gets it in a    *)
(* later task (await), so the entries may have changed in between.         *)
(* search() asks for the next page in the task in which it got the last    *)
(* one; searchPaginated() yields it and asks when its consumer calls       *)
(* next(), which may be much later or never.                               *)
(***************************************************************************)
EXTENDS MockDirectory

CONSTANTS Paged,     \* calls of search() with options.paged
          Plain,     \* calls of search() without
          Streams,   \* calls of searchPaginated()
          PageSize   \* options.paged.pageSize

ASSUME PageSizeAssumption == PageSize \in Nat /\ PageSize >= 1

Calls == Paged \cup Plain \cup Streams

VARIABLES
  pc,      \* where each call is
  page,    \* the last page read for it; its cookie asks for the next one
  result,  \* the entries handed to its caller
  stable,  \* history: entries that were there from its start to its end
  passed   \* history: entries deleted from the pages already read

callVars == <<pc, page, result>>
histVars == <<stable, passed>>
vars == <<dirVars, callVars, histVars>>

NoPage == [entries |-> {}, cookie |-> 0]

Active(s) == pc[s] \in {"waiting", "yielded"}

TypeOK ==
  /\ DirTypeOK
  /\ pc \in [Calls ->
       {"idle", "waiting", "yielded", "done", "rejected", "stopped"}]
  /\ page \in [Calls -> [entries : SUBSET (1 .. Len(dns)),
                         cookie : 0 .. Len(dns)]]
  /\ result \in [Calls -> SUBSET (1 .. Len(dns))]
  /\ stable \in [Calls -> SUBSET (1 .. Len(dns))]
  /\ passed \in [Calls -> Nat]

Init ==
  /\ DirInit
  /\ pc = [s \in Calls |-> "idle"]
  /\ page = [s \in Calls |-> NoPage]
  /\ result = [s \in Calls |-> {}]
  /\ stable = [s \in Calls |-> {}]
  /\ passed = [s \in Calls |-> 0]

-------------------------------------------------------------------------------
(* The calls *)

\* runSearch: the backend reads the page now, or has no such handle.
Read(s, offset) ==
  \/ /\ open
     /\ page' = [page EXCEPT ![s] =
          IF s \in Plain THEN [entries |-> live, cookie |-> 0]
                         ELSE PageAt(offset, PageSize)]
     /\ pc' = [pc EXCEPT ![s] = "waiting"]
  \/ /\ ~open
     /\ pc' = [pc EXCEPT ![s] = "rejected"]
     /\ UNCHANGED page

Start(s) ==
  /\ pc[s] = "idle"
  /\ Read(s, 0)
  /\ stable' = [stable EXCEPT ![s] = live]
  /\ UNCHANGED <<dirVars, result, passed>>

\* search() gets a page: it collects it and asks for the next one.
Collect(s) ==
  /\ pc[s] = "waiting" /\ s \notin Streams
  /\ result' = [result EXCEPT ![s] = @ \cup page[s].entries]
  /\ \/ /\ page[s].cookie = 0
        /\ pc' = [pc EXCEPT ![s] = "done"]
        /\ UNCHANGED page
     \/ /\ page[s].cookie > 0
        /\ Read(s, page[s].cookie)
  /\ UNCHANGED <<dirVars, histVars>>

\* searchPaginated() gets a page and yields it.
Yield(s) ==
  /\ pc[s] = "waiting" /\ s \in Streams
  /\ result' = [result EXCEPT ![s] = @ \cup page[s].entries]
  /\ pc' = [pc EXCEPT ![s] = "yielded"]
  /\ UNCHANGED <<dirVars, page, histVars>>

\* The consumer calls next().
Pull(s) ==
  /\ pc[s] = "yielded"
  /\ \/ /\ page[s].cookie = 0
        /\ pc' = [pc EXCEPT ![s] = "done"]
        /\ UNCHANGED page
     \/ /\ page[s].cookie > 0
        /\ Read(s, page[s].cookie)
  /\ UNCHANGED <<dirVars, result, histVars>>

\* The consumer breaks out of its loop.
Stop(s) ==
  /\ pc[s] = "yielded"
  /\ pc' = [pc EXCEPT ![s] = "stopped"]
  /\ UNCHANGED <<dirVars, page, result, histVars>>

-------------------------------------------------------------------------------
(* Other tasks on the same client *)

Add(dn) == AddEntry(dn) /\ UNCHANGED <<callVars, histVars>>

Rename(dn, newDn) == RenameEntry(dn, newDn) /\ UNCHANGED <<callVars, histVars>>

Del(dn) ==
  /\ DelEntries(dn)
  /\ stable' = [s \in Calls |->
       IF Active(s) THEN stable[s] \ Named(dn) ELSE stable[s]]
  /\ passed' = [s \in Calls |->
       IF Active(s)
       THEN passed[s]
              + Cardinality({e \in Named(dn) : IndexOf(e) < page[s].cookie})
       ELSE passed[s]]
  /\ UNCHANGED callVars

Unbind == open /\ DropHandle /\ UNCHANGED <<callVars, histVars>>

Move(s) == Start(s) \/ Collect(s) \/ Yield(s) \/ Pull(s) \/ Stop(s)

OtherTasks ==
  \/ \E dn \in NewDns : Add(dn)
  \/ \E dn \in DelDns : Del(dn)
  \/ \E dn \in Dns, newDn \in NewDns : Rename(dn, newDn)
  \/ Unbind

Next == OtherTasks \/ \E s \in Calls : Move(s)

\* A settled promise runs its continuation; consumers and callers may idle.
Fairness == \A s \in Calls : WF_vars(Collect(s)) /\ WF_vars(Yield(s))

Spec == Init /\ [][Next]_vars
FairSpec == Spec /\ Fairness

-------------------------------------------------------------------------------
(* Properties *)

\* No call hands out an entry twice, whatever is added, deleted or renamed
\* between its pages: a page in flight holds only entries not seen before.
ReportedOnce ==
  \A s \in Calls : pc[s] = "waiting" => page[s].entries \cap result[s] = {}

\* A call that completed missed an entry that was there all along only because
\* an entry was deleted from a page it had already read: at most one missed
\* for one deleted.
MissedOnlyByDeletes ==
  \A s \in Calls : pc[s] = "done" =>
    Cardinality(stable[s] \ result[s]) <= passed[s]

\* search() always settles, and an async generator always yields what it read:
\* the offset grows with every page.
CallsSettle ==
  \A s \in Calls : pc[s] = "waiting" ~>
    pc[s] \in IF s \in Streams THEN {"yielded"} ELSE {"done", "rejected"}
===============================================================================
