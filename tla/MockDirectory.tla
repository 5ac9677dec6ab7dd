---------------------------- MODULE MockDirectory ----------------------------
(***************************************************************************)
(* The entries of one handle of the in-memory backend                      *)
(* (src/mock-native.cjs), and the page a search reads from them.           *)
(*                                                                         *)
(* state.entries is an array that only grows at its end, is filtered in    *)
(* order and is renamed in place, so its order is the order of creation:   *)
(* an entry is the number of its creation, and its index in the array is   *)
(* the number of live entries created before it.                           *)
(***************************************************************************)
EXTENDS Integers, Sequences, FiniteSets

CONSTANTS Dns,        \* distinguished names
          SeedDns,    \* the names connect() seeds the handle with
          NewDns,     \* names that add() and modifyDN() are called with
          DelDns,     \* names that del() is called with
          MaxEntries  \* bound: entries ever created

ASSUME SeedAssumption ==
  SeedDns \in Seq(Dns) /\ MaxEntries \in Nat /\ Len(SeedDns) <= MaxEntries
ASSUME NamesAssumption == NewDns \subseteq Dns /\ DelDns \subseteq Dns

VARIABLES
  dns,   \* the name of every entry created, in order of creation
  live,  \* the entries that are in state.entries
  open   \* the handle is in handles

dirVars == <<dns, live, open>>

DirTypeOK ==
  /\ dns \in Seq(Dns) /\ Len(dns) <= MaxEntries
  /\ live \subseteq 1 .. Len(dns)
  /\ open \in BOOLEAN

DirInit ==
  /\ dns = SeedDns
  /\ live = 1 .. Len(SeedDns)
  /\ open = TRUE

Named(dn) == {e \in live : dns[e] = dn}

\* Every entry with its name, all that a clone of it holds here.
Directory == {<<e, dns[e]>> : e \in live}

\* The index of an entry in state.entries.
IndexOf(e) == Cardinality({f \in live : f < e})

\* state.entries.slice(offset, offset + size)
Slice(offset, size) ==
  {e \in live : offset <= IndexOf(e) /\ IndexOf(e) < offset + size}

\* The answer of search(): an empty cookie is 0, and parseCookie reads an
\* empty cookie as offset 0.
PageAlwaysMore(offset, size) ==
  LET entries == Slice(offset, size) IN
  [entries |-> entries,
   cookie |-> IF offset + Cardinality(entries) <= Cardinality(live)
              THEN offset + Cardinality(entries) ELSE 0]
PageOverlapping(offset, size) ==
  [entries |-> Slice(offset, size + 1),
   cookie |-> IF offset + size < Cardinality(live) THEN offset + size ELSE 0]
PageStopsShort(offset, size) ==
  LET entries == Slice(offset, size)
      next == offset + Cardinality(entries) IN
  [entries |-> entries,
   cookie |-> IF next + 1 < Cardinality(live) THEN next ELSE 0]
PageAt(offset, size) ==
  LET entries == Slice(offset, size)
      next == offset + Cardinality(entries) IN
  [entries |-> entries,
   cookie |-> IF next < Cardinality(live) THEN next ELSE 0]

\* add: pushed at the end, a name that exists is not refused.
AddEntry(dn) ==
  /\ open
  /\ Len(dns) < MaxEntries
  /\ dns' = Append(dns, dn)
  /\ live' = live \cup {Len(dns) + 1}
  /\ UNCHANGED open

\* del: every entry of that name.
DelEntries(dn) ==
  /\ open
  /\ live' = live \ Named(dn)
  /\ UNCHANGED <<dns, open>>

\* modifyDN: the first entry of that name, if there is one.
RenameEntry(dn, newDn) ==
  /\ open
  /\ \/ /\ Named(dn) = {}
        /\ UNCHANGED dns
     \/ \E e \in Named(dn) :
          /\ \A f \in Named(dn) : e <= f
          /\ dns' = [dns EXCEPT ![e] = newDn]
  /\ UNCHANGED <<live, open>>

\* unbind: handles.delete.
DropHandle ==
  /\ open' = FALSE
  /\ UNCHANGED <<dns, live>>
=============================================================================
