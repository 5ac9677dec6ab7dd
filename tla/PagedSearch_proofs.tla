-------------------------- MODULE PagedSearch_proofs --------------------------
(***************************************************************************)
(* Proofs about PagedSearch, for any directory, any calls and any page     *)
(* size.  ReportedOnce rests on SeenInv: of what a call has read, all that *)
(* is still in the directory lies before the offset of its next page.      *)
(* Entries that are added come behind every offset, and deletions only     *)
(* move entries forward, so the other tasks cannot break it.               *)
(* MissedOnlyByDeletes rests on MissedInv, which counts the entries that   *)
(* deletions pulled before the offset unread, and ImplementsAtomicSearch,  *)
(* for calls between which nothing is deleted, on Snapshot: all before     *)
(* the offset has been read, and on NamesInv: once, under a known name.    *)
(***************************************************************************)
EXTENDS NamedSearch, FiniteSetTheorems, SequenceTheorems, TLAPS

\* What a call has read so far, handed out or not.
Seen(s) == result[s] \cup page[s].entries

SeenOf(s) ==
  /\ pc[s] = "idle" => result[s] = {}
  /\ s \in Plain => page[s].cookie = 0
  /\ Active(s) /\ page[s].cookie > 0 =>
       \A e \in live \cap Seen(s) : IndexOf(e) < page[s].cookie

SeenInv == \A s \in Calls : SeenOf(s)

\* A page in flight holds only entries not handed out before.
FreshOf(s) == pc[s] = "waiting" => page[s].entries \cap result[s] = {}

Inv == TypeOK /\ SeenInv /\ ReportedOnce

\* What a call has passed, and of that the entries that were there when it began
\* and are not among those it read.
PassedBy(s) == {e \in live : page[s].cookie = 0 \/ IndexOf(e) < page[s].cookie}
Missed(s) == (stable[s] \ Seen(s)) \cap PassedBy(s)

MissedOf(s) ==
  /\ Active(s) => /\ stable[s] \subseteq live
                  /\ Cardinality(Missed(s)) <= passed[s]
  /\ pc[s] = "yielded" => page[s].entries \subseteq result[s]
  /\ pc[s] = "done" => Cardinality(stable[s] \ result[s]) <= passed[s]

MissedInv == \A s \in Calls : MissedOf(s)

-------------------------------------------------------------------------------
(* The index of an entry, as an operator of the set it is an index in *)

Index(S, e) == Cardinality({f \in S : f < e})

LEMMA IndexType ==
  ASSUME NEW S \in SUBSET Nat, IsFiniteSet(S), NEW e \in Nat
  PROVE  Index(S, e) \in Nat /\ Index(S, e) <= Cardinality(S)
<1>1. {f \in S : f < e} \in SUBSET S
  OBVIOUS
<1> QED
  BY <1>1, FS_Subset, FS_CardinalityType DEF Index

\* Later entries have larger indices.
LEMMA IndexGrows ==
  ASSUME NEW S \in SUBSET Nat, IsFiniteSet(S), NEW e \in S, NEW f \in S, e < f
  PROVE  Index(S, e) < Index(S, f)
<1> DEFINE Before(x) == {g \in S : g < x}
<1>1. IsFiniteSet(Before(e)) /\ IsFiniteSet(Before(f))
  BY FS_Subset, Before(e) \in SUBSET S, Before(f) \in SUBSET S
<1>2. e \notin Before(e) /\ Before(e) \cup {e} \in SUBSET Before(f)
  <2>1. e \in Nat /\ f \in Nat /\ \A g \in S : g \in Nat
    OBVIOUS
  <2>2. \A g \in S : g < e => g < f
    BY <2>1
  <2>3. ~(e < e)
    BY <2>1
  <2> QED
    BY <2>2, <2>3
<1>3. Cardinality(Before(e) \cup {e}) = Cardinality(Before(e)) + 1
  BY <1>1, <1>2, FS_AddElement
<1>4. Cardinality(Before(e) \cup {e}) <= Cardinality(Before(f))
  BY <1>1, <1>2, FS_Subset
<1>5. Cardinality(Before(e)) \in Nat /\ Cardinality(Before(f)) \in Nat
  BY <1>1, FS_CardinalityType
<1> QED
  BY <1>3, <1>4, <1>5 DEF Index

\* Entries with the same index are the same.
LEMMA IndexTells ==
  ASSUME NEW S \in SUBSET Nat, IsFiniteSet(S), NEW e \in S, NEW f \in S,
         Index(S, e) = Index(S, f)
  PROVE  e = f
<1>1. e \in Nat /\ f \in Nat /\ Index(S, e) \in Nat
  BY IndexType
<1>2. ~(e < f)
  BY <1>1, IndexGrows
<1>3. ~(f < e)
  BY <1>1, IndexGrows
<1> QED
  BY <1>1, <1>2, <1>3

\* Removing entries moves none backwards.
LEMMA IndexShrinks ==
  ASSUME NEW S \in SUBSET Nat, IsFiniteSet(S), NEW T \in SUBSET S, NEW e \in Nat
  PROVE  Index(T, e) <= Index(S, e)
<1>1. /\ {f \in S : f < e} \in SUBSET S
      /\ {f \in T : f < e} \in SUBSET {f \in S : f < e}
  OBVIOUS
<1>2. IsFiniteSet({f \in S : f < e})
  BY <1>1, FS_Subset
<1> QED
  BY <1>1, <1>2, FS_Subset DEF Index

\* At most n entries have one of the n indices from m on.
LEMMA FewBetween ==
  ASSUME NEW S \in SUBSET Nat, IsFiniteSet(S), NEW m \in Nat, NEW n \in Nat,
         NEW L \in SUBSET S, \A e \in L : m <= Index(S, e) /\ Index(S, e) < m + n
  PROVE  IsFiniteSet(L) /\ Cardinality(L) <= n
<1> DEFINE g == [e \in L |-> Index(S, e)]
<1>1. g \in [L -> m .. m + n - 1]
  <2>1. \A e \in L : Index(S, e) \in Nat
    BY IndexType
  <2> QED
    BY <2>1
<1>2. \A e, f \in L : g[e] = g[f] => e = f
  BY IndexTells
<1>3. g \in Injection(L, m .. m + n - 1)
  BY <1>1, <1>2 DEF Injection, IsInjective
<1>4. IsFiniteSet(m .. m + n - 1) /\ Cardinality(m .. m + n - 1) = n
  <2>1. m \in Int /\ m + n - 1 \in Int
    OBVIOUS
  <2> QED
    BY <2>1, FS_Interval
<1> HIDE DEF g
<1> QED
  BY <1>3, <1>4, FS_Injection

\* At most n entries have an index below n.
LEMMA FewBelow ==
  ASSUME NEW S \in SUBSET Nat, IsFiniteSet(S), NEW n \in Nat,
         NEW L \in SUBSET S, \A e \in L : Index(S, e) < n
  PROVE  IsFiniteSet(L) /\ Cardinality(L) <= n
<1>1. \A e \in L : Index(S, e) \in Nat
  BY IndexType
<1>2. \A e \in L : 0 <= Index(S, e) /\ Index(S, e) < 0 + n
  BY <1>1
<1> QED
  BY <1>2, FewBetween

\* Every index is below the number of entries, and each of these numbers is an
\* index.
LEMMA IndexOnto ==
  ASSUME NEW S \in SUBSET Nat, IsFiniteSet(S)
  PROVE  /\ \A e \in S : Index(S, e) \in 0 .. Cardinality(S) - 1
         /\ \A i \in 0 .. Cardinality(S) - 1 : \E e \in S : Index(S, e) = i
<1> DEFINE g == [e \in S |-> Index(S, e)]
           n == Cardinality(S)
<1>1. n \in Nat
  BY FS_CardinalityType
<1>2. ASSUME NEW e \in S PROVE Index(S, e) \in 0 .. n - 1
  <2>1. {f \in S : f < e} \in SUBSET (S \ {e})
    OBVIOUS
  <2>2. IsFiniteSet(S \ {e}) /\ Cardinality(S \ {e}) = n - 1
    BY FS_RemoveElement
  <2>3. Index(S, e) <= n - 1
    BY <2>1, <2>2, FS_Subset DEF Index
  <2>4. Index(S, e) \in Nat
    BY IndexType
  <2> QED
    BY <1>1, <2>3, <2>4
<1>3. \A e, f \in S : g[e] = g[f] => e = f
  BY IndexTells
<1>4. g \in Injection(S, 0 .. n - 1)
  BY <1>2, <1>3 DEF Injection, IsInjective
<1>5. IsFiniteSet(0 .. n - 1) /\ Cardinality(0 .. n - 1) = n
  <2>1. ASSUME NEW k \in Nat
        PROVE  IsFiniteSet(0 .. k - 1) /\ Cardinality(0 .. k - 1) = k
    BY FS_Interval
  <2> QED
    BY <1>1, <2>1
<1>6. g \in Surjection(S, 0 .. n - 1)
  <2> HIDE DEF g, n
  <2>1. n = Cardinality(S)
    BY DEF n
  <2> QED
    BY <1>4, <1>5, <2>1, FS_Injection
<1>7. \A i \in 0 .. n - 1 : \E e \in S : g[e] = i
  BY <1>6 DEF Surjection
<1> QED
  BY <1>2, <1>7

\* When an index is n or more, exactly n entries come before n.
LEMMA ExactlyBelow ==
  ASSUME NEW S \in SUBSET Nat, IsFiniteSet(S), NEW n \in Nat,
         NEW e \in S, n <= Index(S, e)
  PROVE  Cardinality({f \in S : Index(S, f) < n}) = n
<1> DEFINE L == {f \in S : Index(S, f) < n}
           g == [f \in L |-> Index(S, f)]
<1>1. \A f \in S : Index(S, f) \in Nat
  BY IndexType
<1>2. n - 1 \in 0 - 1 .. Cardinality(S) - 1
  <2>1. Index(S, e) \in 0 .. Cardinality(S) - 1
    BY IndexOnto
  <2>2. Cardinality(S) \in Nat
    BY FS_CardinalityType
  <2> QED
    BY <2>1, <2>2
<1>3. \A i \in 0 .. n - 1 : \E f \in L : g[f] = i
  <2>1. SUFFICES ASSUME NEW i \in 0 .. n - 1 PROVE \E f \in L : g[f] = i
    OBVIOUS
  <2>2. i \in 0 .. Cardinality(S) - 1
    BY <1>2, FS_CardinalityType
  <2>3. PICK f \in S : Index(S, f) = i
    BY <2>2, IndexOnto
  <2> QED
    BY <2>3
<1>4. g \in [L -> 0 .. n - 1]
  <2>1. \A f \in L : Index(S, f) \in 0 .. n - 1
    BY <1>1
  <2> HIDE DEF L
  <2> QED
    BY <2>1
<1>5. g \in Injection(L, 0 .. n - 1)
  BY <1>4, IndexTells DEF Injection, IsInjective
<1>6. g \in Surjection(L, 0 .. n - 1)
  BY <1>3, <1>4 DEF Surjection
<1>7. IsFiniteSet(0 .. n - 1) /\ Cardinality(0 .. n - 1) = n
  BY FS_Interval
<1> HIDE DEF g, L
<1>8. Cardinality(L) = n
  BY <1>5, <1>6, <1>7, FS_Injection
<1> QED
  BY <1>8 DEF L

\* Removing D from S brings at most as many entries below n as D had there.
\* Taking a part away from a finite set takes away exactly as many elements.
LEMMA WithoutPart ==
  ASSUME NEW A, NEW B \in SUBSET A, IsFiniteSet(A)
  PROVE  Cardinality(A \ B) = Cardinality(A) - Cardinality(B)
<1>1. A \cap B = B
  OBVIOUS
<1>2. Cardinality(A \ B) = Cardinality(A) - Cardinality(A \cap B)
  BY FS_Difference
<1> QED
  BY <1>1, <1>2

LEMMA FewMoveBelow ==
  ASSUME NEW S \in SUBSET Nat, IsFiniteSet(S), NEW D \in SUBSET S, NEW n \in Nat
  PROVE  Cardinality({e \in S \ D : Index(S \ D, e) < n /\ n <= Index(S, e)})
           <= Cardinality({e \in D : Index(S, e) < n})
<1> DEFINE T == S \ D
           Was == {e \in S : Index(S, e) < n}
           Is  == {e \in T : Index(T, e) < n}
           Moved == {e \in T : Index(T, e) < n /\ n <= Index(S, e)}
           Gone == {e \in D : Index(S, e) < n}
<1>1. /\ T \in SUBSET Nat /\ T \in SUBSET S /\ IsFiniteSet(T)
      /\ \A e \in S : Index(S, e) \in Nat
      /\ \A e \in T : Index(T, e) \in Nat /\ Index(T, e) <= Index(S, e)
  <2>1. T \in SUBSET Nat /\ T \in SUBSET S /\ IsFiniteSet(T)
    BY FS_Subset
  <2> HIDE DEF T
  <2> QED
    BY <2>1, IndexType, IndexShrinks
<1>2. /\ IsFiniteSet(Was) /\ IsFiniteSet(Is) /\ IsFiniteSet(Moved) /\ IsFiniteSet(Gone)
      /\ Cardinality(Was) \in Nat /\ Cardinality(Is) \in Nat
      /\ Cardinality(Moved) \in Nat /\ Cardinality(Gone) \in Nat
  <2>1. Was \in SUBSET S /\ Is \in SUBSET S /\ Moved \in SUBSET S /\ Gone \in SUBSET S
    OBVIOUS
  <2> HIDE DEF Was, Is, Moved, Gone
  <2> QED
    BY <2>1, FS_Subset, FS_CardinalityType
<1>3. CASE Moved = {}
  BY <1>2, <1>3, FS_EmptySet
<1>4. CASE Moved # {}
  <2>1. PICK e \in S : n <= Index(S, e)
    BY <1>4
  <2>2. Cardinality(Was) = n
    <3> HIDE DEF Index
    <3> QED
      BY <2>1, ExactlyBelow
  <2>3. Cardinality(Is) <= n
    <3>1. Is \in SUBSET T /\ \A f \in Is : Index(T, f) < n
      OBVIOUS
    <3> HIDE DEF Is, T
    <3> QED
      BY <1>1, <3>1, FewBelow
  <2>4. Moved = Is \ (Was \ Gone) /\ (Was \ Gone) \in SUBSET Is
    <3>1. ASSUME NEW f \in Was \ Gone PROVE f \in Is
      <4>1. f \in T /\ Index(S, f) < n
        OBVIOUS
      <4> HIDE DEF T
      <4> QED
        BY <1>1, <4>1
    <3>2. ASSUME NEW f \in Moved PROVE f \in Is \ Was
      <4>1. f \in T /\ Index(T, f) < n /\ n <= Index(S, f)
        OBVIOUS
      <4> HIDE DEF T
      <4> QED
        BY <1>1, <4>1
    <3>3. ASSUME NEW f \in Is, f \notin Was \ Gone PROVE f \in Moved
      <4>1. f \in T /\ f \in S /\ f \notin Gone /\ Index(T, f) < n
        OBVIOUS
      <4>2. ~(Index(S, f) < n)
        BY <3>3, <4>1
      <4> HIDE DEF T, Gone
      <4> QED
        BY <1>1, <4>1, <4>2
    <3> HIDE DEF Moved, Is, Was, Gone
    <3> QED
      BY <3>1, <3>2, <3>3
  <2>5. Gone \in SUBSET Was
    OBVIOUS
  <2> HIDE DEF Moved, Is, Was, Gone
  <2>6. Cardinality(Was \ Gone) = Cardinality(Was) - Cardinality(Gone)
    BY <1>2, <2>5, WithoutPart
  <2>7. Cardinality(Moved) = Cardinality(Is) - Cardinality(Was \ Gone)
    BY <1>2, <2>4, WithoutPart
  <2>8. Cardinality(Moved) <= Cardinality(Gone)
    BY <1>2, <2>2, <2>3, <2>6, <2>7
  <2> QED
    BY <2>8 DEF Moved, Gone
<1> QED
  BY <1>3, <1>4

\* A slice ends before the offset and the number of its entries.
LEMMA SliceEnds ==
  ASSUME NEW S \in SUBSET Nat, IsFiniteSet(S), NEW offset \in Nat, NEW size \in Nat,
         NEW Part \in SUBSET S,
         Part = {f \in S : offset <= Index(S, f) /\ Index(S, f) < offset + size},
         NEW e \in Part
  PROVE  Index(S, e) < offset + Cardinality(Part)
<1> DEFINE Before == {f \in S : f < e}
           Low    == {f \in Before : Index(S, f) < offset}
           High   == {f \in Before : offset <= Index(S, f)}
<1>1. e \in S /\ e \in Nat /\ Before \in SUBSET S
  OBVIOUS
<1>2. \A f \in Before : Index(S, f) \in Nat /\ Index(S, f) < Index(S, e)
  BY <1>1, IndexType, IndexGrows
<1>3. IsFiniteSet(Part) /\ Cardinality(Part) \in Nat
  BY FS_Subset, FS_CardinalityType
<1>4. /\ IsFiniteSet(Low) /\ Cardinality(Low) \in Nat
      /\ Cardinality(Low) <= offset
  BY <1>1, FewBelow, FS_CardinalityType
<1>5. e \notin High /\ High \in SUBSET S /\ High \cup {e} \in SUBSET Part
  <2>1. Index(S, e) \in Nat /\ offset <= Index(S, e) /\ Index(S, e) < offset + size
    BY <1>1, IndexType
  <2>2. ~(e < e)
    BY <1>1
  <2>3. \A f \in High : f \in S /\ offset <= Index(S, f) /\ Index(S, f) < offset + size
    BY <1>1, <1>2, <2>1
  <2> HIDE DEF Index
  <2> QED
    BY <1>1, <2>2, <2>3
<1>6. IsFiniteSet(High) /\ Cardinality(High) \in Nat
  BY <1>5, FS_Subset, FS_CardinalityType
<1>7. Cardinality(High) + 1 <= Cardinality(Part)
  <2>1. Cardinality(High \cup {e}) = Cardinality(High) + 1
    BY <1>5, <1>6, FS_AddElement
  <2> QED
    BY <1>3, <1>5, <2>1, FS_Subset
<1>8. Before = Low \cup High /\ Low \cap High = {}
  <2>1. \A f \in Before : ~(Index(S, f) < offset) <=> offset <= Index(S, f)
    BY <1>2
  <2> QED
    BY <2>1
<1>9. Cardinality(Before) = Cardinality(Low) + Cardinality(High)
  BY <1>4, <1>6, <1>8, FS_Union, FS_EmptySet
<1> QED
  BY <1>3, <1>4, <1>6, <1>7, <1>9 DEF Index

-------------------------------------------------------------------------------
(* Types *)

LEMMA LiveIsFinite ==
  ASSUME TypeOK
  PROVE  /\ live \in SUBSET Nat /\ IsFiniteSet(live)
         /\ Cardinality(live) \in Nat /\ Cardinality(live) <= Len(dns)
<1>1. Len(dns) \in Nat /\ live \in SUBSET (1 .. Len(dns)) /\ Len(dns) <= MaxEntries
  BY DEF TypeOK, DirTypeOK
<1>2. IsFiniteSet(1 .. Len(dns)) /\ Cardinality(1 .. Len(dns)) <= Len(dns)
  <2>1. ASSUME NEW n \in Nat PROVE IsFiniteSet(1 .. n) /\ Cardinality(1 .. n) = n
    BY FS_Interval, n \in Int, 1 \in Int
  <2> QED
    BY <1>1, <2>1
<1>3. /\ IsFiniteSet(live) /\ Cardinality(live) <= Cardinality(1 .. Len(dns))
      /\ Cardinality(live) \in Nat /\ Cardinality(1 .. Len(dns)) \in Nat
  BY <1>1, <1>2, FS_Subset, FS_CardinalityType
<1> QED
  BY <1>1, <1>2, <1>3, SeedAssumption

\* A page holds entries from its offset on, and its cookie is past them all, or
\* says that nothing follows.
LEMMA PageIsTyped ==
  ASSUME TypeOK, NEW offset \in Nat
  PROVE  /\ PageAt(offset, PageSize) \in
              [entries : SUBSET (1 .. Len(dns)), cookie : 0 .. Len(dns)]
         /\ \A e \in PageAt(offset, PageSize).entries :
              /\ e \in live /\ offset <= IndexOf(e)
              /\ PageAt(offset, PageSize).cookie > 0 =>
                   IndexOf(e) < PageAt(offset, PageSize).cookie
         /\ PageAt(offset, PageSize).cookie > 0 =>
              offset <= PageAt(offset, PageSize).cookie
<1> DEFINE part == Slice(offset, PageSize)
           next == offset + Cardinality(part)
<1>1. part \in SUBSET live /\ part \in SUBSET (1 .. Len(dns))
  BY DEF Slice, TypeOK, DirTypeOK
<1>2. IsFiniteSet(part) /\ Cardinality(part) \in Nat
  BY <1>1, LiveIsFinite, FS_Subset, FS_CardinalityType
<1>3. \A e \in part : IndexOf(e) < next
  <2>1. part = {f \in live : offset <= Index(live, f)
                                /\ Index(live, f) < offset + PageSize}
    BY DEF Slice, IndexOf, Index
  <2>2. PageSize \in Nat
    BY PageSizeAssumption
  <2>3. ASSUME NEW e \in part PROVE Index(live, e) < next
    BY <1>1, <2>1, <2>2, LiveIsFinite, SliceEnds
  <2> QED
    BY <2>3 DEF IndexOf, Index
<1>4. \A e \in part : e \in live /\ offset <= IndexOf(e)
  BY DEF Slice
<1>5. next < Cardinality(live) => next \in 0 .. Len(dns)
  BY <1>2, LiveIsFinite DEF TypeOK, DirTypeOK
<1>6. Len(dns) \in Nat /\ next \in Nat /\ offset <= next
  BY <1>2 DEF TypeOK, DirTypeOK
<1>7. PICK cookie \in 0 .. Len(dns) :
        /\ PageAt(offset, PageSize) = [entries |-> part, cookie |-> cookie]
        /\ cookie > 0 => cookie = next
  <2>1. CASE next < Cardinality(live)
    BY <1>5, <2>1 DEF PageAt
  <2>2. CASE ~(next < Cardinality(live))
    BY <1>6, <2>2 DEF PageAt
  <2> QED
    BY <2>1, <2>2
<1> HIDE DEF part, next
<1>8. /\ PageAt(offset, PageSize).entries = part
      /\ PageAt(offset, PageSize).cookie = cookie
  BY <1>7
<1>9. PageAt(offset, PageSize) \in
        [entries : SUBSET (1 .. Len(dns)), cookie : 0 .. Len(dns)]
  BY <1>1, <1>7
<1> QED
  BY <1>3, <1>4, <1>6, <1>7, <1>8, <1>9

\* A page leaves out no entry between its offset and its cookie, and if it is
\* the last one, none from its offset on.
LEMMA PageCovers ==
  ASSUME TypeOK, NEW offset \in Nat, NEW e \in live, offset <= IndexOf(e),
         \/ PageAt(offset, PageSize).cookie = 0
         \/ IndexOf(e) < PageAt(offset, PageSize).cookie
  PROVE  e \in PageAt(offset, PageSize).entries
<1> DEFINE part == Slice(offset, PageSize)
           next == offset + Cardinality(part)
<1>1. /\ live \in SUBSET Nat /\ IsFiniteSet(live) /\ Cardinality(live) \in Nat
      /\ PageSize \in Nat /\ PageSize >= 1
  BY LiveIsFinite, PageSizeAssumption
<1>2. /\ part \in SUBSET live
      /\ \A f \in part : offset <= Index(live, f) /\ Index(live, f) < offset + PageSize
      /\ \A f \in live : offset <= Index(live, f) /\ Index(live, f) < offset + PageSize
                           => f \in part
  BY DEF Slice, IndexOf, Index
<1>3. IsFiniteSet(part) /\ Cardinality(part) \in Nat /\ Cardinality(part) <= PageSize
  <2> HIDE DEF part
  <2> QED
    BY <1>1, <1>2, FewBetween, FS_CardinalityType
<1>4. /\ PageAt(offset, PageSize).entries = part
      /\ PageAt(offset, PageSize).cookie = IF next < Cardinality(live) THEN next ELSE 0
  BY DEF PageAt
<1>5. IndexOf(e) = Index(live, e) /\ Index(live, e) \in 0 .. Cardinality(live) - 1
  <2>1. Index(live, e) \in 0 .. Cardinality(live) - 1
    BY <1>1, IndexOnto
  <2> QED
    BY <2>1 DEF IndexOf, Index
<1> HIDE DEF part
<1>6. CASE IndexOf(e) < next
  BY <1>1, <1>2, <1>3, <1>4, <1>5, <1>6
<1>7. CASE ~(IndexOf(e) < next)
  <2>1. next < Cardinality(live) /\ next = 0
    BY <1>1, <1>3, <1>4, <1>5, <1>7
  <2>2. offset = 0 /\ Cardinality(part) = 0 /\ 0 \in 0 .. Cardinality(live) - 1
    BY <1>1, <1>3, <2>1
  <2>3. PICK f \in live : Index(live, f) = 0
    BY <1>1, <2>2, IndexOnto
  <2>4. f \in part
    BY <1>1, <1>2, <2>2, <2>3
  <2> QED
    BY <1>3, <2>2, <2>4, FS_EmptySet
<1> QED
  BY <1>6, <1>7

\* What Read leaves behind for its call.
LEMMA ReadIsTyped ==
  ASSUME TypeOK, NEW s \in Calls, NEW offset \in Nat, Read(s, offset)
  PROVE  /\ page' \in [Calls -> [entries : SUBSET (1 .. Len(dns)),
                                 cookie : 0 .. Len(dns)]]
         /\ \A t \in Calls \ {s} : page'[t] = page[t] /\ pc'[t] = pc[t]
         /\ pc'[s] \in {"waiting", "rejected"}
         /\ pc' \in [Calls -> {"idle", "waiting", "yielded", "done", "rejected",
                               "stopped"}]
<1>1. page \in [Calls -> [entries : SUBSET (1 .. Len(dns)), cookie : 0 .. Len(dns)]]
  BY DEF TypeOK
<1>2. [entries |-> live, cookie |-> 0] \in
        [entries : SUBSET (1 .. Len(dns)), cookie : 0 .. Len(dns)]
  BY SeedAssumption DEF TypeOK, DirTypeOK
<1>3. PageAt(offset, PageSize) \in
        [entries : SUBSET (1 .. Len(dns)), cookie : 0 .. Len(dns)]
  BY PageIsTyped
<1>4. PICK new \in [entries : SUBSET (1 .. Len(dns)), cookie : 0 .. Len(dns)] :
        page' \in {page, [page EXCEPT ![s] = new]}
  BY <1>1, <1>2, <1>3 DEF Read
<1>5. \/ pc' = [pc EXCEPT ![s] = "waiting"]
      \/ pc' = [pc EXCEPT ![s] = "rejected"]
  BY DEF Read
<1>6. page' \in [Calls -> [entries : SUBSET (1 .. Len(dns)),
                          cookie : 0 .. Len(dns)]]
  BY <1>1, <1>4
<1>7. \A t \in Calls \ {s} : page'[t] = page[t]
  BY <1>1, <1>4
<1>8. pc \in [Calls -> {"idle", "waiting", "yielded", "done", "rejected", "stopped"}]
  BY DEF TypeOK
<1> QED
  BY <1>5, <1>6, <1>7, <1>8

LEMMA InitInv == Init => Inv
<1> SUFFICES ASSUME Init PROVE Inv
  OBVIOUS
<1>1. DirTypeOK
  BY SeedAssumption DEF Init, DirInit, DirTypeOK
<1>2. TypeOK
  BY <1>1, SeedAssumption DEF Init, TypeOK, NoPage
<1> QED
  BY <1>2 DEF Init, Inv, SeenInv, SeenOf, ReportedOnce, Active, NoPage

LEMMA StepTypeOK == TypeOK /\ [Next]_vars => TypeOK'
<1> SUFFICES ASSUME TypeOK, [Next]_vars PROVE TypeOK'
  OBVIOUS
<1>1. ASSUME NEW s \in Calls, Start(s) PROVE TypeOK'
  <2>1. Read(s, 0) /\ UNCHANGED <<dns, live, open, result, passed>>
    BY <1>1 DEF Start, dirVars
  <2>2. stable' \in [Calls -> SUBSET (1 .. Len(dns))]
    BY <1>1 DEF Start, TypeOK, DirTypeOK
  <2> QED
    BY <2>1, <2>2, ReadIsTyped DEF TypeOK, DirTypeOK
<1>2. ASSUME NEW s \in Calls, Collect(s) PROVE TypeOK'
  <2>1. UNCHANGED <<dns, live, open, stable, passed>>
    BY <1>2 DEF Collect, dirVars, histVars
  <2>2. result' \in [Calls -> SUBSET (1 .. Len(dns))]
    BY <1>2 DEF Collect, TypeOK
  <2>3. CASE UNCHANGED page
    BY <1>2, <2>1, <2>2, <2>3 DEF Collect, TypeOK, DirTypeOK, Read
  <2>4. CASE Read(s, page[s].cookie)
    <3>1. page[s].cookie \in Nat
      BY SeedAssumption DEF TypeOK
    <3> QED
      BY <2>1, <2>2, <2>4, <3>1, ReadIsTyped DEF TypeOK, DirTypeOK
  <2> QED
    BY <1>2, <2>3, <2>4 DEF Collect
<1>3. ASSUME NEW s \in Calls, Yield(s) PROVE TypeOK'
  BY <1>3 DEF Yield, TypeOK, DirTypeOK, dirVars, histVars
<1>4. ASSUME NEW s \in Calls, Pull(s) PROVE TypeOK'
  <2>1. UNCHANGED <<dns, live, open, result, stable, passed>>
    BY <1>4 DEF Pull, dirVars, histVars
  <2>2. CASE UNCHANGED page
    BY <1>4, <2>1, <2>2 DEF Pull, TypeOK, DirTypeOK, Read
  <2>3. CASE Read(s, page[s].cookie)
    <3>1. page[s].cookie \in Nat
      BY SeedAssumption DEF TypeOK
    <3> QED
      BY <2>1, <2>3, <3>1, ReadIsTyped DEF TypeOK, DirTypeOK
  <2> QED
    BY <1>4, <2>2, <2>3 DEF Pull
<1>5. ASSUME NEW s \in Calls, Stop(s) PROVE TypeOK'
  BY <1>5 DEF Stop, TypeOK, DirTypeOK, dirVars, histVars
<1>6. ASSUME NEW dn \in NewDns, Add(dn) PROVE TypeOK'
  <2>1. dn \in Dns /\ dns' = Append(dns, dn) /\ Len(dns) < MaxEntries
    BY <1>6, NamesAssumption DEF Add, AddEntry
  <2>2. dns' \in Seq(Dns) /\ Len(dns') = Len(dns) + 1 /\ Len(dns') <= MaxEntries
    BY <2>1, SeedAssumption DEF TypeOK, DirTypeOK
  <2>3. 1 .. Len(dns) \subseteq 1 .. Len(dns') /\ Len(dns) + 1 \in 1 .. Len(dns')
    BY <2>2 DEF TypeOK, DirTypeOK
  <2>4. DirTypeOK'
    BY <1>6, <2>2, <2>3 DEF Add, AddEntry, TypeOK, DirTypeOK
  <2> QED
    BY <1>6, <2>3, <2>4 DEF Add, TypeOK, callVars, histVars
<1>7. ASSUME NEW dn \in DelDns, Del(dn) PROVE TypeOK'
  <2>1. \A s \in Calls :
          Cardinality({e \in Named(dn) : IndexOf(e) < page[s].cookie}) \in Nat
    <3>1. TAKE s \in Calls
    <3>2. {e \in Named(dn) : IndexOf(e) < page[s].cookie} \in SUBSET live
      BY DEF Named
    <3> QED
      BY <3>2, LiveIsFinite, FS_Subset, FS_CardinalityType
  <2>2. passed' \in [Calls -> Nat]
    <3>1. passed \in [Calls -> Nat]
      BY DEF TypeOK
    <3>2. ASSUME NEW n \in Nat, NEW k \in Nat PROVE n + k \in Nat
      OBVIOUS
    <3>3. \A s \in Calls :
            passed[s] + Cardinality({e \in Named(dn) : IndexOf(e) < page[s].cookie})
              \in Nat
      BY <2>1, <3>1, <3>2
    <3> QED
      BY <1>7, <3>1, <3>3 DEF Del
  <2>3. stable' \in [Calls -> SUBSET (1 .. Len(dns))]
    BY <1>7 DEF Del, TypeOK
  <2> QED
    BY <1>7, <2>2, <2>3 DEF Del, DelEntries, TypeOK, DirTypeOK, callVars
<1>8. ASSUME NEW dn \in Dns, NEW newDn \in NewDns, Rename(dn, newDn) PROVE TypeOK'
  <2>1. dns' \in Seq(Dns) /\ Len(dns') = Len(dns)
    <3>1. newDn \in Dns /\ dns \in Seq(Dns)
      BY NamesAssumption DEF TypeOK, DirTypeOK
    <3>2. CASE UNCHANGED dns
      BY <3>1, <3>2
    <3>3. ASSUME NEW e \in Named(dn), dns' = [dns EXCEPT ![e] = newDn]
          PROVE  dns' \in Seq(Dns) /\ Len(dns') = Len(dns)
      <4>1. e \in 1 .. Len(dns)
        BY DEF Named, TypeOK, DirTypeOK
      <4> QED
        BY <3>1, <3>3, <4>1, ExceptSeq
    <3> QED
      BY <1>8, <3>2, <3>3 DEF Rename, RenameEntry
  <2> QED
    BY <1>8, <2>1
    DEF Rename, RenameEntry, TypeOK, DirTypeOK, callVars, histVars
<1>9. CASE Unbind
  BY <1>9 DEF Unbind, DropHandle, TypeOK, DirTypeOK, callVars, histVars
<1>10. CASE UNCHANGED vars
  BY <1>10 DEF vars, dirVars, callVars, histVars, TypeOK, DirTypeOK
<1> QED
  BY <1>1, <1>2, <1>3, <1>4, <1>5, <1>6, <1>7, <1>8, <1>9, <1>10 DEF Next, Move, OtherTasks

-------------------------------------------------------------------------------
(* What has been read *)

LEMMA IndexIsNat == TypeOK => \A e \in live : IndexOf(e) \in Nat
  BY LiveIsFinite, IndexType DEF IndexOf, Index

\* A page read from an offset past everything seen is new, and its cookie is
\* again past everything seen.
LEMMA ReadIsFresh ==
  ASSUME TypeOK, NEW s \in Calls, NEW offset \in Nat, NEW seen,
         \A e \in live \cap seen : IndexOf(e) < offset,
         s \in Plain => seen = {} /\ page[s].cookie = 0,
         Read(s, offset)
  PROVE  /\ s \in Plain => page'[s].cookie = 0
         /\ pc'[s] = "waiting" =>
              /\ page'[s].entries \cap seen = {}
              /\ page'[s].cookie > 0 =>
                   \A e \in live \cap (seen \cup page'[s].entries) :
                      IndexOf(e) < page'[s].cookie
<1>1. s \in DOMAIN page /\ s \in DOMAIN pc
  BY DEF TypeOK
<1>2. CASE ~open
  BY <1>1, <1>2 DEF Read
<1>3. CASE open /\ s \in Plain
  <2>1. page'[s] = [entries |-> live, cookie |-> 0]
    BY <1>1, <1>3 DEF Read
  <2> QED
    BY <1>3, <2>1
<1>4. CASE open /\ s \notin Plain
  <2>1. page'[s] = PageAt(offset, PageSize)
    BY <1>1, <1>4 DEF Read
  <2>2. /\ \A e \in page'[s].entries :
             /\ e \in live /\ offset <= IndexOf(e)
             /\ page'[s].cookie > 0 => IndexOf(e) < page'[s].cookie
        /\ page'[s].cookie > 0 => offset <= page'[s].cookie
        /\ page'[s].cookie \in Nat
    <3>1. \A k \in 0 .. Len(dns) : k \in Nat
      BY SeedAssumption
    <3> QED
      BY <2>1, <3>1, PageIsTyped
  <2>3. \A e \in live : IndexOf(e) \in Nat
    BY IndexIsNat
  <2>4. \A e \in page'[s].entries : e \notin seen
    BY <2>2, <2>3
  <2>5. ASSUME page'[s].cookie > 0, NEW e \in live,
               e \in seen \/ e \in page'[s].entries
        PROVE  IndexOf(e) < page'[s].cookie
    BY <2>2, <2>3, <2>5
  <2> QED
    BY <1>4, <2>4, <2>5
<1> QED
  BY <1>2, <1>3, <1>4

\* A step of something else: nothing seen moves backwards.
LEMMA OthersKeep ==
  ASSUME TypeOK, NEW s \in Calls, SeenOf(s), FreshOf(s),
         pc'[s] = pc[s], page'[s] = page[s], result'[s] = result[s],
         \A e \in live' \cap Seen(s) :
            e \in live /\ IndexOf(e)' \in Nat /\ IndexOf(e)' <= IndexOf(e)
  PROVE  SeenOf(s)' /\ FreshOf(s)'
<1>1. FreshOf(s)' /\ Seen(s)' = Seen(s) /\ (Active(s)' <=> Active(s))
  BY DEF FreshOf, Seen, Active
<1>2. page[s].cookie \in Nat
  BY SeedAssumption DEF TypeOK
<1>3. \A e \in live : IndexOf(e) \in Nat
  BY IndexIsNat
<1>4. ASSUME Active(s), page[s].cookie > 0, NEW e \in live', e \in Seen(s)
      PROVE  IndexOf(e)' < page[s].cookie
  <2>1. e \in live /\ IndexOf(e)' \in Nat /\ IndexOf(e)' <= IndexOf(e)
    BY <1>4
  <2>2. IndexOf(e) < page[s].cookie
    BY <1>4, <2>1 DEF SeenOf
  <2> QED
    BY <1>2, <1>3, <2>1, <2>2
<1> QED
  BY <1>1, <1>4 DEF SeenOf

LEMMA SameListKeeps ==
  ASSUME TypeOK, NEW s \in Calls, SeenOf(s), FreshOf(s),
         pc'[s] = pc[s], page'[s] = page[s], result'[s] = result[s], live' = live
  PROVE  SeenOf(s)' /\ FreshOf(s)'
<1>1. \A e \in live' : e \in live /\ IndexOf(e)' = IndexOf(e)
  BY DEF IndexOf
<1>2. \A e \in live : IndexOf(e) \in Nat
  BY IndexIsNat
<1>3. \A n \in Nat : n <= n
  OBVIOUS
<1> QED
  BY <1>1, <1>2, <1>3, OthersKeep

AllOf == \A s \in Calls : SeenOf(s) /\ FreshOf(s)

LEMMA StepStart ==
  ASSUME TypeOK, AllOf, NEW s \in Calls, Start(s)
  PROVE  AllOf'
<1>1. /\ pc[s] = "idle" /\ Read(s, 0)
      /\ UNCHANGED <<live, result>>
  BY DEF Start, dirVars
<1>2. result[s] = {} /\ (s \in Plain => page[s].cookie = 0)
  BY <1>1 DEF AllOf, SeenOf
<1>3. /\ s \in Plain => page'[s].cookie = 0
      /\ pc'[s] = "waiting" =>
           /\ page'[s].entries \cap {} = {}
           /\ page'[s].cookie > 0 =>
                \A e \in live \cap ({} \cup page'[s].entries) :
                   IndexOf(e) < page'[s].cookie
  BY <1>1, <1>2, ReadIsFresh
<1>4. SeenOf(s)' /\ FreshOf(s)'
  <2>1. pc'[s] \in {"waiting", "rejected"}
    BY <1>1, ReadIsTyped
  <2>2. \A e : IndexOf(e)' = IndexOf(e)
    BY <1>1 DEF IndexOf
  <2> QED
    BY <1>1, <1>2, <1>3, <2>1, <2>2 DEF SeenOf, FreshOf, Active, Seen
<1>5. ASSUME NEW t \in Calls, t # s PROVE SeenOf(t)' /\ FreshOf(t)'
  <2>1. pc'[t] = pc[t] /\ page'[t] = page[t] /\ result'[t] = result[t]
    BY <1>1, <1>5, ReadIsTyped
  <2> QED
    BY <1>1, <2>1, SameListKeeps DEF AllOf
<1> QED
  BY <1>4, <1>5 DEF AllOf

\* Asking for the next page, when everything seen is before its offset.
LEMMA NextPageKeeps ==
  ASSUME TypeOK, NEW s \in Calls, SeenOf(s), Active(s), page[s].cookie > 0,
         Read(s, page[s].cookie), live' = live,
         result'[s] \in SUBSET Seen(s)
  PROVE  SeenOf(s)' /\ FreshOf(s)'
<1>1. page[s].cookie \in Nat /\ s \notin Plain
  BY SeedAssumption DEF TypeOK, SeenOf
<1>2. \A e \in live \cap Seen(s) : IndexOf(e) < page[s].cookie
  BY DEF SeenOf
<1>3. pc'[s] = "waiting" =>
        /\ page'[s].entries \cap Seen(s) = {}
        /\ page'[s].cookie > 0 =>
             \A e \in live \cap (Seen(s) \cup page'[s].entries) :
                IndexOf(e) < page'[s].cookie
  BY <1>1, <1>2, ReadIsFresh
<1>4. pc'[s] \in {"waiting", "rejected"}
  BY <1>1, ReadIsTyped
<1>5. \A e : IndexOf(e)' = IndexOf(e)
  BY DEF IndexOf
<1>6. Seen(s)' \in SUBSET (Seen(s) \cup page'[s].entries)
  BY DEF Seen
<1> QED
  BY <1>1, <1>3, <1>4, <1>5, <1>6 DEF SeenOf, FreshOf, Active

LEMMA StepCollect ==
  ASSUME TypeOK, AllOf, NEW s \in Calls, Collect(s)
  PROVE  AllOf'
<1>1. /\ pc[s] = "waiting" /\ Active(s) /\ live' = live
      /\ result' = [result EXCEPT ![s] = @ \cup page[s].entries]
  BY DEF Collect, Active, dirVars
<1>2. result'[s] = Seen(s) /\ \A t \in Calls \ {s} : result'[t] = result[t]
  BY <1>1 DEF TypeOK, Seen
<1>3. CASE page[s].cookie = 0 /\ pc' = [pc EXCEPT ![s] = "done"] /\ UNCHANGED page
  <2>1. pc'[s] = "done" /\ \A t \in Calls \ {s} : pc'[t] = pc[t]
    BY <1>3 DEF TypeOK
  <2>2. SeenOf(s)' /\ FreshOf(s)'
    BY <1>3, <2>1 DEF AllOf, SeenOf, FreshOf, Active
  <2>3. ASSUME NEW t \in Calls, t # s PROVE SeenOf(t)' /\ FreshOf(t)'
    BY <1>1, <1>2, <1>3, <2>1, <2>3, SameListKeeps DEF AllOf
  <2> QED
    BY <2>2, <2>3 DEF AllOf
<1>4. CASE page[s].cookie > 0 /\ Read(s, page[s].cookie)
  <2>1. page[s].cookie \in Nat
    BY SeedAssumption DEF TypeOK
  <2>2. SeenOf(s)' /\ FreshOf(s)'
    BY <1>1, <1>2, <1>4, NextPageKeeps DEF AllOf
  <2>3. \A t \in Calls \ {s} : page'[t] = page[t] /\ pc'[t] = pc[t]
    BY <1>4, <2>1, ReadIsTyped
  <2>4. ASSUME NEW t \in Calls, t # s PROVE SeenOf(t)' /\ FreshOf(t)'
    BY <1>1, <1>2, <2>3, <2>4, SameListKeeps DEF AllOf
  <2> QED
    BY <2>2, <2>4 DEF AllOf
<1> QED
  BY <1>3, <1>4 DEF Collect

LEMMA StepYield ==
  ASSUME TypeOK, AllOf, NEW s \in Calls, Yield(s)
  PROVE  AllOf'
<1>1. /\ pc[s] = "waiting" /\ live' = live /\ page' = page
      /\ result' = [result EXCEPT ![s] = @ \cup page[s].entries]
      /\ pc' = [pc EXCEPT ![s] = "yielded"]
  BY DEF Yield, dirVars
<1>2. /\ result'[s] = Seen(s) /\ pc'[s] = "yielded"
      /\ \A t \in Calls \ {s} : result'[t] = result[t] /\ pc'[t] = pc[t]
  BY <1>1 DEF TypeOK, Seen
<1>3. SeenOf(s)' /\ FreshOf(s)'
  <2>1. Seen(s)' = Seen(s) /\ Active(s) /\ \A e : IndexOf(e)' = IndexOf(e)
    BY <1>1, <1>2 DEF Seen, Active, IndexOf
  <2> QED
    BY <1>1, <1>2, <2>1 DEF AllOf, SeenOf, FreshOf
<1>4. ASSUME NEW t \in Calls, t # s PROVE SeenOf(t)' /\ FreshOf(t)'
  BY <1>1, <1>2, <1>4, SameListKeeps DEF AllOf
<1> QED
  BY <1>3, <1>4 DEF AllOf

LEMMA StepPull ==
  ASSUME TypeOK, AllOf, NEW s \in Calls, Pull(s)
  PROVE  AllOf'
<1>1. pc[s] = "yielded" /\ Active(s) /\ live' = live /\ result' = result
  BY DEF Pull, Active, dirVars
<1>2. CASE pc' = [pc EXCEPT ![s] = "done"] /\ UNCHANGED page
  <2>1. pc'[s] = "done" /\ \A t \in Calls \ {s} : pc'[t] = pc[t]
    BY <1>2 DEF TypeOK
  <2>2. SeenOf(s)' /\ FreshOf(s)'
    BY <1>2, <2>1 DEF AllOf, SeenOf, FreshOf, Active
  <2>3. ASSUME NEW t \in Calls, t # s PROVE SeenOf(t)' /\ FreshOf(t)'
    BY <1>1, <1>2, <2>1, <2>3, SameListKeeps DEF AllOf
  <2> QED
    BY <2>2, <2>3 DEF AllOf
<1>3. CASE page[s].cookie > 0 /\ Read(s, page[s].cookie)
  <2>1. page[s].cookie \in Nat /\ result'[s] \in SUBSET Seen(s)
    BY <1>1, SeedAssumption DEF TypeOK, Seen
  <2>2. SeenOf(s)' /\ FreshOf(s)'
    BY <1>1, <1>3, <2>1, NextPageKeeps DEF AllOf
  <2>3. \A t \in Calls \ {s} : page'[t] = page[t] /\ pc'[t] = pc[t]
    BY <1>3, <2>1, ReadIsTyped
  <2>4. ASSUME NEW t \in Calls, t # s PROVE SeenOf(t)' /\ FreshOf(t)'
    BY <1>1, <2>3, <2>4, SameListKeeps DEF AllOf
  <2> QED
    BY <2>2, <2>4 DEF AllOf
<1> QED
  BY <1>2, <1>3 DEF Pull

LEMMA StepStop ==
  ASSUME TypeOK, AllOf, NEW s \in Calls, Stop(s)
  PROVE  AllOf'
<1>1. /\ live' = live /\ page' = page /\ result' = result
      /\ pc'[s] = "stopped" /\ \A t \in Calls \ {s} : pc'[t] = pc[t]
  BY DEF Stop, dirVars, TypeOK
<1>2. SeenOf(s)' /\ FreshOf(s)'
  BY <1>1 DEF AllOf, SeenOf, FreshOf, Active
<1>3. ASSUME NEW t \in Calls, t # s PROVE SeenOf(t)' /\ FreshOf(t)'
  BY <1>1, <1>3, SameListKeeps DEF AllOf
<1> QED
  BY <1>2, <1>3 DEF AllOf

\* An entry that is added comes behind all others.
LEMMA StepAdd ==
  ASSUME TypeOK, AllOf, NEW dn \in NewDns, Add(dn)
  PROVE  AllOf'
<1>1. live' = live \cup {Len(dns) + 1} /\ UNCHANGED <<pc, page, result>>
  BY DEF Add, AddEntry, callVars
<1>2. /\ Len(dns) \in Nat
      /\ \A e \in live : e \in Nat /\ e <= Len(dns)
      /\ \A s \in Calls : Seen(s) \in SUBSET (1 .. Len(dns))
  BY DEF TypeOK, DirTypeOK, Seen
<1>3. \A e \in live : IndexOf(e)' = IndexOf(e) /\ IndexOf(e) \in Nat
  <2>1. TAKE e \in live
  <2>2. {f \in live' : f < e} = {f \in live : f < e}
    BY <1>1, <1>2
  <2> QED
    BY <2>2, IndexIsNat DEF IndexOf
<1>4. ASSUME NEW s \in Calls PROVE SeenOf(s)' /\ FreshOf(s)'
  <2>1. \A e \in live' \cap Seen(s) :
           e \in live /\ IndexOf(e)' \in Nat /\ IndexOf(e)' <= IndexOf(e)
    <3>1. \A e \in live' \cap Seen(s) : e \in live
      BY <1>1, <1>2
    <3>2. \A n \in Nat : n <= n
      OBVIOUS
    <3> QED
      BY <1>3, <3>1, <3>2
  <2> QED
    BY <1>1, <2>1, OthersKeep DEF AllOf
<1> QED
  BY <1>4 DEF AllOf

\* Deletions move the entries that stay forward.
LEMMA StepDel ==
  ASSUME TypeOK, AllOf, NEW dn \in DelDns, Del(dn)
  PROVE  AllOf'
<1>1. live' \in SUBSET live /\ UNCHANGED <<pc, page, result>>
  BY DEF Del, DelEntries, callVars
<1>2. live \in SUBSET Nat /\ IsFiniteSet(live) /\ live' \in SUBSET Nat
      /\ IsFiniteSet(live')
  BY <1>1, LiveIsFinite, FS_Subset
<1>3. \A e \in live' : IndexOf(e)' \in Nat /\ IndexOf(e)' <= IndexOf(e)
  <2>1. TAKE e \in live'
  <2>2. Index(live', e) \in Nat /\ Index(live', e) <= Index(live, e)
    BY <1>1, <1>2, IndexType, IndexShrinks
  <2> QED
    BY <2>2 DEF IndexOf, Index
<1>4. ASSUME NEW s \in Calls PROVE SeenOf(s)' /\ FreshOf(s)'
  BY <1>1, <1>3, OthersKeep DEF AllOf
<1> QED
  BY <1>4 DEF AllOf

LEMMA StepAllOf == TypeOK /\ AllOf /\ [Next]_vars => AllOf'
<1> SUFFICES ASSUME TypeOK, AllOf, [Next]_vars PROVE AllOf'
  OBVIOUS
<1>1. ASSUME live' = live, UNCHANGED <<pc, page, result>> PROVE AllOf'
  BY <1>1, SameListKeeps DEF AllOf
<1>2. ASSUME NEW dn \in Dns, NEW newDn \in NewDns, Rename(dn, newDn)
      PROVE  AllOf'
  BY <1>1, <1>2 DEF Rename, RenameEntry, callVars
<1>3. CASE Unbind
  BY <1>1, <1>3 DEF Unbind, DropHandle, callVars
<1>4. CASE UNCHANGED vars
  BY <1>1, <1>4 DEF vars, dirVars, callVars
<1> QED
  BY <1>2, <1>3, <1>4, StepStart, StepCollect, StepYield, StepPull, StepStop,
     StepAdd, StepDel
  DEF Next, Move, OtherTasks

LEMMA StepInv == Inv /\ [Next]_vars => Inv'
<1>1. Inv <=> TypeOK /\ AllOf
  BY DEF Inv, AllOf, SeenInv, ReportedOnce, FreshOf
<1>2. Inv' <=> TypeOK' /\ AllOf'
  BY DEF Inv, AllOf, SeenInv, ReportedOnce, FreshOf
<1> QED
  BY <1>1, <1>2, StepTypeOK, StepAllOf

-------------------------------------------------------------------------------
(* What has been missed *)

LEMMA MissedIsFinite ==
  ASSUME TypeOK, NEW s \in Calls
  PROVE  /\ IsFiniteSet(Missed(s)) /\ Cardinality(Missed(s)) \in Nat
         /\ passed[s] \in Nat /\ page[s].cookie \in Nat
<1>1. Missed(s) \in SUBSET live
  BY DEF Missed, PassedBy
<1>2. passed[s] \in Nat /\ page[s].cookie \in Nat
  BY SeedAssumption DEF TypeOK
<1> QED
  BY <1>1, <1>2, LiveIsFinite, FS_Subset, FS_CardinalityType

\* A step of something else, of which the call is told only what is deleted.
LEMMA OthersMissNothing ==
  ASSUME TypeOK, NEW s \in Calls, MissedOf(s), live \in SUBSET live',
         \A e \in live : IndexOf(e)' = IndexOf(e),
         pc'[s] = pc[s], page'[s] = page[s], result'[s] = result[s],
         stable'[s] = stable[s], passed'[s] = passed[s]
  PROVE  MissedOf(s)'
<1>1. Seen(s)' = Seen(s) /\ (Active(s)' <=> Active(s))
  BY DEF Seen, Active
<1>2. Active(s) => Missed(s)' = Missed(s)
  BY <1>1 DEF MissedOf, Missed, PassedBy
<1> QED
  BY <1>1, <1>2 DEF MissedOf

\* A page read from an offset: nothing between the offset and the new cookie is
\* left out.
LEMMA ReadMissesNothing ==
  ASSUME TypeOK, NEW s \in Calls, NEW offset \in Nat, Read(s, offset),
         pc'[s] = "waiting", live' = live,
         NEW e \in PassedBy(s)', offset <= IndexOf(e)
  PROVE  e \in page'[s].entries
<1>1. s \in DOMAIN page /\ s \in DOMAIN pc /\ open
  BY DEF TypeOK, Read
<1>2. e \in live /\ (page'[s].cookie = 0 \/ IndexOf(e) < page'[s].cookie)
  BY DEF PassedBy, IndexOf
<1>3. CASE s \in Plain
  BY <1>1, <1>2, <1>3 DEF Read
<1>4. CASE s \notin Plain
  BY <1>1, <1>2, <1>4, PageCovers DEF Read
<1> QED
  BY <1>3, <1>4

LEMMA StartMisses ==
  ASSUME TypeOK, NEW s \in Calls, MissedOf(s), Start(s)
  PROVE  MissedOf(s)'
<1>1. /\ Read(s, 0) /\ live' = live /\ stable'[s] = live /\ passed' = passed
  BY DEF Start, dirVars, TypeOK
<1>2. pc'[s] \in {"waiting", "rejected"}
  BY <1>1, ReadIsTyped
<1>3. ASSUME pc'[s] = "waiting" PROVE Missed(s)' = {}
  <2>1. SUFFICES ASSUME NEW e \in Missed(s)' PROVE FALSE
    OBVIOUS
  <2>2. e \in PassedBy(s)' /\ e \notin page'[s].entries /\ e \in live
    BY <1>1 DEF Missed, Seen, PassedBy
  <2>3. 0 <= IndexOf(e)
    BY <2>2, IndexIsNat
  <2> QED
    BY <1>1, <1>3, <2>2, <2>3, ReadMissesNothing
<1>4. passed[s] \in Nat
  BY DEF TypeOK
<1>5. pc'[s] = "waiting" => Cardinality(Missed(s)') <= passed'[s]
  BY <1>1, <1>3, <1>4, FS_EmptySet
<1> QED
  BY <1>1, <1>2, <1>5 DEF MissedOf, Active

\* The next page: what it misses was missed before.
LEMMA NextPageMisses ==
  ASSUME TypeOK, NEW s \in Calls, MissedOf(s), Active(s), page[s].cookie > 0,
         Read(s, page[s].cookie), Seen(s) \in SUBSET result'[s],
         live' = live, stable' = stable, passed' = passed
  PROVE  MissedOf(s)'
<1>1. page[s].cookie \in Nat
  BY SeedAssumption DEF TypeOK
<1>2. pc'[s] \in {"waiting", "rejected"}
  BY <1>1, ReadIsTyped
<1>3. ASSUME pc'[s] = "waiting" PROVE Missed(s)' \in SUBSET Missed(s)
  <2>1. SUFFICES ASSUME NEW e \in Missed(s)' PROVE e \in Missed(s)
    OBVIOUS
  <2>2. /\ e \in PassedBy(s)' /\ e \notin page'[s].entries /\ e \in live
        /\ e \in stable[s] /\ e \notin Seen(s)
    BY DEF Missed, Seen, PassedBy
  <2>3. ~(page[s].cookie <= IndexOf(e))
    BY <1>1, <1>3, <2>2, ReadMissesNothing
  <2>4. IndexOf(e) < page[s].cookie
    BY <1>1, <2>2, <2>3, IndexIsNat
  <2> QED
    BY <2>2, <2>4 DEF Missed, PassedBy
<1>4. ASSUME pc'[s] = "waiting" PROVE Cardinality(Missed(s)') <= passed'[s]
  <2>1. /\ IsFiniteSet(Missed(s)) /\ Cardinality(Missed(s)) \in Nat
        /\ Cardinality(Missed(s)) <= passed[s] /\ passed[s] \in Nat
    BY MissedIsFinite DEF MissedOf
  <2>2. /\ Cardinality(Missed(s)') <= Cardinality(Missed(s))
        /\ Cardinality(Missed(s)') \in Nat
    BY <1>3, <1>4, <2>1, FS_Subset, FS_CardinalityType
  <2> QED
    BY <2>1, <2>2
<1> QED
  BY <1>2, <1>4 DEF MissedOf, Active

\* The last page: everything that was there all along has been passed.
LEMMA LastPageMisses ==
  ASSUME TypeOK, NEW s \in Calls, MissedOf(s), Active(s), page[s].cookie = 0,
         pc'[s] = "done", Seen(s) \in SUBSET result'[s],
         stable' = stable, passed' = passed
  PROVE  MissedOf(s)'
<1>1. stable[s] \ result'[s] \in SUBSET Missed(s)
  BY DEF MissedOf, Missed, PassedBy
<1>2. /\ IsFiniteSet(Missed(s)) /\ Cardinality(Missed(s)) \in Nat
      /\ Cardinality(Missed(s)) <= passed[s] /\ passed[s] \in Nat
  BY MissedIsFinite DEF MissedOf
<1>3. /\ Cardinality(stable[s] \ result'[s]) <= Cardinality(Missed(s))
      /\ Cardinality(stable[s] \ result'[s]) \in Nat
  BY <1>1, <1>2, FS_Subset, FS_CardinalityType
<1> QED
  BY <1>2, <1>3 DEF MissedOf, Active

\* A deletion: what moves below the offset is counted as passed.
LEMMA DelMisses ==
  ASSUME TypeOK, NEW s \in Calls, MissedOf(s), NEW dn, Del(dn)
  PROVE  MissedOf(s)'
<1> DEFINE D == Named(dn)
           c == page[s].cookie
           Moved == {e \in live \ D : Index(live \ D, e) < c /\ c <= Index(live, e)}
           Gone == {e \in D : IndexOf(e) < c}
<1>1. /\ live' = live \ D /\ UNCHANGED <<pc, page, result>>
      /\ stable'[s] = IF Active(s) THEN stable[s] \ D ELSE stable[s]
      /\ passed'[s] = IF Active(s) THEN passed[s] + Cardinality(Gone) ELSE passed[s]
  BY DEF Del, DelEntries, callVars
<1>2. /\ live \in SUBSET Nat /\ IsFiniteSet(live) /\ D \in SUBSET live
      /\ Moved \in SUBSET live /\ Gone \in SUBSET live
      /\ c \in Nat /\ passed[s] \in Nat
  BY LiveIsFinite, MissedIsFinite DEF Named
<1>3. /\ IsFiniteSet(Moved) /\ Cardinality(Moved) \in Nat
      /\ Cardinality(Gone) \in Nat
  <2> HIDE DEF Moved, Gone
  <2> QED
    BY <1>2, FS_Subset, FS_CardinalityType
<1>4. Cardinality(Moved) <= Cardinality(Gone)
  <2>1. Gone = {e \in D : Index(live, e) < c}
    BY DEF IndexOf, Index
  <2> HIDE DEF D, c, Gone
  <2> QED
    BY <1>2, <2>1, FewMoveBelow
<1>5. ASSUME Active(s) PROVE Missed(s)' \in SUBSET (Missed(s) \cup Moved)
  <2>1. SUFFICES ASSUME NEW e \in Missed(s)', e \notin Missed(s) PROVE e \in Moved
    OBVIOUS
  <2>2. /\ e \in stable[s] \ Seen(s) /\ e \in live \ D
        /\ c = 0 \/ IndexOf(e)' < c
    BY <1>1, <1>5 DEF Missed, PassedBy, Seen
  <2>3. ~(c = 0) /\ ~(IndexOf(e) < c) /\ Index(live \ D, e) < c
    <3>1. ~(c = 0) /\ ~(IndexOf(e) < c)
      BY <2>1, <2>2 DEF Missed, PassedBy
    <3> QED
      BY <1>1, <2>2, <3>1 DEF IndexOf, Index
  <2>4. c <= Index(live, e)
    <3>1. IndexOf(e) \in Nat /\ IndexOf(e) = Index(live, e)
      BY <2>2, IndexIsNat DEF IndexOf, Index
    <3> HIDE DEF c
    <3> QED
      BY <1>2, <2>3, <3>1
  <2> QED
    BY <2>2, <2>3, <2>4
<1>6. ASSUME Active(s) PROVE Cardinality(Missed(s)') <= passed'[s]
  <2> HIDE DEF Moved, Gone, D, c
  <2>1. /\ IsFiniteSet(Missed(s)) /\ Cardinality(Missed(s)) \in Nat
        /\ Cardinality(Missed(s)) <= passed[s]
    BY <1>6, MissedIsFinite DEF MissedOf
  <2>2. /\ IsFiniteSet(Missed(s) \cup Moved)
        /\ Cardinality(Missed(s) \cup Moved)
             = Cardinality(Missed(s)) + Cardinality(Moved)
                 - Cardinality(Missed(s) \cap Moved)
        /\ Cardinality(Missed(s) \cap Moved) \in Nat
    BY <1>3, <2>1, FS_Union, FS_Intersection, FS_CardinalityType
  <2>3. /\ Cardinality(Missed(s)') <= Cardinality(Missed(s) \cup Moved)
        /\ Cardinality(Missed(s)') \in Nat
        /\ Cardinality(Missed(s) \cup Moved) \in Nat
    BY <1>5, <1>6, <2>2, FS_Subset, FS_CardinalityType
  <2>4. passed'[s] = passed[s] + Cardinality(Gone)
    BY <1>1, <1>6
  <2> QED
    BY <1>2, <1>3, <1>4, <2>1, <2>2, <2>3, <2>4
<1>7. (Active(s)' <=> Active(s)) /\ (pc'[s] = "done" => ~Active(s))
  BY <1>1 DEF Active
<1>8. Active(s) => stable'[s] \in SUBSET live'
  BY <1>1 DEF MissedOf
<1> QED
  BY <1>1, <1>6, <1>7, <1>8 DEF MissedOf

LEMMA StepMissed == TypeOK /\ MissedInv /\ [Next]_vars => MissedInv'
<1> SUFFICES ASSUME TypeOK, MissedInv, [Next]_vars, NEW s \in Calls
             PROVE  MissedOf(s)'
  BY DEF MissedInv
<1> MissedOf(s)
  BY DEF MissedInv
\* A step of another call.
<1>1. ASSUME live' = live, pc'[s] = pc[s], page'[s] = page[s], result'[s] = result[s],
             stable'[s] = stable[s], passed'[s] = passed[s]
      PROVE  MissedOf(s)'
  <2>1. \A e : IndexOf(e)' = IndexOf(e)
    BY <1>1 DEF IndexOf
  <2> QED
    BY <1>1, <2>1, OthersMissNothing
<1>2. ASSUME NEW t \in Calls, Start(t) PROVE MissedOf(s)'
  <2>1. /\ Read(t, 0) /\ live' = live /\ result' = result /\ passed' = passed
        /\ t # s => stable'[s] = stable[s]
    BY <1>2 DEF Start, dirVars, TypeOK
  <2>2. CASE t = s
    BY <1>2, <2>2, StartMisses
  <2>3. CASE t # s
    BY <1>1, <2>1, <2>3, ReadIsTyped
  <2> QED
    BY <2>2, <2>3
<1>3. ASSUME NEW t \in Calls, Collect(t) PROVE MissedOf(s)'
  <2>1. /\ pc[t] = "waiting" /\ live' = live /\ stable' = stable /\ passed' = passed
        /\ result' = [result EXCEPT ![t] = @ \cup page[t].entries]
    BY <1>3 DEF Collect, dirVars, histVars
  <2>2. result'[t] = Seen(t) /\ Active(t) /\ (t # s => result'[s] = result[s])
    BY <2>1 DEF TypeOK, Seen, Active
  <2>3. CASE page[t].cookie = 0 /\ pc' = [pc EXCEPT ![t] = "done"] /\ UNCHANGED page
    <3>1. pc'[t] = "done" /\ (t # s => pc'[s] = pc[s])
      BY <2>3 DEF TypeOK
    <3>2. CASE t = s
      BY <2>1, <2>2, <2>3, <3>1, <3>2, LastPageMisses
    <3>3. CASE t # s
      BY <1>1, <2>1, <2>2, <2>3, <3>1, <3>3
    <3> QED
      BY <3>2, <3>3
  <2>4. CASE page[t].cookie > 0 /\ Read(t, page[t].cookie)
    <3>1. page[t].cookie \in Nat
      BY MissedIsFinite
    <3>2. CASE t = s
      BY <2>1, <2>2, <2>4, <3>2, NextPageMisses
    <3>3. CASE t # s
      BY <1>1, <2>1, <2>2, <2>4, <3>1, <3>3, ReadIsTyped
    <3> QED
      BY <3>2, <3>3
  <2> QED
    BY <1>3, <2>3, <2>4 DEF Collect
<1>4. ASSUME NEW t \in Calls, Yield(t) PROVE MissedOf(s)'
  <2>1. /\ pc[t] = "waiting" /\ UNCHANGED <<live, page, stable, passed>>
        /\ result'[t] = Seen(t) /\ pc'[t] = "yielded"
        /\ t # s => result'[s] = result[s] /\ pc'[s] = pc[s]
    BY <1>4 DEF Yield, dirVars, histVars, TypeOK, Seen
  <2>2. CASE t = s
    <3>1. Active(s) /\ Active(s)' /\ Seen(s)' = Seen(s) /\ \A e : IndexOf(e)' = IndexOf(e)
      BY <2>1, <2>2 DEF Seen, Active, IndexOf
    <3>2. Missed(s)' = Missed(s)
      BY <2>1, <3>1 DEF Missed, PassedBy
    <3> QED
      BY <2>1, <2>2, <3>1, <3>2 DEF MissedOf, Seen
  <2>3. CASE t # s
    BY <1>1, <2>1, <2>3
  <2> QED
    BY <2>2, <2>3
<1>5. ASSUME NEW t \in Calls, Pull(t) PROVE MissedOf(s)'
  <2>1. /\ pc[t] = "yielded" /\ UNCHANGED <<live, result, stable, passed>>
    BY <1>5 DEF Pull, dirVars, histVars
  <2>2. Active(t) /\ (t = s => Seen(t) \in SUBSET result'[t])
    BY <2>1 DEF Active, Seen, MissedOf
  <2>3. CASE page[t].cookie = 0 /\ pc' = [pc EXCEPT ![t] = "done"] /\ UNCHANGED page
    <3>1. pc'[t] = "done" /\ (t # s => pc'[s] = pc[s])
      BY <2>3 DEF TypeOK
    <3>2. CASE t = s
      BY <2>1, <2>2, <2>3, <3>1, <3>2, LastPageMisses
    <3>3. CASE t # s
      BY <1>1, <2>1, <2>3, <3>1, <3>3
    <3> QED
      BY <3>2, <3>3
  <2>4. CASE page[t].cookie > 0 /\ Read(t, page[t].cookie)
    <3>1. page[t].cookie \in Nat
      BY MissedIsFinite
    <3>2. CASE t = s
      BY <2>1, <2>2, <2>4, <3>2, NextPageMisses
    <3>3. CASE t # s
      BY <1>1, <2>1, <2>4, <3>1, <3>3, ReadIsTyped
    <3> QED
      BY <3>2, <3>3
  <2> QED
    BY <1>5, <2>3, <2>4 DEF Pull
<1>6. ASSUME NEW t \in Calls, Stop(t) PROVE MissedOf(s)'
  <2>1. /\ UNCHANGED <<live, page, result, stable, passed>>
        /\ pc'[t] = "stopped" /\ (t # s => pc'[s] = pc[s])
    BY <1>6 DEF Stop, dirVars, histVars, TypeOK
  <2> QED
    BY <1>1, <2>1 DEF MissedOf, Active
<1>7. ASSUME NEW dn \in NewDns, Add(dn) PROVE MissedOf(s)'
  <2>1. /\ live' = live \cup {Len(dns) + 1}
        /\ UNCHANGED <<pc, page, result, stable, passed>>
    BY <1>7 DEF Add, AddEntry, callVars, histVars
  <2>2. \A e \in live : IndexOf(e)' = IndexOf(e)
    <3>1. Len(dns) \in Nat /\ \A e \in live : e \in Nat /\ e <= Len(dns)
      BY DEF TypeOK, DirTypeOK
    <3>2. TAKE e \in live
    <3>3. {f \in live' : f < e} = {f \in live : f < e}
      BY <2>1, <3>1
    <3> QED
      BY <3>3 DEF IndexOf
  <2> QED
    BY <2>1, <2>2, OthersMissNothing
<1>8. ASSUME NEW dn \in DelDns, Del(dn) PROVE MissedOf(s)'
  BY <1>8, DelMisses
<1>9. ASSUME NEW dn \in Dns, NEW newDn \in NewDns, Rename(dn, newDn)
      PROVE  MissedOf(s)'
  BY <1>1, <1>9 DEF Rename, RenameEntry, callVars, histVars
<1>10. CASE Unbind
  BY <1>1, <1>10 DEF Unbind, DropHandle, callVars, histVars
<1>11. CASE UNCHANGED vars
  BY <1>1, <1>11 DEF vars, dirVars, callVars, histVars
<1> QED
  BY <1>2, <1>3, <1>4, <1>5, <1>6, <1>7, <1>8, <1>9, <1>10, <1>11 DEF Next, Move, OtherTasks

THEOREM Invariant == Spec => []Inv
  BY InitInv, StepInv, PTL DEF Spec

\* Pages, offsets and results keep their types: an offset never exceeds the number
\* of entries created so far.
THEOREM TypeCorrect == Spec => []TypeOK
<1>1. Inv => TypeOK
  BY DEF Inv
<1> QED
  BY Invariant, <1>1, PTL

\* For any directory, any number of calls and any page size: no call hands out
\* an entry twice, whatever other tasks do between its pages.
THEOREM NothingTwice == Spec => []ReportedOnce
<1>1. Inv => ReportedOnce
  BY DEF Inv
<1> QED
  BY Invariant, <1>1, PTL

\* For any directory, any calls and any page size: what a call missed although it
\* was there all along is at most as many entries as were deleted from the pages
\* it had read.
THEOREM MissesAreDeletions == Spec => []MissedOnlyByDeletes
<1>1. Init => MissedInv
  BY DEF Init, MissedInv, MissedOf, Active
<1>2. TypeOK /\ MissedInv /\ [Next]_vars => MissedInv'
  BY StepMissed
<1>3. MissedInv => MissedOnlyByDeletes
  BY DEF MissedInv, MissedOf, MissedOnlyByDeletes
<1> QED
  BY TypeCorrect, <1>1, <1>2, <1>3, PTL DEF Spec

-------------------------------------------------------------------------------
(* Without deletions a search is atomic *)

\* What has been read is all that lies before the offset of the next page.
SnapshotOf(s) ==
  Active(s) /\ page[s].cookie > 0 =>
    /\ page[s].cookie <= Cardinality(live)
    /\ Seen(s) \subseteq live
    /\ \A e \in live : IndexOf(e) < page[s].cookie => e \in Seen(s)

Snapshot == \A s \in Calls : SnapshotOf(s)

\* Clones of these entries, one of each, under names that are known.
Faithful(pairs, entries, known) ==
  /\ pairs \subseteq known
  /\ \A p \in pairs : p[1] \in entries
  /\ \A e \in entries : \E p \in pairs : p[1] = e
  /\ \A p, q \in pairs : p[1] = q[1] => p = q

NamesOf(s) ==
  /\ pc[s] = "idle" => clones[s] = {} /\ since[s] = {}
  /\ Active(s) => /\ Directory \subseteq since[s]
                  /\ Faithful(clones[s], Seen(s), since[s])

NamesInv == \A s \in Calls : NamesOf(s)

LEMMA NamedInitType == NamedInit => NamedTypeOK
<1>1. Init => TypeOK
  BY InitInv DEF Inv
<1> QED
  BY <1>1 DEF NamedInit, NamedTypeOK

LEMMA DirectoryIsTyped ==
  ASSUME TypeOK
  PROVE  Directory \subseteq (1 .. Len(dns)) \X Dns
<1>1. \A e \in live : e \in 1 .. Len(dns) /\ dns[e] \in Dns
  BY DEF TypeOK, DirTypeOK
<1> QED
  BY <1>1 DEF Directory

LEMMA StepNamedType == NamedTypeOK /\ [NamedNext]_namedVars => NamedTypeOK'
<1> SUFFICES ASSUME NamedTypeOK, [NamedNext]_namedVars PROVE NamedTypeOK'
  OBVIOUS
<1>1. TypeOK'
  BY StepTypeOK DEF NamedNext, MoveNamed, OthersNamed, Next, namedVars, NamedTypeOK
<1> DEFINE Pairs == (1 .. Len(dns)) \X Dns
<1>2. /\ clones \in [Calls -> SUBSET Pairs] /\ since \in [Calls -> SUBSET Pairs]
      /\ Directory \subseteq Pairs /\ Directory' \subseteq Pairs'
  <2>1. Directory' \subseteq Pairs'
    <3>1. \A e \in live' : e \in 1 .. Len(dns') /\ dns'[e] \in Dns
      BY <1>1 DEF TypeOK, DirTypeOK
    <3> QED
      BY <3>1 DEF Directory
  <2> QED
    BY <2>1, DirectoryIsTyped DEF NamedTypeOK
<1>3. ASSUME NEW s \in Calls, MoveNamed(s) PROVE NamedTypeOK'
  <2>1. UNCHANGED <<dns, live>>
    BY <1>3 DEF MoveNamed, Move, Start, Collect, Yield, Pull, Stop, dirVars
  <2>2. pc'[s] = "waiting" => page'[s].entries \subseteq 1 .. Len(dns)
    BY <1>1, <2>1 DEF TypeOK
  <2>3. \A e \in 1 .. Len(dns) : <<e, dns[e]>> \in Pairs
    BY DEF NamedTypeOK, TypeOK, DirTypeOK
  <2>4. clones' \in [Calls -> SUBSET Pairs]
    <3>1. CASE pc'[s] = "waiting"
      <4>1. clones' = [clones EXCEPT ![s] =
              clones[s] \cup {<<e, dns[e]>> : e \in page'[s].entries}]
        BY <1>3, <3>1 DEF MoveNamed
      <4>2. {<<e, dns[e]>> : e \in page'[s].entries} \subseteq Pairs
        BY <2>2, <2>3, <3>1
      <4> QED
        BY <1>2, <4>1, <4>2
    <3>2. CASE pc'[s] # "waiting"
      <4>1. clones' = [clones EXCEPT ![s] = clones[s]]
        BY <1>3, <3>2 DEF MoveNamed
      <4> QED
        BY <1>2, <4>1
    <3> QED
      BY <3>1, <3>2
  <2>5. since' \in [Calls -> SUBSET Pairs]
    <3>1. PICK new \in {{}, Directory, since[s]} : since' = [since EXCEPT ![s] = new]
      BY <1>3 DEF MoveNamed
    <3> QED
      BY <1>2, <3>1
  <2> QED
    BY <1>1, <2>1, <2>4, <2>5 DEF NamedTypeOK
<1>4. CASE OthersNamed
  <2>1. Pairs \subseteq Pairs'
    <3>1. Len(dns) \in Nat /\ Len(dns') \in Nat
      BY <1>1 DEF NamedTypeOK, TypeOK, DirTypeOK
    <3>2. Len(dns) <= Len(dns')
      <4>1. ASSUME NEW dn \in NewDns, Add(dn) PROVE Len(dns) <= Len(dns')
        BY <3>1, <4>1, NamesAssumption
        DEF Add, AddEntry, NamedTypeOK, TypeOK, DirTypeOK
      <4>2. ASSUME NEW dn \in Dns, NEW newDn \in NewDns, Rename(dn, newDn)
            PROVE  Len(dns) <= Len(dns')
        <5>1. CASE UNCHANGED dns
          BY <3>1, <5>1
        <5>2. ASSUME NEW e, dns' = [dns EXCEPT ![e] = newDn] PROVE Len(dns) <= Len(dns')
          <6>1. Len(dns') = Len(dns)
            <7>1. dns \in Seq(Dns) /\ dns' \in Seq(Dns)
              BY <1>1 DEF NamedTypeOK, TypeOK, DirTypeOK
            <7>2. DOMAIN dns' = DOMAIN dns
              BY <5>2
            <7> QED
              BY <7>1, <7>2, <3>1, LenProperties
          <6> QED
            BY <3>1, <6>1
        <5> QED
          BY <4>2, <5>1, <5>2 DEF Rename, RenameEntry
      <4>3. UNCHANGED dns => Len(dns) <= Len(dns')
        BY <3>1
      <4> QED
        BY <1>4, <4>1, <4>2, <4>3 DEF OthersNamed, OtherTasks, Del, DelEntries, Unbind,
                                      DropHandle
    <3> QED
      BY <3>1, <3>2
  <2>2. clones' \in [Calls -> SUBSET Pairs']
    BY <1>2, <1>4, <2>1 DEF OthersNamed
  <2>3. since' \in [Calls -> SUBSET Pairs']
    <3>1. \A s \in Calls : since[s] \cup Directory' \subseteq Pairs'
      BY <1>2, <2>1
    <3> QED
      BY <1>2, <1>4, <2>1, <3>1 DEF OthersNamed
  <2> QED
    BY <1>1, <2>2, <2>3 DEF NamedTypeOK
<1>5. CASE UNCHANGED namedVars
  BY <1>1, <1>2, <1>5 DEF namedVars, vars, dirVars, NamedTypeOK
<1> QED
  BY <1>3, <1>4, <1>5 DEF NamedNext

\* What a page read for a call, when all before its offset has been read, adds
\* to that.
LEMMA ReadTakes ==
  ASSUME TypeOK, NEW s \in Calls, NEW offset \in Nat, Read(s, offset), live' = live,
         NEW seen \in SUBSET live, \A e \in live : IndexOf(e) < offset => e \in seen,
         pc'[s] = "waiting"
  PROVE  /\ seen \cup page'[s].entries \subseteq live
         /\ page'[s].cookie = 0 => seen \cup page'[s].entries = live
         /\ page'[s].cookie > 0 =>
              /\ page'[s].cookie <= Cardinality(live)
              /\ \A e \in live : IndexOf(e) < page'[s].cookie
                                   => e \in seen \cup page'[s].entries
<1>1. s \in DOMAIN page /\ s \in DOMAIN pc /\ open
  BY DEF TypeOK, Read
<1>2. /\ page'[s].entries \subseteq live
      /\ page'[s].cookie > 0 => page'[s].cookie <= Cardinality(live)
  <2>1. CASE s \in Plain
    BY <1>1, <2>1 DEF Read
  <2>2. CASE s \notin Plain
    <3>1. page'[s] = PageAt(offset, PageSize)
      BY <1>1, <2>2 DEF Read
    <3>2. \A e \in PageAt(offset, PageSize).entries : e \in live
      BY PageIsTyped
    <3>3. Cardinality(Slice(offset, PageSize)) \in Nat /\ Cardinality(live) \in Nat
      <4>1. Slice(offset, PageSize) \in SUBSET live
        BY DEF Slice
      <4> QED
        BY <4>1, LiveIsFinite, FS_Subset, FS_CardinalityType
    <3>4. PageAt(offset, PageSize).cookie > 0 =>
            PageAt(offset, PageSize).cookie <= Cardinality(live)
      BY <3>3 DEF PageAt
    <3> QED
      BY <3>1, <3>2, <3>4
  <2> QED
    BY <2>1, <2>2
<1>3. ASSUME NEW e \in live, page'[s].cookie = 0 \/ IndexOf(e) < page'[s].cookie
      PROVE  e \in seen \cup page'[s].entries
  <2>1. IndexOf(e) \in Nat
    BY IndexIsNat
  <2>2. e \in PassedBy(s)'
    BY <1>3 DEF PassedBy, IndexOf
  <2>3. CASE IndexOf(e) < offset
    BY <2>3
  <2>4. CASE offset <= IndexOf(e)
    BY <2>2, <2>4, ReadMissesNothing
  <2> QED
    BY <2>1, <2>3, <2>4
<1> QED
  BY <1>2, <1>3

\* A step in which one call moves is a step of the abstract search.
LEMMA OneCallMoves ==
  ASSUME NEW s \in Calls, Directory' = Directory,
         since' = [since EXCEPT ![s] = since'[s]], since \in [Calls -> SUBSET ((1 .. Len(dns)) \X Dns)],
         \A t \in Calls \ {s} : PhaseOf(t)' = PhaseOf(t) /\ AnswerOf(t)' = AnswerOf(t),
         \/ /\ PhaseOf(s)' = PhaseOf(s) /\ AnswerOf(s)' = AnswerOf(s)
            /\ since'[s] = since[s]
         \/ /\ PhaseOf(s) = "idle" /\ since'[s] = Directory
            /\ \/ PhaseOf(s)' = "taken" /\ AnswerOf(s)' = Directory
               \/ PhaseOf(s)' = "pending" /\ AnswerOf(s)' = AnswerOf(s)
         \/ /\ PhaseOf(s) = "idle" /\ since'[s] = since[s]
            /\ PhaseOf(s)' = "failed" /\ AnswerOf(s)' = AnswerOf(s)
         \/ /\ PhaseOf(s) = "pending" /\ since'[s] = since[s]
            /\ PhaseOf(s)' = "taken" /\ Faithful(AnswerOf(s)', live, since[s])
         \/ /\ PhaseOf(s) = "taken" /\ since'[s] = {}
            /\ PhaseOf(s)' = "done" /\ AnswerOf(s)' = AnswerOf(s)
         \/ /\ PhaseOf(s) \in {"pending", "taken"} /\ since'[s] = {}
            /\ PhaseOf(s)' = "failed" /\ AnswerOf(s)' = {}
  PROVE  [Atomic!Next]_(Atomic!vars)
<1> DEFINE phase == [t \in Calls |-> PhaseOf(t)]
           answer == [t \in Calls |-> AnswerOf(t)]
<1>1. /\ phase' = [phase EXCEPT ![s] = PhaseOf(s)']
      /\ answer' = [answer EXCEPT ![s] = AnswerOf(s)']
      /\ phase[s] = PhaseOf(s) /\ answer[s] = AnswerOf(s)
  OBVIOUS
<1>2. AnswerOf(s)' = AnswerOf(s) => answer' = answer
  BY <1>1
<1>3. PhaseOf(s)' = PhaseOf(s) => phase' = phase
  BY <1>1
<1>4. since'[s] = since[s] => since' = since
  OBVIOUS
<1>5. Atomic!Entries(Directory) = live
  <2>1. \A e \in live : <<e, dns[e]>> \in Directory /\ <<e, dns[e]>>[1] = e
    BY DEF Directory
  <2>2. \A p \in Directory : p[1] \in live
    BY DEF Directory
  <2>3. \A e \in live : \E p \in Directory : p[1] = e
    BY <2>1
  <2> QED
    BY <2>2, <2>3 DEF Atomic!Entries
<1>6. ASSUME Faithful(AnswerOf(s)', live, since[s])
      PROVE  \E found \in SUBSET since[s] :
               /\ Atomic!Entries(found) = Atomic!Entries(Directory)
               /\ \A p, q \in found : p[1] = q[1] => p = q
               /\ answer' = [answer EXCEPT ![s] = found]
  <2>1. Atomic!Entries(AnswerOf(s)') = live
    BY <1>6 DEF Atomic!Entries, Faithful
  <2> QED
    BY <1>1, <1>5, <1>6, <2>1 DEF Faithful
<1> HIDE DEF phase, answer
<1> QED
  BY <1>1, <1>2, <1>3, <1>4, <1>6
  DEF Atomic!Next, Atomic!vars, Atomic!Begin, Atomic!Take, Atomic!Return, Atomic!Fail,
      phase, answer

\* A call that nobody moves, while entries are added or renamed.
LEMMA OthersKeepSnapshot ==
  ASSUME TypeOK, NEW s \in Calls, SnapshotOf(s),
         pc'[s] = pc[s], page'[s] = page[s], result'[s] = result[s],
         clones'[s] = clones[s],
         live \in SUBSET live', Cardinality(live)' \in Nat,
         Cardinality(live) <= Cardinality(live)',
         \A e \in live : IndexOf(e)' = IndexOf(e),
         \A e \in live' \ live : Cardinality(live) <= IndexOf(e)'
                                   /\ IndexOf(e)' \in Nat
  PROVE  /\ SnapshotOf(s)'
         /\ PhaseOf(s)' = PhaseOf(s) /\ AnswerOf(s)' = AnswerOf(s)
<1>1. /\ Seen(s)' = Seen(s) /\ (Active(s)' <=> Active(s))
      /\ page[s].cookie \in Nat /\ Cardinality(live) \in Nat
  <2>1. page[s].cookie \in 0 .. Len(dns) /\ Len(dns) \in Nat
    BY DEF TypeOK, DirTypeOK
  <2> QED
    BY <2>1, LiveIsFinite DEF Seen, Active
<1>2. PhaseOf(s)' = PhaseOf(s)
  BY <1>1 DEF PhaseOf
<1>3. AnswerOf(s)' = AnswerOf(s)
  BY <1>2 DEF AnswerOf, HandedOf
<1>4. ASSUME Active(s), page[s].cookie > 0
      PROVE  /\ page[s].cookie <= Cardinality(live)'
             /\ Seen(s) \subseteq live'
             /\ \A e \in live' : IndexOf(e)' < page[s].cookie => e \in Seen(s)
  <2>1. /\ page[s].cookie <= Cardinality(live)
        /\ Seen(s) \subseteq live
        /\ \A e \in live : IndexOf(e) < page[s].cookie => e \in Seen(s)
    BY <1>4 DEF SnapshotOf
  <2>2. page[s].cookie <= Cardinality(live)'
    BY <1>1, <2>1
  <2>3. ASSUME NEW e \in live', IndexOf(e)' < page[s].cookie PROVE e \in Seen(s)
    <3>1. CASE e \in live
      BY <2>1, <2>3, <3>1
    <3>2. CASE e \notin live
      BY <1>1, <2>1, <2>3, <3>2
    <3> QED
      BY <3>1, <3>2
  <2> QED
    BY <2>1, <2>2, <2>3
<1> QED
  BY <1>1, <1>2, <1>3, <1>4 DEF SnapshotOf

\* The calls that are not the one that moves.
LEMMA OneMovesAlone ==
  ASSUME NamedTypeOK, Snapshot, NamesInv, NEW s \in Calls, MoveNamed(s)
  PROVE  /\ live' = live /\ dns' = dns /\ Directory' = Directory
         /\ \A e : IndexOf(e)' = IndexOf(e)
         /\ since' = [since EXCEPT ![s] = since'[s]]
         /\ \A t \in Calls \ {s} : /\ pc'[t] = pc[t] /\ page'[t] = page[t]
                                   /\ result'[t] = result[t]
                                   /\ SnapshotOf(t)' /\ NamesOf(t)'
                                   /\ PhaseOf(t)' = PhaseOf(t)
                                   /\ AnswerOf(t)' = AnswerOf(t)
<1>1. TypeOK /\ clones \in [Calls -> SUBSET ((1 .. Len(dns)) \X Dns)]
      /\ since \in [Calls -> SUBSET ((1 .. Len(dns)) \X Dns)]
  BY DEF NamedTypeOK
<1>2. UNCHANGED <<dns, live>>
  BY DEF MoveNamed, Move, Start, Collect, Yield, Pull, Stop, dirVars
<1>3. Directory' = Directory /\ \A e : IndexOf(e)' = IndexOf(e)
  BY <1>2 DEF Directory, IndexOf
<1>4. since' = [since EXCEPT ![s] = since'[s]]
  BY <1>1 DEF MoveNamed
<1>5. ASSUME NEW t \in Calls, t # s
      PROVE  /\ pc'[t] = pc[t] /\ page'[t] = page[t] /\ result'[t] = result[t]
             /\ clones'[t] = clones[t] /\ since'[t] = since[t]
  <2>1. clones'[t] = clones[t] /\ since'[t] = since[t]
    BY <1>1, <1>5 DEF MoveNamed
  <2>2. \A offset \in Nat : Read(s, offset) => pc'[t] = pc[t] /\ page'[t] = page[t]
    BY <1>1, <1>5, ReadIsTyped
  <2>3. page[s].cookie \in Nat
    BY <1>1 DEF TypeOK, DirTypeOK
  <2>4. pc'[t] = pc[t] /\ page'[t] = page[t] /\ result'[t] = result[t]
    <3>1. CASE Start(s)
      BY <2>2, <3>1 DEF Start
    <3>2. CASE Collect(s)
      BY <1>1, <1>5, <2>2, <2>3, <3>2 DEF Collect, TypeOK
    <3>3. CASE Yield(s)
      BY <1>1, <1>5, <3>3 DEF Yield, TypeOK
    <3>4. CASE Pull(s)
      BY <1>1, <1>5, <2>2, <2>3, <3>4 DEF Pull, TypeOK
    <3>5. CASE Stop(s)
      BY <1>1, <1>5, <3>5 DEF Stop, TypeOK
    <3> QED
      BY <3>1, <3>2, <3>3, <3>4, <3>5 DEF MoveNamed, Move
  <2> QED
    BY <2>1, <2>4
<1>6. ASSUME NEW t \in Calls, t # s
      PROVE  /\ SnapshotOf(t)' /\ NamesOf(t)'
             /\ PhaseOf(t)' = PhaseOf(t) /\ AnswerOf(t)' = AnswerOf(t)
  <2>1. /\ live' \ live = {} /\ Cardinality(live)' = Cardinality(live)
        /\ Cardinality(live) \in Nat /\ Cardinality(live) <= Cardinality(live)'
    BY <1>1, <1>2, LiveIsFinite
  <2>2. /\ SnapshotOf(t)'
        /\ PhaseOf(t)' = PhaseOf(t) /\ AnswerOf(t)' = AnswerOf(t)
    BY <1>1, <1>2, <1>3, <1>5, <1>6, <2>1, OthersKeepSnapshot DEF Snapshot
  <2>3. NamesOf(t)'
    BY <1>3, <1>5, <1>6 DEF NamesInv, NamesOf, Active, Seen
  <2> QED
    BY <2>2, <2>3
<1> QED
  BY <1>2, <1>3, <1>4, <1>5, <1>6

\* The clones of a new page, added to those of the pages before it.
LEMMA CloneAdds ==
  ASSUME NEW pairs, NEW entries, NEW known, NEW new \in SUBSET live,
         Faithful(pairs, entries, known), Directory \subseteq known,
         new \cap entries = {}
  PROVE  Faithful(pairs \cup {<<e, dns[e]>> : e \in new}, entries \cup new, known)
<1> DEFINE more == {<<e, dns[e]>> : e \in new}
<1>1. /\ \A e \in new : <<e, dns[e]>> \in more /\ <<e, dns[e]>>[1] = e
      /\ \A p \in more : p[1] \in new /\ p = <<p[1], dns[p[1]]>>
  OBVIOUS
<1>2. more \subseteq known
  BY DEF Directory
<1> HIDE DEF more
<1>3. pairs \cup more \subseteq known /\ \A p \in pairs \cup more : p[1] \in entries \cup new
  BY <1>1, <1>2 DEF Faithful
<1>4. \A e \in entries \cup new : \E p \in pairs \cup more : p[1] = e
  BY <1>1 DEF Faithful
<1>5. ASSUME NEW p \in pairs \cup more, NEW q \in pairs \cup more, p[1] = q[1]
      PROVE  p = q
  BY <1>1, <1>5 DEF Faithful
<1>6. Faithful(pairs \cup more, entries \cup new, known)
  BY <1>3, <1>4, <1>5 DEF Faithful
<1> QED
  BY <1>6 DEF more

\* What reading a page means for its call: nothing was read before its first one,
\* and what was read before a later one is all before its offset.
LEMMA ReadMoves ==
  ASSUME NamedTypeOK, SeenInv, NamesInv, Snapshot, NEW s \in Calls, MoveNamed(s),
         NEW offset \in Nat, Read(s, offset),
         NEW seen \in SUBSET live, \A e \in live : IndexOf(e) < offset => e \in seen,
         \A e \in seen : IndexOf(e) < offset,
         s \in Plain => seen = {} /\ page[s].cookie = 0,
         result'[s] \cup page'[s].entries = seen \cup page'[s].entries,
         NEW known, Directory \subseteq known, Faithful(clones[s], seen, known),
         Active(s)' => since'[s] = known, pc[s] # "idle" \/ since[s] = {}
  PROVE  /\ SnapshotOf(s)' /\ NamesOf(s)'
         /\ \/ PhaseOf(s)' = "pending" /\ AnswerOf(s)' = {} /\ since'[s] = known
            \/ /\ PhaseOf(s)' = "taken" /\ since'[s] = known
               /\ Faithful(AnswerOf(s)', live, known)
               /\ AnswerOf(s)' = clones[s] \cup {<<e, dns[e]>> : e \in page'[s].entries}
               /\ seen \cup page'[s].entries = live
            \/ PhaseOf(s)' = "failed" /\ AnswerOf(s)' = {} /\ since'[s] = {}
<1> TypeOK
  BY DEF NamedTypeOK
<1>1. /\ pc'[s] \in {"waiting", "rejected"} /\ page'[s].cookie \in Nat
      /\ clones \in [Calls -> SUBSET ((1 .. Len(dns)) \X Dns)]
      /\ since \in [Calls -> SUBSET ((1 .. Len(dns)) \X Dns)]
  <2>1. \A n \in 0 .. Len(dns) : n \in Nat
    BY DEF TypeOK, DirTypeOK
  <2> QED
    BY <2>1, ReadIsTyped DEF NamedTypeOK
<1>2. CASE pc'[s] = "rejected"
  <2>1. ~Active(s)' /\ since'[s] = {}
    BY <1>1, <1>2 DEF MoveNamed, Active
  <2> QED
    BY <1>2, <2>1 DEF SnapshotOf, NamesOf, PhaseOf, AnswerOf, HandedOf, Active
<1>3. CASE pc'[s] = "waiting"
  <2>1. /\ Active(s)' /\ Seen(s)' = seen \cup page'[s].entries
        /\ live' = live /\ dns' = dns /\ Directory' = Directory
        /\ \A e : IndexOf(e)' = IndexOf(e)
        /\ since'[s] = known
    BY <1>3, OneMovesAlone DEF Active, Seen
  <2>2. /\ seen \cup page'[s].entries \subseteq live
        /\ page'[s].cookie = 0 => seen \cup page'[s].entries = live
        /\ page'[s].cookie > 0 =>
             /\ page'[s].cookie <= Cardinality(live)
             /\ \A e \in live : IndexOf(e) < page'[s].cookie
                                  => e \in seen \cup page'[s].entries
    BY <1>3, <2>1, ReadTakes
  <2>3. SnapshotOf(s)'
    BY <2>1, <2>2 DEF SnapshotOf
  <2>4. page'[s].entries \cap seen = {}
    BY <1>3, ReadIsFresh
  <2>5. clones'[s] = clones[s] \cup {<<e, dns[e]>> : e \in page'[s].entries}
    BY <1>1, <1>3 DEF MoveNamed
  <2>6. Faithful(clones'[s], seen \cup page'[s].entries, known)
    <3> DEFINE new == page'[s].entries
    <3>1. new \in SUBSET live /\ new \cap seen = {}
      BY <2>2, <2>4
    <3> HIDE DEF new
    <3>2. Faithful(clones[s] \cup {<<e, dns[e]>> : e \in new}, seen \cup new, known)
      BY <3>1, CloneAdds
    <3> QED
      BY <2>5, <3>2 DEF new
  <2>7. NamesOf(s)'
    BY <1>3, <2>1, <2>6 DEF NamesOf
  <2>8. CASE page'[s].cookie = 0
    <3>1. PhaseOf(s)' = "taken"
      BY <2>1, <2>8 DEF PhaseOf
    <3>2. HandedOf(s)' = seen \cup page'[s].entries
      BY <3>1 DEF HandedOf
    <3>3. AnswerOf(s)' = clones'[s]
      BY <2>6, <3>2 DEF AnswerOf, Faithful
    <3> QED
      BY <2>1, <2>2, <2>3, <2>5, <2>6, <2>7, <2>8, <3>1, <3>3
  <2>9. CASE page'[s].cookie > 0
    <3>1. PhaseOf(s)' = "pending"
      BY <2>1, <2>9 DEF PhaseOf
    <3>2. AnswerOf(s)' = {}
      BY <3>1 DEF AnswerOf, HandedOf
    <3> QED
      BY <2>1, <2>3, <2>7, <3>1, <3>2
  <2> QED
    BY <1>1, <2>8, <2>9
<1> QED
  BY <1>1, <1>2, <1>3

AtomicInv == NamedTypeOK /\ SeenInv /\ MissedInv /\ Snapshot /\ NamesInv

LEMMA StartIsAtomic ==
  ASSUME AtomicInv, NEW s \in Calls, MoveNamed(s), Start(s)
  PROVE  SnapshotOf(s)' /\ NamesOf(s)' /\ [Atomic!Next]_(Atomic!vars)
<1> TypeOK
  BY DEF AtomicInv, NamedTypeOK
<1>1. /\ pc[s] = "idle" /\ Read(s, 0) /\ result' = result /\ result[s] = {}
      /\ clones[s] = {} /\ since[s] = {} /\ (s \in Plain => page[s].cookie = 0)
  BY DEF Start, AtomicInv, SeenInv, SeenOf, NamesInv, NamesOf
<1>2. PhaseOf(s) = "idle" /\ AnswerOf(s) = {}
  BY <1>1 DEF PhaseOf, AnswerOf, Active
<1>3. \A e \in live : ~(IndexOf(e) < 0)
  BY IndexIsNat
<1>4. /\ clones \in [Calls -> SUBSET ((1 .. Len(dns)) \X Dns)]
      /\ since \in [Calls -> SUBSET ((1 .. Len(dns)) \X Dns)]
  BY DEF AtomicInv, NamedTypeOK
<1>5. Active(s)' => since'[s] = Directory
  BY <1>1, <1>4 DEF MoveNamed
<1>6. Faithful(clones[s], {}, Directory)
  BY <1>1 DEF Faithful
<1>7. /\ SnapshotOf(s)' /\ NamesOf(s)'
      /\ \/ PhaseOf(s)' = "pending" /\ AnswerOf(s)' = {} /\ since'[s] = Directory
         \/ /\ PhaseOf(s)' = "taken" /\ since'[s] = Directory
            /\ AnswerOf(s)' = clones[s] \cup {<<e, dns[e]>> : e \in page'[s].entries}
            /\ {} \cup page'[s].entries = live
         \/ PhaseOf(s)' = "failed" /\ AnswerOf(s)' = {} /\ since'[s] = {}
  BY <1>1, <1>3, <1>5, <1>6, ReadMoves, {} \in SUBSET live DEF AtomicInv
<1>8. PhaseOf(s)' = "taken" => AnswerOf(s)' = Directory
  BY <1>1, <1>7 DEF Directory
<1>9. [Atomic!Next]_(Atomic!vars)
  BY <1>1, <1>2, <1>4, <1>7, <1>8, OneMovesAlone, OneCallMoves DEF AtomicInv
<1> QED
  BY <1>7, <1>9

\* A call asks for its next page, having handed out what it has read.
LEMMA NextPageIsAtomic ==
  ASSUME AtomicInv, NEW s \in Calls, MoveNamed(s), Active(s), page[s].cookie > 0,
         Read(s, page[s].cookie), result'[s] = Seen(s)
  PROVE  SnapshotOf(s)' /\ NamesOf(s)' /\ [Atomic!Next]_(Atomic!vars)
<1> TypeOK
  BY DEF AtomicInv, NamedTypeOK
<1>1. /\ page[s].cookie \in Nat /\ Seen(s) \in SUBSET live
      /\ \A e \in live : IndexOf(e) < page[s].cookie => e \in Seen(s)
  BY MissedIsFinite DEF AtomicInv, Snapshot, SnapshotOf
<1>2. PhaseOf(s) = "pending" /\ AnswerOf(s) = {} /\ pc[s] # "idle"
  BY DEF PhaseOf, AnswerOf, HandedOf, Active
<1>3. /\ clones \in [Calls -> SUBSET ((1 .. Len(dns)) \X Dns)]
      /\ since \in [Calls -> SUBSET ((1 .. Len(dns)) \X Dns)]
  BY DEF AtomicInv, NamedTypeOK
<1>4. Active(s)' => since'[s] = since[s]
  BY <1>2, <1>3 DEF MoveNamed
<1>5. /\ Directory \subseteq since[s] /\ Faithful(clones[s], Seen(s), since[s])
      /\ s \notin Plain /\ \A e \in Seen(s) : IndexOf(e) < page[s].cookie
  BY <1>1 DEF AtomicInv, NamesInv, NamesOf, SeenInv, SeenOf
<1>6. /\ SnapshotOf(s)' /\ NamesOf(s)'
      /\ \/ PhaseOf(s)' = "pending" /\ AnswerOf(s)' = {} /\ since'[s] = since[s]
         \/ /\ PhaseOf(s)' = "taken" /\ since'[s] = since[s]
            /\ Faithful(AnswerOf(s)', live, since[s])
         \/ PhaseOf(s)' = "failed" /\ AnswerOf(s)' = {} /\ since'[s] = {}
  BY <1>1, <1>2, <1>4, <1>5, ReadMoves DEF AtomicInv
<1>7. [Atomic!Next]_(Atomic!vars)
  BY <1>2, <1>3, <1>6, OneMovesAlone, OneCallMoves DEF AtomicInv
<1> QED
  BY <1>6, <1>7

\* A call returns after its last page.
LEMMA ReturnIsAtomic ==
  ASSUME AtomicInv, NEW s \in Calls, MoveNamed(s), Active(s), page[s].cookie = 0,
         pc'[s] = "done", page' = page, result'[s] = Seen(s)
  PROVE  SnapshotOf(s)' /\ NamesOf(s)' /\ [Atomic!Next]_(Atomic!vars)
<1>1. /\ clones \in [Calls -> SUBSET ((1 .. Len(dns)) \X Dns)]
      /\ since \in [Calls -> SUBSET ((1 .. Len(dns)) \X Dns)]
  BY DEF AtomicInv, NamedTypeOK
<1>2. clones'[s] = clones[s] /\ since'[s] = {} /\ ~Active(s)'
  BY <1>1 DEF MoveNamed, Active
<1>3. /\ PhaseOf(s) = "taken" /\ HandedOf(s) = Seen(s)
      /\ PhaseOf(s)' = "done" /\ HandedOf(s)' = Seen(s)
      /\ SnapshotOf(s)' /\ NamesOf(s)'
  BY <1>2 DEF PhaseOf, HandedOf, Active, Seen, SnapshotOf, NamesOf
<1>4. AnswerOf(s)' = AnswerOf(s)
  BY <1>2, <1>3 DEF AnswerOf
<1>5. [Atomic!Next]_(Atomic!vars)
  BY <1>1, <1>2, <1>3, <1>4, OneMovesAlone, OneCallMoves DEF AtomicInv
<1> QED
  BY <1>3, <1>5

LEMMA MoveIsAtomic ==
  ASSUME AtomicInv, NEW s \in Calls, MoveNamed(s)
  PROVE  SnapshotOf(s)' /\ NamesOf(s)' /\ [Atomic!Next]_(Atomic!vars)
<1> TypeOK
  BY DEF AtomicInv, NamedTypeOK
<1>1. /\ clones \in [Calls -> SUBSET ((1 .. Len(dns)) \X Dns)]
      /\ since \in [Calls -> SUBSET ((1 .. Len(dns)) \X Dns)]
  BY DEF AtomicInv, NamedTypeOK
<1>2. CASE Start(s)
  BY <1>2, StartIsAtomic
<1>3. CASE Collect(s)
  <2>1. Active(s) /\ result'[s] = Seen(s)
    BY <1>3 DEF Collect, TypeOK, Active, Seen
  <2>2. CASE page[s].cookie = 0 /\ pc' = [pc EXCEPT ![s] = "done"] /\ UNCHANGED page
    <3>1. pc'[s] = "done"
      BY <2>2 DEF TypeOK
    <3> QED
      BY <2>1, <2>2, <3>1, ReturnIsAtomic
  <2>3. CASE page[s].cookie > 0 /\ Read(s, page[s].cookie)
    BY <2>1, <2>3, NextPageIsAtomic
  <2> QED
    BY <1>3, <2>2, <2>3 DEF Collect
<1>4. CASE Yield(s)
  <2>1. /\ pc[s] = "waiting" /\ page' = page /\ result'[s] = Seen(s)
        /\ pc'[s] = "yielded"
    BY <1>4 DEF Yield, TypeOK, Seen
  <2>2. /\ Active(s) /\ Active(s)' /\ Seen(s)' = Seen(s)
        /\ clones'[s] = clones[s] /\ since'[s] = since[s]
    BY <1>1, <2>1 DEF Active, Seen, MoveNamed
  <2>3. /\ live' = live /\ Directory' = Directory
        /\ \A e : IndexOf(e)' = IndexOf(e)
    BY OneMovesAlone DEF AtomicInv
  <2>4. SnapshotOf(s)' /\ PhaseOf(s)' = PhaseOf(s)
    BY <2>1, <2>2, <2>3 DEF AtomicInv, Snapshot, SnapshotOf, PhaseOf
  <2>5. HandedOf(s)' = HandedOf(s)
    BY <2>2, <2>4 DEF HandedOf, PhaseOf, Seen
  <2>6. AnswerOf(s)' = AnswerOf(s)
    BY <2>2, <2>5 DEF AnswerOf
  <2>7. NamesOf(s)'
    BY <2>1, <2>2, <2>3 DEF AtomicInv, NamesInv, NamesOf
  <2>8. [Atomic!Next]_(Atomic!vars)
    BY <1>1, <2>2, <2>4, <2>6, OneMovesAlone, OneCallMoves DEF AtomicInv
  <2> QED
    BY <2>4, <2>7, <2>8
<1>5. CASE Pull(s)
  <2>1. pc[s] = "yielded" /\ result' = result
    BY <1>5 DEF Pull
  <2>2. Active(s) /\ result'[s] = Seen(s)
    BY <2>1 DEF Active, Seen, AtomicInv, MissedInv, MissedOf
  <2>3. CASE page[s].cookie = 0 /\ pc' = [pc EXCEPT ![s] = "done"] /\ UNCHANGED page
    <3>1. pc'[s] = "done"
      BY <2>3 DEF TypeOK
    <3> QED
      BY <2>2, <2>3, <3>1, ReturnIsAtomic
  <2>4. CASE page[s].cookie > 0 /\ Read(s, page[s].cookie)
    BY <2>2, <2>4, NextPageIsAtomic
  <2> QED
    BY <1>5, <2>3, <2>4 DEF Pull
<1>6. CASE Stop(s)
  <2>1. pc[s] = "yielded" /\ pc'[s] = "stopped"
    BY <1>6 DEF Stop, TypeOK
  <2>2. since'[s] = {}
    BY <1>1, <2>1 DEF MoveNamed, Active
  <2>3. /\ PhaseOf(s) \in {"pending", "taken"}
        /\ PhaseOf(s)' = "failed" /\ AnswerOf(s)' = {} /\ SnapshotOf(s)' /\ NamesOf(s)'
    BY <2>1 DEF PhaseOf, AnswerOf, HandedOf, Active, SnapshotOf, NamesOf
  <2>4. [Atomic!Next]_(Atomic!vars)
    BY <1>1, <2>2, <2>3, OneMovesAlone, OneCallMoves DEF AtomicInv
  <2> QED
    BY <2>3, <2>4
<1> QED
  BY <1>2, <1>3, <1>4, <1>5, <1>6 DEF MoveNamed, Move

\* Tasks that add or rename entries.
LEMMA OthersAreAtomic ==
  ASSUME DelDns = {}, AtomicInv, OthersNamed
  PROVE  Snapshot' /\ NamesInv' /\ Atomic!Change
<1> TypeOK
  BY DEF AtomicInv, NamedTypeOK
<1>1. UNCHANGED callVars /\ UNCHANGED clones
  BY DEF OthersNamed, OtherTasks, Add, Del, Rename, Unbind
<1>2. ASSUME live' = live, NEW s \in Calls
      PROVE  /\ SnapshotOf(s)'
             /\ PhaseOf(s)' = PhaseOf(s) /\ AnswerOf(s)' = AnswerOf(s)
  <2>1. /\ live' \ live = {} /\ Cardinality(live)' = Cardinality(live)
        /\ Cardinality(live) \in Nat /\ Cardinality(live) <= Cardinality(live)'
        /\ \A e \in live : IndexOf(e)' = IndexOf(e)
    BY <1>2, LiveIsFinite DEF IndexOf
  <2> QED
    BY <1>1, <1>2, <2>1, OthersKeepSnapshot DEF AtomicInv, Snapshot, callVars
<1>3. ASSUME NEW dn \in NewDns, Add(dn), NEW s \in Calls
      PROVE  /\ SnapshotOf(s)'
             /\ PhaseOf(s)' = PhaseOf(s) /\ AnswerOf(s)' = AnswerOf(s)
  <2>1. PICK new \in Nat :
          /\ live' = live \cup {new}
          /\ \A e \in live : e \in Nat /\ e < new
    <3>1. Len(dns) + 1 \in Nat /\ \A e \in live : e \in Nat /\ e < Len(dns) + 1
      BY DEF TypeOK, DirTypeOK
    <3> QED
      BY <1>3, <3>1 DEF Add, AddEntry
  <2>2. \A e \in live : IndexOf(e)' = IndexOf(e)
    <3>1. TAKE e \in live
    <3>2. {f \in live' : f < e} = {f \in live : f < e}
      BY <2>1
    <3> QED
      BY <3>2 DEF IndexOf
  <2>3. IndexOf(new)' = Cardinality(live)
    <3>1. {f \in live' : f < new} = live
      BY <2>1
    <3> QED
      BY <2>1, <3>1 DEF IndexOf
  <2>4. Cardinality(live') = Cardinality(live) + 1 /\ Cardinality(live) \in Nat
    BY <2>1, LiveIsFinite, FS_AddElement, new \notin live
  <2>5. /\ \A e \in live' \ live : IndexOf(e)' = Cardinality(live)
        /\ Cardinality(live) <= Cardinality(live)
        /\ Cardinality(live) <= Cardinality(live)' /\ Cardinality(live)' \in Nat
    BY <2>1, <2>3, <2>4
  <2> QED
    BY <1>1, <2>1, <2>2, <2>4, <2>5, OthersKeepSnapshot DEF AtomicInv, Snapshot, callVars
<1>4. ASSUME NEW s \in Calls
      PROVE  /\ SnapshotOf(s)'
             /\ PhaseOf(s)' = PhaseOf(s) /\ AnswerOf(s)' = AnswerOf(s)
  BY <1>2, <1>3
  DEF OthersNamed, OtherTasks, Rename, RenameEntry, Unbind, DropHandle
<1>5. ASSUME NEW s \in Calls PROVE NamesOf(s)'
  <2>1. NamesOf(s) /\ since'[s] = IF Active(s) THEN since[s] \cup Directory' ELSE since[s]
    BY DEF AtomicInv, NamesInv, OthersNamed
  <2>2. /\ pc'[s] = pc[s] /\ clones'[s] = clones[s] /\ Seen(s)' = Seen(s)
        /\ (Active(s)' <=> Active(s))
    BY <1>1 DEF callVars, Seen, Active
  <2> QED
    BY <2>1, <2>2 DEF NamesOf, Faithful, Active
<1>6. \A s \in Calls : Active(s) <=> PhaseOf(s) \in {"pending", "taken"}
  BY DEF PhaseOf
<1>7. Atomic!Change
  BY <1>4, <1>6 DEF Atomic!Change, OthersNamed
<1> QED
  BY <1>4, <1>5, <1>7 DEF Snapshot, NamesInv

LEMMA StepIsAtomic ==
  ASSUME DelDns = {}, AtomicInv, [NamedNext]_namedVars
  PROVE  Snapshot' /\ NamesInv' /\ [Atomic!Next]_(Atomic!vars)
<1>1. CASE OthersNamed
  BY <1>1, OthersAreAtomic DEF Atomic!Next
<1>2. ASSUME NEW s \in Calls, MoveNamed(s)
      PROVE  Snapshot' /\ NamesInv' /\ [Atomic!Next]_(Atomic!vars)
  <2>1. \A t \in Calls \ {s} : SnapshotOf(t)' /\ NamesOf(t)'
    BY <1>2, OneMovesAlone DEF AtomicInv
  <2>2. SnapshotOf(s)' /\ NamesOf(s)' /\ [Atomic!Next]_(Atomic!vars)
    BY <1>2, MoveIsAtomic
  <2> QED
    BY <2>1, <2>2 DEF Snapshot, NamesInv
<1>3. CASE UNCHANGED namedVars
  <2>1. UNCHANGED <<dns, live, pc, page, result, clones, since>>
    BY <1>3 DEF namedVars, vars, dirVars, callVars
  <2>2. Directory' = Directory /\ \A s \in Calls : PhaseOf(s)' = PhaseOf(s)
    BY <2>1 DEF Directory, PhaseOf, Active
  <2>3. \A s \in Calls : AnswerOf(s)' = AnswerOf(s)
    BY <2>1, <2>2 DEF AnswerOf, HandedOf
  <2>4. Snapshot' /\ NamesInv'
    BY <2>1, <2>2
    DEF AtomicInv, Snapshot, SnapshotOf, NamesInv, NamesOf, Active, Seen, IndexOf
  <2> QED
    BY <2>1, <2>2, <2>3, <2>4 DEF Atomic!vars
<1> QED
  BY <1>1, <1>2, <1>3 DEF NamedNext

\* When no task deletes entries, for any directory, any calls and any page size:
\* a search, paged or not, answers with the entries of the directory at one
\* instant, each once and under a name it had while the search ran.
THEOREM PagedSearchIsAtomic ==
  ASSUME DelDns = {}
  PROVE  NamedSpec => ImplementsAtomicSearch
<1>1. NamedInit => Inv /\ MissedInv /\ Snapshot /\ NamesInv /\ Atomic!Init
  <2>1. ASSUME NamedInit, NEW s \in Calls
        PROVE  /\ PhaseOf(s) = "idle" /\ AnswerOf(s) = {} /\ ~Active(s)
               /\ clones[s] = {} /\ since[s] = {}
    BY <2>1 DEF NamedInit, Init, PhaseOf, AnswerOf, Active
  <2>2. NamedInit => Inv
    BY InitInv DEF NamedInit
  <2> QED
    BY <2>1, <2>2 DEF NamedInit, Init, MissedInv, MissedOf, Snapshot, SnapshotOf,
                      NamesInv, NamesOf, Active, Atomic!Init
<1>2. [NamedNext]_namedVars => [Next]_vars
  BY DEF NamedNext, MoveNamed, OthersNamed, Next, namedVars
<1>3. TypeOK /\ MissedInv /\ [Next]_vars => MissedInv'
  BY StepMissed
<1>4. NamedTypeOK /\ Inv /\ MissedInv /\ Snapshot /\ NamesInv /\ [NamedNext]_namedVars
        => Snapshot' /\ NamesInv' /\ [Atomic!Next]_(Atomic!vars)
  BY StepIsAtomic DEF Inv, AtomicInv
<1>5. Inv => TypeOK
  BY DEF Inv
<1> QED
  BY <1>1, <1>2, <1>3, <1>4, <1>5, NamedInitType, StepNamedType, StepInv, PTL
  DEF NamedSpec, ImplementsAtomicSearch, Atomic!Spec
===============================================================================
