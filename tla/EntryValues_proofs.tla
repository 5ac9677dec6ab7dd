-------------------------- MODULE EntryValues_proofs --------------------------
(***************************************************************************)
(* The properties of EntryValues, for any number of attributes, arrays and *)
(* values: that the entry and the caller share only the arrays the caller  *)
(* gave to add() in an object (SharesOnlyWhatWasGiven), that a search      *)
(* loses no value (SearchKeepsEveryValue), that compare() agrees with it   *)
(* (CompareFindsWhatSearchReturned) and that the last change of a modify   *)
(* holds (LastChangeHolds).  The parts are: the n-th element of a set of   *)
(* numbers, which Allocate and At are built on; what Allocate and the end  *)
(* of a step do to references; one lemma per action; the theorems.         *)
(***************************************************************************)
EXTENDS EntryValues, FiniteSetTheorems, TLAPS

-------------------------------------------------------------------------------
(* The inductive invariant *)

Arrays(cells) == {Array(c) : c \in cells}
EntrySlot(cells) == {Nothing} \cup TextValue \cup Arrays(cells)
ResultSlot(cells) == {Nothing} \cup Value \cup Arrays(cells)

TypeOK ==
  /\ DOMAIN heap \in SUBSET Cells
  /\ heap \in [DOMAIN heap -> Seq(Value)]
  /\ entry = NoEntry \/ entry \in [Attributes -> EntrySlot(DOMAIN heap)]
  /\ arg \in {Nothing} \cup Arrays(DOMAIN heap)
  /\ found = NoEntry \/ found \in [Attributes -> ResultSlot(DOMAIN heap)]
  /\ given \in SUBSET DOMAIN heap

\* The caller holds no array of the entry but those it gave to add().
HoldsOnlyGiven == Held \cap CellsIn(Range(entry)) \subseteq given

\* What the last search returned has the values the entry still has.
FoundIsCurrent ==
  current /\ found # NoEntry =>
    /\ entry # NoEntry
    /\ \A a \in Attributes : Values(heap, found[a]) = Values(heap, entry[a])

Inv == TypeOK /\ HoldsOnlyGiven /\ FoundIsCurrent

-------------------------------------------------------------------------------
(* The n-th free cell *)

LEMMA RankType ==
  ASSUME NEW S \in SUBSET Nat, IsFiniteSet(S), NEW e \in S
  PROVE  Rank(S, e) \in 0 .. Cardinality(S) - 1
<1>1. {d \in S : d < e} \in SUBSET (S \ {e})
  OBVIOUS
<1>2. /\ IsFiniteSet(S \ {e}) /\ Cardinality(S \ {e}) = Cardinality(S) - 1
      /\ Cardinality(S) \in Nat
  BY FS_RemoveElement, FS_CardinalityType
<1>3. IsFiniteSet({d \in S : d < e}) /\ Rank(S, e) <= Cardinality(S) - 1
  BY <1>1, <1>2, FS_Subset DEF Rank
<1>4. Rank(S, e) \in Nat
  BY <1>3, FS_CardinalityType DEF Rank
<1> QED
  BY <1>2, <1>3, <1>4

LEMMA RankGrows ==
  ASSUME NEW S \in SUBSET Nat, IsFiniteSet(S), NEW e \in S, NEW f \in S, e < f
  PROVE  Rank(S, e) < Rank(S, f)
<1> DEFINE Before(x) == {d \in S : d < x}
<1>1. IsFiniteSet(Before(e)) /\ IsFiniteSet(Before(f))
  BY FS_Subset, Before(e) \in SUBSET S, Before(f) \in SUBSET S
<1>2. e \notin Before(e) /\ Before(e) \cup {e} \in SUBSET Before(f)
  <2>1. e \in Nat /\ f \in Nat /\ \A d \in S : d \in Nat
    OBVIOUS
  <2>2. \A d \in S : d < e => d < f
    BY <2>1
  <2>3. ~(e < e)
    BY <2>1
  <2> QED
    BY <2>2, <2>3
<1>3. Cardinality(Before(e) \cup {e}) = Cardinality(Before(e)) + 1
  BY <1>1, <1>2, FS_AddElement
<1>4. Cardinality(Before(e) \cup {e}) <= Cardinality(Before(f))
  BY <1>1, <1>2, FS_Subset
<1>5. Cardinality(Before(e)) \in Nat /\ Cardinality(Before(f)) \in Nat
  BY <1>1, FS_CardinalityType
<1> QED
  BY <1>3, <1>4, <1>5 DEF Rank

LEMMA RankTells ==
  ASSUME NEW S \in SUBSET Nat, IsFiniteSet(S), NEW e \in S, NEW f \in S,
         Rank(S, e) = Rank(S, f)
  PROVE  e = f
<1>1. e \in Nat /\ f \in Nat /\ Rank(S, e) \in Int
  BY RankType
<1>2. ~(e < f) /\ ~(f < e)
  BY <1>1, RankGrows
<1> QED
  BY <1>1, <1>2

\* Every number below the size of a set is the rank of an element.
LEMMA RankOnto ==
  ASSUME NEW S \in SUBSET Nat, IsFiniteSet(S)
  PROVE  \A i \in 0 .. Cardinality(S) - 1 : \E e \in S : Rank(S, e) = i
<1> DEFINE g == [e \in S |-> Rank(S, e)]
           n == Cardinality(S)
<1>1. n \in Nat
  BY FS_CardinalityType
<1>2. g \in Injection(S, 0 .. n - 1)
  BY RankType, RankTells DEF Injection, IsInjective
<1>3. IsFiniteSet(0 .. n - 1) /\ Cardinality(0 .. n - 1) = n
  <2>1. ASSUME NEW k \in Nat
        PROVE  IsFiniteSet(0 .. k - 1) /\ Cardinality(0 .. k - 1) = k
    BY FS_Interval
  <2> QED
    BY <1>1, <2>1
<1>4. g \in Surjection(S, 0 .. n - 1)
  <2> HIDE DEF g, n
  <2>1. n = Cardinality(S)
    BY DEF n
  <2> QED
    BY <1>2, <1>3, <2>1, FS_Injection
<1> QED
  BY <1>4 DEF Surjection

-------------------------------------------------------------------------------
(* Allocate *)

New(slots) == {a \in DOMAIN slots : slots[a].kind = "new"}

\* What Allocate does: it keeps what there is, and each new array is in a cell
\* that was free.
Allocated(h, slots, r) ==
  /\ DOMAIN h \subseteq DOMAIN r.heap /\ DOMAIN r.heap \subseteq Cells
  /\ r.heap = [c \in DOMAIN r.heap |-> r.heap[c]]
  /\ \A c \in DOMAIN h : r.heap[c] = h[c]
  /\ \A c \in DOMAIN r.heap \ DOMAIN h : \E a \in New(slots) : r.heap[c] = slots[a].values
  /\ r.slots = [a \in DOMAIN slots |-> r.slots[a]]
  /\ \A a \in DOMAIN slots \ New(slots) : r.slots[a] = slots[a]
  /\ \A a \in New(slots) : \E c \in DOMAIN r.heap \ DOMAIN h :
       r.slots[a] = Array(c) /\ r.heap[c] = slots[a].values

LEMMA Allocation ==
  ASSUME NEW h, DOMAIN h \in SUBSET Cells, NEW slots,
         New(slots) \in SUBSET Nat, IsFiniteSet(New(slots)),
         Cardinality(New(slots)) <= Cardinality(Cells \ DOMAIN h)
  PROVE  Allocated(h, slots, Allocate(h, slots))
<1> DEFINE new == New(slots)
           free == Cells \ DOMAIN h
           cellOf == [a \in new |-> Nth(free, Rank(new, a))]
           written == [c \in Range(cellOf) |-> slots[CHOOSE a \in new : cellOf[a] = c].values]
           r == [heap |-> [c \in DOMAIN h \cup Range(cellOf) |->
                             IF c \in DOMAIN h THEN h[c] ELSE written[c]],
                 slots |-> [a \in DOMAIN slots |-> IF a \in new THEN Array(cellOf[a])
                                                   ELSE slots[a]]]
<1>1. Allocate(h, slots) = r
  BY DEF Allocate, New
<1>2. free \in SUBSET Nat /\ IsFiniteSet(free)
  <2>1. free \in SUBSET Cells
    OBVIOUS
  <2> QED
    BY <2>1, BoundsAssumption, FS_Subset
<1>3. ASSUME NEW a \in new
      PROVE  cellOf[a] \in free /\ Rank(free, cellOf[a]) = Rank(new, a)
  <2>1. /\ Rank(new, a) \in 0 .. Cardinality(new) - 1
        /\ Cardinality(new) \in Nat /\ Cardinality(free) \in Nat
    BY <1>2, RankType, FS_CardinalityType
  <2>2. Rank(new, a) \in 0 .. Cardinality(free) - 1
    BY <2>1
  <2>3. \E c \in free : Rank(free, c) = Rank(new, a)
    BY <1>2, <2>2, RankOnto
  <2> QED
    BY <2>3 DEF Nth
<1>4. \A a, b \in new : cellOf[a] = cellOf[b] => a = b
  BY <1>3, RankTells
<1> HIDE DEF cellOf
<1>5. DOMAIN cellOf = new
  BY DEF cellOf
<1>6. \A a \in new : cellOf[a] \in Range(cellOf)
                     /\ written[cellOf[a]] = slots[a].values
  BY <1>4, <1>5 DEF Range
<1>7. \A c \in Range(cellOf) : c \in free /\ \E a \in new : cellOf[a] = c
  BY <1>3, <1>5 DEF Range
<1>8. /\ DOMAIN r.heap = DOMAIN h \cup Range(cellOf)
      /\ r.heap = [c \in DOMAIN h \cup Range(cellOf) |-> IF c \in DOMAIN h THEN h[c]
                                                          ELSE written[c]]
  OBVIOUS
<1>9. \A c \in DOMAIN h : r.heap[c] = h[c]
  BY <1>8
<1>10. \A c \in Range(cellOf) : c \in DOMAIN r.heap \ DOMAIN h /\ r.heap[c] = written[c]
  BY <1>7, <1>8
<1>11. \A a \in new : \E c \in DOMAIN r.heap \ DOMAIN h :
         r.slots[a] = Array(c) /\ r.heap[c] = slots[a].values
  <2>1. \A a \in new : r.heap[cellOf[a]] = slots[a].values
    BY <1>6, <1>10
  <2>2. \A a \in new : r.slots[a] = Array(cellOf[a])
    BY DEF New
  <2>3. \A a \in new : cellOf[a] \in DOMAIN r.heap \ DOMAIN h
    BY <1>6, <1>10
  <2> HIDE DEF r, written
  <2> QED
    BY <2>1, <2>2, <2>3
<1>12. \A c \in DOMAIN r.heap \ DOMAIN h : \E a \in new : r.heap[c] = slots[a].values
  <2>1. \A c \in DOMAIN r.heap \ DOMAIN h : c \in Range(cellOf)
    BY <1>8
  <2> QED
    BY <1>6, <1>7, <1>10, <2>1
<1>13. DOMAIN r.heap \subseteq Cells
  BY <1>7, <1>8
<1>14. r.heap = [c \in DOMAIN r.heap |-> r.heap[c]]
  BY <1>8
<1>15. /\ r.slots = [a \in DOMAIN slots |-> r.slots[a]]
       /\ \A a \in DOMAIN slots \ new : r.slots[a] = slots[a]
  OBVIOUS
<1> HIDE DEF r
<1>16. DOMAIN h \subseteq DOMAIN r.heap
  BY <1>8
<1> QED
  BY <1>1, <1>9, <1>11, <1>12, <1>13, <1>14, <1>15, <1>16 DEF Allocated

-------------------------------------------------------------------------------
(* The end of a step *)

LEMMA Kinds ==
  /\ \A v \in Value : v.kind \in {"text", "buffer"} /\ v.string \in Seq(STRING)
  /\ \A v \in TextValue : v.kind = "text" /\ v.string \in Seq(STRING)
  /\ Nothing.kind = "nothing"
  /\ \A cells : \A s \in Arrays(cells) :
       s.kind = "array" /\ s.cell \in cells /\ s = Array(s.cell)
  BY DEF Value, TextValue, Nothing, Arrays, Array

\* The slots of an entry, of a result and of an argument refer to these cells only.
LEMMA SlotCells ==
  ASSUME NEW cells
  PROVE  /\ \A s \in EntrySlot(cells) : s.kind \in {"nothing", "text", "array"}
         /\ \A s \in ResultSlot(cells) : s.kind \in {"nothing", "text", "buffer", "array"}
         /\ \A s \in ResultSlot(cells) : s.kind = "array" => s.cell \in cells /\ s \in Arrays(cells)
         /\ \A s \in ResultSlot(cells) : s.kind = "nothing" => s = Nothing
         /\ \A s \in ResultSlot(cells) : s.kind \in {"text", "buffer"} => s \in Value
         /\ \A s \in EntrySlot(cells) : s \in ResultSlot(cells)
         /\ \A s \in {Nothing} \cup Arrays(cells) : s \in ResultSlot(cells)
  BY Kinds DEF EntrySlot, ResultSlot, Value

\* References that are kept refer to the same values as before.
Refers(h, e, a, f) ==
  /\ DOMAIN h \in SUBSET Cells
  /\ h \in [DOMAIN h -> Seq(Value)]
  /\ e = NoEntry \/ e \in [Attributes -> EntrySlot(DOMAIN h)]
  /\ a \in {Nothing} \cup Arrays(DOMAIN h)
  /\ f = NoEntry \/ f \in [Attributes -> ResultSlot(DOMAIN h)]

LEMMA NoSlots == DOMAIN NoEntry = {} /\ Range(NoEntry) = {}
  BY DEF NoEntry, Range

LEMMA ReferKeeps ==
  ASSUME NEW h, NEW e, NEW a, NEW f, Refers(h, e, a, f), Refer(h, e, a, f),
         given' \in SUBSET DOMAIN heap'
  PROVE  /\ TypeOK'
         /\ DOMAIN heap' = CellsIn(Range(e) \cup {a} \cup Range(f))
         /\ DOMAIN heap' \subseteq DOMAIN h
         /\ \A c \in DOMAIN heap' : heap'[c] = h[c]
         /\ \A s \in Range(e) \cup {a} \cup Range(f) :
              /\ s \in ResultSlot(DOMAIN heap')
              /\ Values(heap', s) = Values(h, s)
<1> DEFINE slots == Range(e) \cup {a} \cup Range(f)
           live == CellsIn(slots)
<1>1. \A s \in slots : s \in ResultSlot(DOMAIN h)
  BY SlotCells, NoSlots DEF Refers, Range
<1>2. live \subseteq DOMAIN h
  BY <1>1, SlotCells DEF CellsIn
<1>3. heap' = [c \in live |-> h[c]] /\ entry' = e /\ arg' = a /\ found' = f
  BY DEF Refer, Restrict
<1>4. \A s \in slots : s.kind = "array" => s.cell \in live
  BY DEF CellsIn
<1> HIDE DEF live
<1>5. DOMAIN heap' = live /\ \A c \in live : heap'[c] = h[c]
  BY <1>3
<1>6. \A s \in slots : s.kind = "array" => s \in Arrays(live)
  BY <1>1, <1>4, SlotCells, Kinds DEF Arrays
<1>7. \A s \in slots : s \in ResultSlot(live)
  BY <1>1, <1>6, SlotCells DEF ResultSlot
<1>8. \A s \in slots : Values(heap', s) = Values(h, s)
  BY <1>4, <1>5 DEF Values
<1>9. e = NoEntry \/ e \in [Attributes -> EntrySlot(live)]
  <2>1. CASE e \in [Attributes -> EntrySlot(DOMAIN h)]
    <3>1. \A b \in Attributes : e[b] \in slots /\ e[b] \in EntrySlot(DOMAIN h)
      BY <2>1 DEF Range
    <3>2. \A b \in Attributes : e[b] \in EntrySlot(live)
      BY <3>1, <1>6, SlotCells, Kinds DEF EntrySlot
    <3> QED
      BY <2>1, <3>2
  <2> QED
    BY <2>1 DEF Refers
<1>10. f = NoEntry \/ f \in [Attributes -> ResultSlot(live)]
  <2>1. CASE f \in [Attributes -> ResultSlot(DOMAIN h)]
    <3>1. \A b \in Attributes : f[b] \in slots
      BY <2>1 DEF Range
    <3> QED
      BY <2>1, <3>1, <1>7
  <2> QED
    BY <2>1 DEF Refers
<1>11. a \in {Nothing} \cup Arrays(live)
  BY <1>6, Kinds DEF Refers
<1>12. heap' \in [live -> Seq(Value)] /\ live \in SUBSET Cells
  BY <1>2, <1>3 DEF Refers
<1>13. TypeOK'
  BY <1>3, <1>5, <1>9, <1>10, <1>11, <1>12 DEF TypeOK
<1> QED
  BY <1>2, <1>5, <1>7, <1>8, <1>13 DEF live

IsHeap(h) == DOMAIN h \in SUBSET Cells /\ h \in [DOMAIN h -> Seq(Value)]

\* h has what the heap has.
Extends(h, older) == DOMAIN older \subseteq DOMAIN h /\ \A c \in DOMAIN older : h[c] = older[c]

NewArrays == {NewArray(values) : values \in Seq(Value)}

LEMMA NewKinds ==
  /\ \A s \in NewArrays : s.kind = "new" /\ s.values \in Seq(Value) /\ s = NewArray(s.values)
  /\ \A s : s.kind = "new" => \A cells : s \notin ResultSlot(cells)
  BY SlotCells DEF NewArrays, NewArray

\* New arrays get cells of their own, and every slot keeps its values.
Placed(h, slots, new) ==
  /\ IsHeap(new.heap) /\ Extends(new.heap, h)
  /\ new.slots \in [DOMAIN slots -> ResultSlot(DOMAIN new.heap)]
  /\ \A a \in DOMAIN slots : Values(new.heap, new.slots[a]) = Values(h, slots[a])
  /\ \A a \in DOMAIN slots :
       IF slots[a].kind = "new" THEN new.slots[a] \in Arrays(DOMAIN new.heap \ DOMAIN h)
       ELSE new.slots[a] = slots[a]

LEMMA AllocateSlots ==
  ASSUME NEW h, IsHeap(h),
         NEW D \in SUBSET Nat, IsFiniteSet(D), Cardinality(D) <= Cardinality(Cells \ DOMAIN h),
         NEW slots \in [D -> ResultSlot(DOMAIN h) \cup NewArrays]
  PROVE  Placed(h, slots, Allocate(h, slots))
<1> DEFINE new == Allocate(h, slots)
<1>1. New(slots) \in SUBSET D /\ DOMAIN slots = D
  BY DEF New
<1>2. /\ IsFiniteSet(New(slots)) /\ Cardinality(New(slots)) <= Cardinality(D)
      /\ New(slots) \in SUBSET Nat
  BY <1>1, FS_Subset
<1>3. IsFiniteSet(Cells \ DOMAIN h)
  BY BoundsAssumption, FS_Difference
<1>4. Cardinality(New(slots)) <= Cardinality(Cells \ DOMAIN h)
  BY <1>2, <1>3, FS_CardinalityType
<1>5. Allocated(h, slots, new)
  BY <1>2, <1>4, Allocation DEF IsHeap
<1> HIDE DEF new
<1>6. \A a \in D : slots[a].kind = "new" <=> a \in New(slots)
  BY <1>1 DEF New
<1>7. \A a \in New(slots) : slots[a] \in NewArrays /\ slots[a].values \in Seq(Value)
  BY <1>1, <1>6, NewKinds
<1>8. Extends(new.heap, h)
  BY <1>5 DEF Allocated, Extends
<1>9. IsHeap(new.heap)
  <2>1. ASSUME NEW c \in DOMAIN new.heap PROVE new.heap[c] \in Seq(Value)
    <3>1. CASE c \in DOMAIN h
      BY <3>1, <1>8 DEF IsHeap, Extends
    <3>2. CASE c \notin DOMAIN h
      BY <3>2, <1>5, <1>7 DEF Allocated
    <3> QED
      BY <3>1, <3>2
  <2> QED
    BY <1>5, <2>1 DEF Allocated, IsHeap
<1>10. ASSUME NEW a \in D
       PROVE  /\ new.slots[a] \in ResultSlot(DOMAIN new.heap)
              /\ Values(new.heap, new.slots[a]) = Values(h, slots[a])
              /\ IF slots[a].kind = "new"
                 THEN new.slots[a] \in Arrays(DOMAIN new.heap \ DOMAIN h)
                 ELSE new.slots[a] = slots[a]
  <2>1. CASE a \in New(slots)
    <3>1. PICK c \in DOMAIN new.heap \ DOMAIN h :
            new.slots[a] = Array(c) /\ new.heap[c] = slots[a].values
      BY <2>1, <1>5 DEF Allocated
    <3>2. Values(h, slots[a]) = slots[a].values
      BY <2>1, <1>6 DEF Values
    <3>3. Values(new.heap, new.slots[a]) = slots[a].values
      BY <3>1 DEF Values, Array
    <3>4. new.slots[a] \in Arrays(DOMAIN new.heap \ DOMAIN h)
      BY <3>1 DEF Arrays
    <3>5. new.slots[a] \in ResultSlot(DOMAIN new.heap)
      BY <3>1 DEF ResultSlot, Arrays
    <3> QED
      BY <2>1, <1>6, <3>2, <3>3, <3>4, <3>5
  <2>2. CASE a \notin New(slots)
    <3>1. new.slots[a] = slots[a] /\ slots[a].kind # "new"
      BY <2>2, <1>1, <1>5, <1>6 DEF Allocated
    <3>2. slots[a] \in ResultSlot(DOMAIN h)
      BY <3>1, NewKinds
    <3>3. slots[a] \in ResultSlot(DOMAIN new.heap)
      BY <3>2, <1>8 DEF Extends, ResultSlot, Arrays
    <3>4. Values(new.heap, slots[a]) = Values(h, slots[a])
      BY <3>2, <1>8, SlotCells DEF Values, Extends
    <3> QED
      BY <3>1, <3>3, <3>4
  <2> QED
    BY <2>1, <2>2
<1>11. new.slots \in [D -> ResultSlot(DOMAIN new.heap)]
  BY <1>1, <1>5, <1>10 DEF Allocated
<1> QED
  BY <1>1, <1>8, <1>9, <1>10, <1>11 DEF Placed, new

LEMMA ValuesKept ==
  ASSUME NEW h, NEW older, Extends(h, older), NEW s \in ResultSlot(DOMAIN older)
  PROVE  Values(h, s) = Values(older, s) /\ s \in ResultSlot(DOMAIN h)
  BY SlotCells DEF Values, Extends, ResultSlot, Arrays

\* A step that changes no array keeps the invariant if it hands out none of the
\* entry's arrays and does not lose sight of what a search returned.
Keeps == \A c \in DOMAIN heap \cap DOMAIN heap' : heap'[c] = heap[c]

LEMMA InvKept ==
  ASSUME Inv, NEW h, NEW e, NEW a, NEW f, Refers(h, e, a, f), Refer(h, e, a, f),
         Extends(h, heap), NEW cells, given' = cells \cap DOMAIN heap',
         CellsIn({a} \cup Range(f)) \cap CellsIn(Range(e)) \subseteq cells,
         current' /\ f # NoEntry =>
           e # NoEntry /\ \A b \in Attributes : Values(h, f[b]) = Values(h, e[b])
  PROVE  Inv' /\ Keeps
<1>1. /\ TypeOK'
      /\ DOMAIN heap' = CellsIn(Range(e) \cup {a} \cup Range(f))
      /\ \A c \in DOMAIN heap' : heap'[c] = h[c]
      /\ \A s \in Range(e) \cup {a} \cup Range(f) : Values(heap', s) = Values(h, s)
  <2>1. given' \in SUBSET DOMAIN heap'
    OBVIOUS
  <2> QED
    BY <2>1, ReferKeeps
<1>2. entry' = e /\ arg' = a /\ found' = f
  BY DEF Refer
<1>3. HoldsOnlyGiven'
  <2>1. CellsIn(Range(e)) \subseteq DOMAIN heap'
    BY <1>1 DEF CellsIn
  <2> QED
    BY <1>2, <2>1 DEF HoldsOnlyGiven, Held
<1>4. FoundIsCurrent'
  <2> SUFFICES ASSUME current', f # NoEntry, NEW b \in Attributes
               PROVE  e # NoEntry /\ Values(heap', f[b]) = Values(heap', e[b])
    BY <1>2 DEF FoundIsCurrent
  <2>1. e # NoEntry
    OBVIOUS
  <2>2. f[b] \in Range(f) /\ e[b] \in Range(e)
    BY <2>1 DEF Refers, Range
  <2> QED
    BY <1>1, <2>1, <2>2
<1>5. Keeps
  BY <1>1 DEF Keeps, Extends
<1> QED
  BY <1>1, <1>3, <1>4, <1>5 DEF Inv

-------------------------------------------------------------------------------
(* The steps *)

LEMMA EntryNonEmpty == \A f : f \in [Attributes -> EntrySlot(DOMAIN heap)] => f # NoEntry
  BY BoundsAssumption DEF NoEntry

LEMMA Referred ==
  ASSUME TypeOK
  PROVE  /\ \A s \in Range(entry) : s \in EntrySlot(DOMAIN heap)
         /\ \A s \in {arg} \cup Range(found) : s \in ResultSlot(DOMAIN heap)
         /\ arg \in {Nothing} \cup Arrays(DOMAIN heap)
         /\ CellsIn(Range(entry)) \subseteq DOMAIN heap
         /\ Held \subseteq DOMAIN heap
<1>1. \A s \in Range(entry) : s \in EntrySlot(DOMAIN heap)
  BY NoSlots DEF TypeOK, Range
<1>2. \A s \in {arg} \cup Range(found) : s \in ResultSlot(DOMAIN heap)
  BY NoSlots, SlotCells DEF TypeOK, Range
<1>3. CellsIn(Range(entry)) \subseteq DOMAIN heap
  BY <1>1, SlotCells DEF CellsIn
<1>4. Held \subseteq DOMAIN heap
  BY <1>2, SlotCells DEF CellsIn, Held
<1> QED
  BY <1>1, <1>2, <1>3, <1>4 DEF TypeOK

LEMMA TypesExtend ==
  ASSUME TypeOK, NEW h, IsHeap(h), Extends(h, heap)
  PROVE  Refers(h, entry, arg, found)
<1>1. /\ EntrySlot(DOMAIN heap) \subseteq EntrySlot(DOMAIN h)
      /\ ResultSlot(DOMAIN heap) \subseteq ResultSlot(DOMAIN h)
      /\ Arrays(DOMAIN heap) \subseteq Arrays(DOMAIN h)
  BY DEF Extends, EntrySlot, ResultSlot, Arrays
<1> QED
  BY <1>1 DEF TypeOK, Refers, IsHeap

LEMMA HeapItself == TypeOK => IsHeap(heap) /\ Extends(heap, heap) /\ Refers(heap, entry, arg, found)
  BY TypesExtend DEF TypeOK, IsHeap, Extends

\* Cells of what is in one set of slots or in another.
LEMMA CellsOfUnion ==
  ASSUME NEW S, NEW T
  PROVE  CellsIn(S \cup T) = CellsIn(S) \cup CellsIn(T)
  BY DEF CellsIn

\* What a search returned stays current when a step adds cells only.
LEMMA StaysCurrent ==
  ASSUME Inv, NEW h, Extends(h, heap), current, found # NoEntry
  PROVE  entry # NoEntry /\ \A b \in Attributes : Values(h, found[b]) = Values(h, entry[b])
<1>1. entry # NoEntry /\ \A b \in Attributes : Values(heap, found[b]) = Values(heap, entry[b])
  BY DEF Inv, FoundIsCurrent
<1>2. ASSUME NEW b \in Attributes
      PROVE  found[b] \in ResultSlot(DOMAIN heap) /\ entry[b] \in ResultSlot(DOMAIN heap)
  BY <1>1, SlotCells DEF Inv, TypeOK
<1>3. ASSUME NEW b \in Attributes
      PROVE  Values(h, found[b]) = Values(h, entry[b])
  <2>1. Values(h, found[b]) = Values(heap, found[b])
    BY <1>2, ValuesKept
  <2>2. Values(h, entry[b]) = Values(heap, entry[b])
    BY <1>2, ValuesKept
  <2> QED
    BY <1>1, <2>1, <2>2
<1> QED
  BY <1>1, <1>3

LEMMA MakeArrayKeeps == Inv /\ MakeArray => Inv' /\ Keeps
<1> SUFFICES ASSUME Inv, NEW values \in Payloads,
                    LET new == Allocate(heap, <<NewArray(values)>>) IN
                      /\ Room
                      /\ Refer(new.heap, entry, new.slots[1], found)
                      /\ Remember(given, current, [step |-> "make"])
             PROVE  Inv' /\ Keeps
  BY DEF MakeArray
<1> DEFINE slots == <<NewArray(values)>>
           new == Allocate(heap, slots)
<1>1. TypeOK /\ IsHeap(heap)
  BY HeapItself DEF Inv
<1>2. slots \in [{1} -> ResultSlot(DOMAIN heap) \cup NewArrays] /\ slots[1].kind = "new"
  BY ValuesAssumption DEF NewArrays, NewArray
<1>3. IsFiniteSet({1}) /\ Cardinality({1}) = 1
  BY FS_Singleton
<1>4. Cardinality({1}) <= Cardinality(Cells \ DOMAIN heap)
  <2>1. Cardinality(Attributes) \in Nat /\ Cardinality(Attributes) # 0
    BY BoundsAssumption, FS_CardinalityType, FS_EmptySet
  <2>2. Cardinality(Cells \ DOMAIN heap) \in Nat
    BY BoundsAssumption, FS_CardinalityType, FS_Difference
  <2> QED
    BY <1>3, <2>1, <2>2 DEF Room
<1>5. Placed(heap, slots, new)
  <2>1. {1} \in SUBSET Nat
    OBVIOUS
  <2> HIDE DEF slots
  <2> QED
    BY <1>1, <1>2, <1>3, <1>4, <2>1, AllocateSlots
<1>6. Refer(new.heap, entry, new.slots[1], found) /\ given' = given \cap DOMAIN heap'
      /\ current' = current
  BY DEF Remember
<1>7. DOMAIN slots = {1}
  OBVIOUS
<1> HIDE DEF new, slots
<1>8. /\ IsHeap(new.heap) /\ Extends(new.heap, heap)
      /\ new.slots[1] \in Arrays(DOMAIN new.heap \ DOMAIN heap)
  BY <1>2, <1>5, <1>7 DEF Placed
<1>9. Refers(new.heap, entry, new.slots[1], found)
  BY <1>1, <1>8, TypesExtend DEF Refers, Arrays
<1>10. CellsIn({new.slots[1]} \cup Range(found)) \cap CellsIn(Range(entry)) \subseteq given
  <2>1. CellsIn({new.slots[1]}) \cap DOMAIN heap = {}
    BY <1>8, Kinds DEF CellsIn
  <2>2. CellsIn(Range(found)) \cap CellsIn(Range(entry)) \subseteq given
    BY CellsOfUnion DEF Inv, HoldsOnlyGiven, Held
  <2> QED
    BY <1>1, <2>1, <2>2, Referred, CellsOfUnion
<1>11. current' /\ found # NoEntry =>
         entry # NoEntry
         /\ \A b \in Attributes : Values(new.heap, found[b]) = Values(new.heap, entry[b])
  BY <1>6, <1>8, StaysCurrent
<1> QED
  BY <1>6, <1>8, <1>9, <1>10, <1>11, InvKept

LEMMA TakeArrayKeeps == Inv /\ TakeArray => Inv' /\ Keeps
<1> SUFFICES ASSUME Inv, NEW a \in DOMAIN found, found[a].kind = "array",
                    Refer(heap, entry, found[a], found),
                    Remember(given, current, [step |-> "take"])
             PROVE  Inv' /\ Keeps
  BY DEF TakeArray
<1>1. TypeOK /\ Extends(heap, heap) /\ Refers(heap, entry, arg, found)
  BY HeapItself DEF Inv
<1>2. found[a] \in Range(found) /\ found[a] \in Arrays(DOMAIN heap)
  <2>1. found[a] \in Range(found)
    BY DEF Range
  <2> QED
    BY <1>1, <2>1, Referred, SlotCells
<1>3. Refers(heap, entry, found[a], found)
  BY <1>1, <1>2 DEF Refers
<1>4. CellsIn({found[a]} \cup Range(found)) \cap CellsIn(Range(entry)) \subseteq given
  <2>1. {found[a]} \cup Range(found) = Range(found)
    BY <1>2
  <2> QED
    BY <2>1, CellsOfUnion DEF Inv, HoldsOnlyGiven, Held
<1>5. given' = given \cap DOMAIN heap' /\ current' = current
  BY DEF Remember
<1>6. current' /\ found # NoEntry =>
        entry # NoEntry
        /\ \A b \in Attributes : Values(heap, found[b]) = Values(heap, entry[b])
  BY <1>1, <1>5, StaysCurrent
<1> QED
  BY <1>1, <1>3, <1>4, <1>5, <1>6, InvKept

LEMMA DelKeeps == Inv /\ Del => Inv' /\ Keeps
<1> SUFFICES ASSUME Inv, Refer(heap, NoEntry, arg, found),
                    Remember(given, FALSE, [step |-> "del"])
             PROVE  Inv' /\ Keeps
  BY DEF Del
<1>1. TypeOK /\ Extends(heap, heap) /\ Refers(heap, NoEntry, arg, found)
  BY HeapItself DEF Inv, Refers
<1>2. CellsIn({arg} \cup Range(found)) \cap CellsIn(Range(NoEntry)) \subseteq given
  BY NoSlots DEF CellsIn
<1>3. given' = given \cap DOMAIN heap' /\ ~current'
  BY DEF Remember
<1> QED
  BY <1>1, <1>2, <1>3, InvKept

LEMMA CompareKeeps == Inv /\ Compare => Inv' /\ Keeps
<1> SUFFICES ASSUME Inv, UNCHANGED <<heap, entry, arg, found>>,
                    given' = given \cap DOMAIN heap', current' = current
             PROVE  Inv' /\ Keeps
  BY DEF Compare, Remember
<1>1. given' = given
  BY DEF Inv, TypeOK
<1>2. TypeOK'
  BY <1>1 DEF Inv, TypeOK
<1>3. HoldsOnlyGiven'
  BY <1>1 DEF Inv, HoldsOnlyGiven, Held, CellsIn, Range
<1>4. FoundIsCurrent'
  BY DEF Inv, FoundIsCurrent, Values
<1> QED
  BY <1>2, <1>3, <1>4 DEF Inv, Keeps

\* The caller's own writes reach the entry only through an array it gave.
WriteIsSeparate ==
  last'.step = "write" /\ last'.cell \notin given =>
    \A a \in DOMAIN entry : Values(heap', entry'[a]) = Values(heap, entry[a])

LEMMA WriteKeeps == Inv /\ Write => Inv' /\ WriteIsSeparate
<1> DEFINE Emptied(h, cell) == h = [heap EXCEPT ![cell] = <<>>]
<1> SUFFICES ASSUME Inv, NEW cell \in Held,
                    NEW h, Emptied(h, cell), Refer(h, entry, arg, found),
                    Remember(given, FALSE, [step |-> "write", cell |-> cell])
             PROVE  Inv' /\ WriteIsSeparate
  BY DEF Write
<1>1. TypeOK /\ Refers(heap, entry, arg, found)
  BY HeapItself DEF Inv
<1>2. /\ cell \in DOMAIN heap /\ DOMAIN h = DOMAIN heap
      /\ \A c \in DOMAIN heap : c # cell => h[c] = heap[c]
      /\ h \in [DOMAIN heap -> Seq(Value)]
  BY <1>1, Referred DEF TypeOK
<1>3. /\ given' = given \cap DOMAIN heap' /\ given' \in SUBSET DOMAIN heap' /\ ~current'
      /\ last' = [step |-> "write", cell |-> cell]
  BY DEF Remember
<1> HIDE DEF Emptied
<1>4. Refers(h, entry, arg, found)
  BY <1>1, <1>2 DEF Refers
<1>6. /\ TypeOK'
      /\ DOMAIN heap' = CellsIn(Range(entry) \cup {arg} \cup Range(found))
      /\ \A s \in Range(entry) \cup {arg} \cup Range(found) : Values(heap', s) = Values(h, s)
  <2>1. given' \in SUBSET DOMAIN heap'
    BY <1>3
  <2> QED
    BY <1>4, <2>1, ReferKeeps
<1>7. entry' = entry /\ arg' = arg /\ found' = found
  BY DEF Refer
<1>8. HoldsOnlyGiven'
  <2>1. CellsIn(Range(entry)) \subseteq DOMAIN heap'
    BY <1>6, CellsOfUnion
  <2> QED
    BY <1>3, <1>7, <2>1 DEF Inv, HoldsOnlyGiven, Held
<1>9. ASSUME cell \notin given, NEW a \in DOMAIN entry
      PROVE  Values(heap', entry'[a]) = Values(heap, entry[a])
  <2>1. entry[a] \in Range(entry) /\ entry[a] \in EntrySlot(DOMAIN heap)
    BY <1>1, Referred DEF Range
  <2>2. cell \notin CellsIn(Range(entry))
    BY <1>9 DEF Inv, HoldsOnlyGiven
  <2>3. entry[a].kind = "array" => entry[a].cell # cell /\ entry[a].cell \in DOMAIN heap
    BY <1>1, <2>1, <2>2, Referred DEF CellsIn
  <2>4. Values(h, entry[a]) = Values(heap, entry[a])
    BY <1>2, <2>3 DEF Values
  <2> QED
    BY <1>6, <1>7, <2>1, <2>4
<1>10. WriteIsSeparate
  BY <1>3, <1>9 DEF WriteIsSeparate
<1> QED
  BY <1>3, <1>6, <1>8, <1>10 DEF Inv, FoundIsCurrent

LEMMA AddObjectKeeps == Inv /\ AddObject => Inv' /\ Keeps
<1> SUFFICES ASSUME Inv, NEW slots \in [Attributes -> Arguments \cup Scalars],
                    Refer(heap, slots, arg, found),
                    Remember(given \cup CellsIn(Range(slots)), FALSE, [step |-> "add"])
             PROVE  Inv' /\ Keeps
  BY DEF AddObject
<1>1. TypeOK /\ Extends(heap, heap) /\ Refers(heap, entry, arg, found)
  BY HeapItself DEF Inv
<1>2. Arguments \cup Scalars \subseteq EntrySlot(DOMAIN heap)
  BY <1>1, Referred, ValuesAssumption DEF Arguments, EntrySlot
<1>3. Refers(heap, slots, arg, found)
  BY <1>1, <1>2 DEF Refers
<1>4. /\ given' = (given \cup CellsIn(Range(slots))) \cap DOMAIN heap'
      /\ ~current'
  BY DEF Remember
<1>5. CellsIn({arg} \cup Range(found)) \cap CellsIn(Range(slots))
        \subseteq given \cup CellsIn(Range(slots))
  OBVIOUS
<1> QED
  BY <1>1, <1>3, <1>4, <1>5, InvKept

\* A step that makes an entry of slots of the old one, and of new arrays.
LEMMA OwnSlots ==
  ASSUME Inv, Room,
         NEW slots \in [Attributes -> ResultSlot(DOMAIN heap) \cup NewArrays],
         \A b \in Attributes : slots[b] \in TextValue \cup {Nothing} \cup NewArrays
                                 \/ slots[b] \in Range(entry)
  PROVE  LET new == Allocate(heap, slots) IN
         /\ Placed(heap, slots, new)
         /\ Refers(new.heap, new.slots, arg, found)
         /\ CellsIn({arg} \cup Range(found)) \cap CellsIn(Range(new.slots)) \subseteq given
<1> DEFINE new == Allocate(heap, slots)
<1>1. TypeOK /\ IsHeap(heap)
  BY HeapItself DEF Inv
<1>2. DOMAIN slots = Attributes
  OBVIOUS
<1>3. Placed(heap, slots, new)
  <2>1. Attributes \in SUBSET Nat /\ IsFiniteSet(Attributes)
    BY BoundsAssumption
  <2>2. Cardinality(Attributes) <= Cardinality(Cells \ DOMAIN heap)
    <3>1. Cardinality(Attributes) \in Nat /\ Cardinality(Cells \ DOMAIN heap) \in Nat
      BY BoundsAssumption, FS_CardinalityType, FS_Difference
    <3> QED
      BY <3>1 DEF Room
  <2> QED
    BY <1>1, <2>1, <2>2, AllocateSlots
<1> HIDE DEF new
<1>4. IsHeap(new.heap) /\ Extends(new.heap, heap) /\ new.slots \in [Attributes -> ResultSlot(DOMAIN new.heap)]
  BY <1>2, <1>3 DEF Placed
<1>5. ASSUME NEW b \in Attributes
      PROVE  /\ new.slots[b] \in EntrySlot(DOMAIN new.heap)
             /\ \/ new.slots[b] \in Arrays(DOMAIN new.heap \ DOMAIN heap)
                \/ new.slots[b].kind # "array"
                \/ new.slots[b] \in Range(entry)
  <2>1. CASE slots[b].kind = "new"
    <3>1. new.slots[b] \in Arrays(DOMAIN new.heap \ DOMAIN heap)
      BY <1>2, <1>3, <2>1 DEF Placed
    <3>2. new.slots[b] \in EntrySlot(DOMAIN new.heap)
      BY <3>1 DEF EntrySlot, Arrays
    <3> QED
      BY <3>1, <3>2
  <2>2. CASE slots[b].kind # "new"
    <3>1. new.slots[b] = slots[b]
      BY <1>2, <1>3, <2>2 DEF Placed
    <3>2. slots[b] \in TextValue \cup {Nothing} \/ slots[b] \in Range(entry)
      BY <2>2, NewKinds
    <3>3. slots[b] \in EntrySlot(DOMAIN heap)
      BY <1>1, <3>2, Referred DEF EntrySlot
    <3>4. slots[b] \in EntrySlot(DOMAIN new.heap)
      BY <1>4, <3>3 DEF EntrySlot, Arrays, Extends
    <3>5. slots[b] \in TextValue \cup {Nothing} => slots[b].kind # "array"
      BY Kinds
    <3> QED
      BY <3>1, <3>2, <3>4, <3>5
  <2> QED
    BY <2>1, <2>2
<1>6. Refers(new.heap, new.slots, arg, found)
  <2>1. new.slots \in [Attributes -> EntrySlot(DOMAIN new.heap)]
    BY <1>4, <1>5
  <2> QED
    BY <1>1, <1>4, <2>1, TypesExtend DEF Refers
<1>7. ASSUME NEW c \in CellsIn({arg} \cup Range(found)), c \in CellsIn(Range(new.slots))
      PROVE  c \in given
  <2>1. PICK b \in Attributes : new.slots[b].kind = "array" /\ new.slots[b].cell = c
    BY <1>4, <1>7 DEF CellsIn, Range
  <2>2. c \in Held /\ c \in DOMAIN heap
    BY <1>1, Referred DEF Held
  <2>3. new.slots[b] \in Range(entry)
    <3>1. new.slots[b] \notin Arrays(DOMAIN new.heap \ DOMAIN heap)
      BY <2>1, <2>2, Kinds
    <3> QED
      BY <1>5, <2>1, <3>1
  <2>4. c \in CellsIn(Range(entry))
    BY <2>1, <2>3 DEF CellsIn
  <2> QED
    BY <2>2, <2>4 DEF Inv, HoldsOnlyGiven
<1> QED
  BY <1>3, <1>6, <1>7 DEF new

LEMMA AddAttributesKeeps == Inv /\ AddAttributes => Inv' /\ Keeps
<1> SUFFICES ASSUME Inv, Room, NEW slots \in [Attributes -> Arguments],
                    LET new == Allocate(heap, [a \in Attributes |-> CopiedSlot(slots[a])]) IN
                      /\ Refer(new.heap, new.slots, arg, found)
                      /\ Remember(given, FALSE, [step |-> "add"])
             PROVE  Inv' /\ Keeps
  BY DEF AddAttributes
<1> DEFINE copies == [a \in Attributes |-> CopiedSlot(slots[a])]
           new == Allocate(heap, copies)
<1>1. TypeOK
  BY DEF Inv
<1>2. ASSUME NEW b \in Attributes PROVE copies[b] \in {Nothing} \cup NewArrays
  <2>1. slots[b] \in {Nothing} \cup Arrays(DOMAIN heap)
    BY <1>1, Referred DEF Arguments
  <2>2. slots[b].kind = "array" => Values(heap, slots[b]) \in Seq(Value)
    BY <1>1, <2>1, Kinds DEF Values, TypeOK
  <2> QED
    BY <2>1, <2>2, Kinds DEF CopiedSlot, NewArrays
<1>3. copies \in [Attributes -> ResultSlot(DOMAIN heap) \cup NewArrays]
  BY <1>2 DEF ResultSlot
<1>4. Refer(new.heap, new.slots, arg, found) /\ given' = given \cap DOMAIN heap' /\ ~current'
  BY DEF Remember
<1> HIDE DEF copies
<1>5. /\ Placed(heap, copies, new)
      /\ Refers(new.heap, new.slots, arg, found)
      /\ CellsIn({arg} \cup Range(found)) \cap CellsIn(Range(new.slots)) \subseteq given
  BY <1>2, <1>3, OwnSlots
<1> HIDE DEF new
<1>6. Extends(new.heap, heap)
  BY <1>5 DEF Placed
<1> QED
  BY <1>4, <1>5, <1>6, InvKept

-------------------------------------------------------------------------------
(* modify *)

\* The values at some positions: a sequence of exactly these.
LEMMA AtTakes ==
  ASSUME NEW values \in Seq(Value), NEW kept \in SUBSET DOMAIN values
  PROVE  /\ At(values, kept) \in Seq(Value)
         /\ \A k \in DOMAIN At(values, kept) : \E i \in kept : At(values, kept)[k] = values[i]
         /\ \A i \in kept : \E k \in DOMAIN At(values, kept) : At(values, kept)[k] = values[i]
         /\ At(values, kept) = <<>> => kept = {}
<1> DEFINE n == Cardinality(kept)
<1>1. kept \in SUBSET Nat /\ IsFiniteSet(kept) /\ n \in Nat
  <2>1. Len(values) \in Nat /\ DOMAIN values = 1 .. Len(values)
    OBVIOUS
  <2>2. IsFiniteSet(1 .. Len(values))
    BY <2>1, FS_Interval
  <2> QED
    BY <2>1, <2>2, FS_Subset, FS_CardinalityType
<1>2. ASSUME NEW k \in 1 .. n
      PROVE  Nth(kept, k - 1) \in kept /\ Rank(kept, Nth(kept, k - 1)) = k - 1
  <2>1. k - 1 \in 0 .. n - 1
    BY <1>1
  <2>2. \E e \in kept : Rank(kept, e) = k - 1
    BY <1>1, <2>1, RankOnto
  <2> QED
    BY <2>2 DEF Nth
<1>3. ASSUME NEW i \in kept PROVE \E k \in 1 .. n : Nth(kept, k - 1) = i
  <2>1. Rank(kept, i) \in 0 .. n - 1
    BY <1>1, RankType
  <2>2. Rank(kept, i) + 1 \in 1 .. n /\ (Rank(kept, i) + 1) - 1 = Rank(kept, i)
    BY <1>1, <2>1
  <2>3. Nth(kept, Rank(kept, i)) = i
    BY <1>1, <1>2, <2>2, RankTells
  <2> QED
    BY <2>2, <2>3
<1>4. /\ DOMAIN At(values, kept) = 1 .. n
      /\ \A k \in 1 .. n : At(values, kept)[k] = values[Nth(kept, k - 1)]
  BY DEF At
<1>5. At(values, kept) \in Seq(Value)
  <2>1. At(values, kept) = [k \in 1 .. n |-> values[Nth(kept, k - 1)]]
    BY DEF At
  <2>2. \A k \in 1 .. n : values[Nth(kept, k - 1)] \in Value
    BY <1>2
  <2> HIDE DEF n
  <2> QED
    BY <1>1, <2>1, <2>2
<1>6. At(values, kept) = <<>> => kept = {}
  BY <1>3, <1>4
<1> QED
  BY <1>2, <1>3, <1>4, <1>5, <1>6

LEMMA SpreadIsTyped ==
  ASSUME TypeOK, NEW s \in EntrySlot(DOMAIN heap) \cup NewArrays
  PROVE  Spread(s) \in Seq(Value) /\ Values(heap, s) \in Seq(Value)
<1>1. CASE s \in TextValue
  <2>1. s.kind = "text" /\ s.string \in Seq(STRING)
    BY <1>1, Kinds
  <2>2. \A i \in DOMAIN s.string : Text(<<s.string[i]>>) \in Value
    BY <2>1 DEF Text, Value, TextValue
  <2>3. Len(s.string) \in Nat /\ DOMAIN s.string = 1 .. Len(s.string)
    BY <2>1
  <2>4. [i \in DOMAIN s.string |-> Text(<<s.string[i]>>)] \in Seq(Value)
    BY <2>2, <2>3
  <2>5. <<s>> \in Seq(Value) /\ Values(heap, s) = <<s>>
    BY <1>1, <2>1 DEF Value, Values
  <2> QED
    BY <2>1, <2>4, <2>5 DEF Spread
<1>2. CASE s \in Arrays(DOMAIN heap)
  BY <1>2, Kinds DEF Spread, Values, TypeOK
<1>3. CASE s \in NewArrays
  BY <1>3, NewKinds DEF Spread, Values
<1>4. CASE s = Nothing
  BY <1>4, Kinds DEF Spread, Values
<1> QED
  BY <1>1, <1>2, <1>3, <1>4 DEF EntrySlot

Change == [operation : {"add", "delete", "replace"}, attribute : Attributes, values : Arguments]

LEMMA ArgumentValues ==
  ASSUME TypeOK, NEW change \in Change
  PROVE  Values(heap, change.values) \in Seq(Value)
<1>1. change.values \in EntrySlot(DOMAIN heap)
  BY Referred DEF Change, Arguments, EntrySlot
<1> QED
  BY <1>1, SpreadIsTyped

\* The state of the loop: a slot is as it was, or has an array of its own.
Half(state) ==
  /\ state = [slots |-> state.slots, thrown |-> state.thrown]
  /\ state.thrown \in BOOLEAN
  /\ state.slots = [b \in Attributes |-> state.slots[b]]
  /\ \A b \in Attributes : state.slots[b] \in {Nothing, entry[b]} \cup NewArrays

Throws(state, change) ==
  /\ change.operation = "delete" /\ Values(heap, change.values) # <<>>
  /\ LacksFilter(state.slots[change.attribute])

\* One round: it fails, or the attribute it names gets what the change says.
LEMMA Round ==
  ASSUME TypeOK, entry # NoEntry, NEW state, Half(state), NEW change \in Change
  PROVE  LET after == ApplyChange(state, change)
             slot == state.slots[change.attribute]
             values == Values(heap, change.values)
         IN /\ Half(after)
            /\ Spread(slot) \in Seq(Value)
            /\ state.thrown \/ Throws(state, change) => after.thrown
            /\ ~(state.thrown \/ Throws(state, change)) =>
                 /\ ~after.thrown
                 /\ \A b \in Attributes \ {change.attribute} : after.slots[b] = state.slots[b]
                 /\ after.slots[change.attribute] =
                      CASE change.operation = "add" -> NewArray(Spread(slot) \o values)
                        [] change.operation = "delete" ->
                             IF values = <<>> THEN Nothing
                             ELSE UnlessEmpty(Filtered(Spread(slot), values))
                        [] OTHER -> UnlessEmpty(values)
<1> DEFINE a == change.attribute
           slot == state.slots[a]
           values == Values(heap, change.values)
           after == ApplyChange(state, change)
           changed == CASE change.operation = "add" -> NewArray(Spread(slot) \o values)
                        [] change.operation = "delete" ->
                             IF values = <<>> THEN Nothing
                             ELSE UnlessEmpty(Filtered(Spread(slot), values))
                        [] OTHER -> UnlessEmpty(values)
<1>1. a \in Attributes /\ values \in Seq(Value)
      /\ change.operation \in {"add", "delete", "replace"}
  BY ArgumentValues DEF Change
<1>2. Spread(slot) \in Seq(Value)
  <2>1. entry[a] \in EntrySlot(DOMAIN heap)
    BY <1>1 DEF TypeOK
  <2>2. slot \in EntrySlot(DOMAIN heap) \cup NewArrays
    BY <1>1, <2>1 DEF Half, EntrySlot
  <2> QED
    BY <2>2, SpreadIsTyped
<1>3. Filtered(Spread(slot), values) \in Seq(Value)
  BY <1>2, AtTakes DEF Filtered
<1>4. changed \in {Nothing} \cup NewArrays
  <2>1. \A v \in Seq(Value) : NewArray(v) \in NewArrays /\ UnlessEmpty(v) \in {Nothing} \cup NewArrays
    BY DEF NewArrays, UnlessEmpty
  <2>2. Spread(slot) \o values \in Seq(Value)
    BY <1>1, <1>2
  <2> QED
    BY <1>1, <1>3, <2>1, <2>2
<1>5. after = IF state.thrown \/ Throws(state, change) THEN [state EXCEPT !.thrown = TRUE]
              ELSE [state EXCEPT !.slots[a] = changed]
  BY DEF ApplyChange, Throws
<1> HIDE DEF changed, after
<1>6. CASE state.thrown \/ Throws(state, change)
  <2>1. after = [slots |-> state.slots, thrown |-> TRUE]
    BY <1>5, <1>6 DEF Half
  <2>2. Half(after) /\ after.thrown
    BY <2>1 DEF Half
  <2> QED
    BY <1>2, <1>6, <2>2 DEF after
<1>7. CASE ~(state.thrown \/ Throws(state, change))
  <2>1. after = [slots |-> [state.slots EXCEPT ![a] = changed], thrown |-> state.thrown]
    BY <1>5, <1>7 DEF Half
  <2>2. /\ DOMAIN state.slots = Attributes
        /\ \A b \in Attributes : after.slots[b] = IF b = a THEN changed ELSE state.slots[b]
        /\ after.slots = [b \in Attributes |-> after.slots[b]]
    BY <1>1, <2>1 DEF Half
  <2>3. Half(after)
    BY <1>4, <2>1, <2>2 DEF Half
  <2> QED
    BY <1>1, <1>2, <1>7, <2>1, <2>2, <2>3 DEF after, changed
<1> QED
  BY <1>6, <1>7

Start == [slots |-> entry, thrown |-> FALSE]

\* The fold over no, one or two changes, unfolded.
LEMMA FoldOfTwo ==
  ASSUME NEW changes, DOMAIN changes \in {{}, {1}, {1, 2}}
  PROVE  Modified(changes) =
           IF DOMAIN changes = {} THEN Start
           ELSE IF DOMAIN changes = {1} THEN ApplyChange(Start, changes[1])
           ELSE ApplyChange(ApplyChange(Start, changes[1]), changes[2])
<1> DEFINE D == DOMAIN changes
           F(iter, s) ==
             IF s = {} THEN Start
             ELSE LET x == Max(s) IN ApplyChange(iter[s \ {x}], changes[x])
           Folded(iter) == iter = [s \in SUBSET D |-> F(iter, s)]
           It(s) == IF s = {} THEN Start
                    ELSE IF s = {1} THEN ApplyChange(Start, changes[1])
                    ELSE IF s = {2} THEN ApplyChange(Start, changes[2])
                    ELSE ApplyChange(ApplyChange(Start, changes[1]), changes[2])
           it == [s \in SUBSET D |-> It(s)]
<1>1. Max({1}) = 1 /\ Max({2}) = 2 /\ Max({1, 2}) = 2
  <2>1. (\A x \in {1} : x >= 1) /\ (\A x \in {2} : x >= 2)
    OBVIOUS
  <2>2. Max({1, 2}) = 2
    <3>1. 2 \in {1, 2} /\ \A y \in {1, 2} : 2 >= y
      OBVIOUS
    <3>2. \A x \in {1, 2} : (\A y \in {1, 2} : x >= y) => x = 2
      BY 2 \in {1, 2}, ~(1 >= 2)
    <3> QED
      BY <3>1, <3>2 DEF Max
  <2> QED
    BY <2>1, <2>2 DEF Max
<1>2. \A s \in SUBSET D : s = {} \/ s = {1} \/ s = {2} \/ s = {1, 2}
  OBVIOUS
<1>3. \A s \in SUBSET D : It(s) = F(it, s)
  <2> SUFFICES ASSUME NEW s \in SUBSET D PROVE It(s) = F(it, s)
    OBVIOUS
  <2> HIDE DEF D
  <2>1. CASE s = {}
    BY <2>1
  <2>2. CASE s = {1}
    <3>1. s \ {1} = {} /\ it[{}] = Start
      BY <2>2
    <3> QED
      BY <1>1, <2>2, <3>1
  <2>3. CASE s = {2}
    <3>1. s \ {2} = {} /\ it[{}] = Start /\ s # {1}
      BY <2>3
    <3> QED
      BY <1>1, <2>3, <3>1
  <2>4. CASE s = {1, 2}
    <3>1. s \ {2} = {1} /\ it[{1}] = ApplyChange(Start, changes[1]) /\ s # {1} /\ s # {2}
      BY <2>4
    <3> QED
      BY <1>1, <2>4, <3>1
  <2> QED
    BY <1>2, <2>1, <2>2, <2>3, <2>4
<1>4. Folded(it)
  BY <1>3
<1>5. ASSUME NEW iter, Folded(iter) PROVE iter[D] = It(D)
  <2>1. \A s \in SUBSET D : iter[s] = F(iter, s)
    BY <1>5
  <2> HIDE DEF Folded
  <2>2. CASE D = {}
    BY <2>1, <2>2
  <2>3. CASE D = {1}
    <3>1. iter[{}] = Start
      BY <2>1
    <3>2. D \ {1} = {}
      BY <2>3
    <3> QED
      BY <1>1, <2>1, <2>3, <3>1, <3>2
  <2>4. CASE D = {1, 2}
    <3>1. iter[{}] = Start
      BY <2>1
    <3>2. {1} \ {1} = {} /\ {1} \in SUBSET D
      BY <2>4
    <3>3. iter[{1}] = ApplyChange(Start, changes[1])
      BY <1>1, <2>1, <3>1, <3>2
    <3>4. D \ {2} = {1} /\ D # {1} /\ D # {2}
      BY <2>4
    <3> QED
      BY <1>1, <2>1, <2>4, <3>3, <3>4
  <2> QED
    BY <2>2, <2>3, <2>4
<1>6. Modified(changes) = (CHOOSE iter : Folded(iter))[D]
  BY DEF Modified, FoldLeft, MapThenFoldSet, Start
<1> HIDE DEF Folded, it
<1>7. Modified(changes) = It(D)
  BY <1>4, <1>5, <1>6
<1> QED
  BY <1>7

LEMMA ChangesAreShort ==
  ASSUME NEW changes \in ChangeLists
  PROVE  \/ DOMAIN changes = {1} /\ Len(changes) = 1 /\ changes[1] \in Change
         \/ /\ DOMAIN changes = {1, 2} /\ Len(changes) = 2
            /\ changes[1] \in Change /\ changes[2] \in Change
<1>1. PICK m \in 0 .. 2 : changes \in [1 .. m -> Change]
  BY DEF ChangeLists, BoundedSeq, SeqOf, Change
<1>2. changes # <<>>
  BY DEF ChangeLists
<1>3. m \in {1, 2}
  <2>1. m = 0 => changes = <<>>
    BY <1>1
  <2> QED
    BY <1>2, <2>1
<1>4. CASE m = 1
  BY <1>1, <1>4
<1>5. CASE m = 2
  BY <1>1, <1>5
<1> QED
  BY <1>3, <1>4, <1>5

LEMMA ChangesAreFunctions ==
  ASSUME NEW changes \in ChangeLists, DOMAIN changes = {1, 2}
  PROVE  changes \in [1 .. 2 -> Change]
<1>1. PICK m \in 0 .. 2 : changes \in [1 .. m -> Change]
  BY DEF ChangeLists, BoundedSeq, SeqOf, Change
<1>2. m = 2
  BY <1>1
<1> QED
  BY <1>1, <1>2

\* A round that fails changes nothing.
LEMMA RoundThrows ==
  ASSUME NEW state, Half(state), NEW change, state.thrown \/ Throws(state, change)
  PROVE  ApplyChange(state, change).slots = state.slots
<1>1. ApplyChange(state, change) = [state EXCEPT !.thrown = TRUE]
  BY DEF ApplyChange, Throws
<1> QED
  BY <1>1 DEF Half

LEMMA StartIsHalf == TypeOK /\ entry # NoEntry => Half(Start)
  BY DEF TypeOK, Half, Start

LEMMA ModifiedIsHalf ==
  ASSUME TypeOK, entry # NoEntry, NEW changes \in ChangeLists
  PROVE  Half(Modified(changes))
<1>1. Half(Start)
  BY StartIsHalf
<1>2. CASE DOMAIN changes = {1} /\ changes[1] \in Change
  <2>1. DOMAIN changes \in {{}, {1}, {1, 2}} /\ DOMAIN changes # {}
    BY <1>2
  <2>2. Modified(changes) = ApplyChange(Start, changes[1])
    BY <1>2, <2>1, FoldOfTwo
  <2> QED
    BY <1>1, <1>2, <2>2, Round
<1>3. CASE DOMAIN changes = {1, 2} /\ changes[1] \in Change /\ changes[2] \in Change
  <2>1. Modified(changes) = ApplyChange(ApplyChange(Start, changes[1]), changes[2])
    BY <1>3, FoldOfTwo
  <2>2. Half(ApplyChange(Start, changes[1]))
    BY <1>1, <1>3, Round
  <2> QED
    BY <1>3, <2>1, <2>2, Round
<1> QED
  BY <1>2, <1>3, ChangesAreShort

LEMMA ModifyKeeps == Inv /\ Modify => Inv' /\ Keeps
<1> SUFFICES ASSUME Inv, entry # NoEntry, Room, NEW changes \in ChangeLists,
                    LET state == Modified(changes)
                        new == Allocate(heap, state.slots) IN
                      /\ Refer(new.heap, new.slots, arg, found)
                      /\ given' = given \cap DOMAIN heap' /\ ~current'
             PROVE  Inv' /\ Keeps
  BY DEF Modify, Store, Remember
<1> DEFINE slots == Modified(changes).slots
           new == Allocate(heap, slots)
<1>1. TypeOK /\ Half(Modified(changes))
  BY ModifiedIsHalf DEF Inv
<1>2. ASSUME NEW b \in Attributes
      PROVE  /\ slots[b] \in ResultSlot(DOMAIN heap) \cup NewArrays
             /\ slots[b] \in TextValue \cup {Nothing} \cup NewArrays \/ slots[b] \in Range(entry)
  <2>1. slots[b] \in {Nothing, entry[b]} \cup NewArrays
    BY <1>1 DEF Half
  <2>2. entry[b] \in Range(entry) /\ entry[b] \in ResultSlot(DOMAIN heap)
    BY <1>1, SlotCells DEF TypeOK, Range
  <2> QED
    BY <2>1, <2>2 DEF ResultSlot
<1>3. slots \in [Attributes -> ResultSlot(DOMAIN heap) \cup NewArrays]
  BY <1>1, <1>2 DEF Half
<1>4. Refer(new.heap, new.slots, arg, found)
  OBVIOUS
<1> HIDE DEF slots
<1>5. /\ Placed(heap, slots, new)
      /\ Refers(new.heap, new.slots, arg, found)
      /\ CellsIn({arg} \cup Range(found)) \cap CellsIn(Range(new.slots)) \subseteq given
  BY <1>2, <1>3, OwnSlots
<1> HIDE DEF new
<1>6. Extends(new.heap, heap)
  BY <1>5 DEF Placed
<1> QED
  BY <1>4, <1>5, <1>6, InvKept

-------------------------------------------------------------------------------
(* search *)

LEMMA MinAndMax ==
  ASSUME NEW S \in SUBSET Nat, IsFiniteSet(S), S # {}
  PROVE  /\ Min(S) \in S /\ \A x \in S : Min(S) <= x
         /\ Max(S) \in S /\ \A x \in S : Max(S) >= x
<1>1. Cardinality(S) \in Nat /\ Cardinality(S) # 0
  BY FS_CardinalityType, FS_EmptySet
<1>2. 0 \in 0 .. Cardinality(S) - 1 /\ Cardinality(S) - 1 \in 0 .. Cardinality(S) - 1
  BY <1>1
<1>3. PICK e \in S : Rank(S, e) = 0
  BY <1>2, RankOnto
<1>4. \A x \in S : e <= x
  <2> SUFFICES ASSUME NEW x \in S, x < e PROVE FALSE
    OBVIOUS
  <2>1. Rank(S, x) \in Nat /\ Rank(S, x) < 0
    BY <1>3, RankGrows, RankType
  <2> QED
    BY <2>1
<1>5. PICK f \in S : Rank(S, f) = Cardinality(S) - 1
  BY <1>2, RankOnto
<1>6. \A x \in S : f >= x
  <2> SUFFICES ASSUME NEW x \in S, f < x PROVE FALSE
    OBVIOUS
  <2>1. Rank(S, x) \in 0 .. Cardinality(S) - 1 /\ Cardinality(S) - 1 < Rank(S, x)
    BY <1>5, RankGrows, RankType
  <2> QED
    BY <1>1, <2>1
<1>7. Min(S) \in S /\ \A x \in S : Min(S) <= x
  BY <1>4 DEF Min
<1>8. Max(S) \in S /\ \A x \in S : Max(S) >= x
  BY <1>6 DEF Max
<1> QED
  BY <1>7, <1>8

\* trim() takes away blanks at both ends, all of them and nothing else.
LEMMA TrimTrims ==
  ASSUME NEW s \in Seq(STRING)
  PROVE  Trim(s) \in Seq(STRING) /\ IsTrimOf(Trim(s), s)
<1> DEFINE kept == DOMAIN s \ Positions(s, Blank)
<1>1. /\ Len(s) \in Nat /\ DOMAIN s = 1 .. Len(s)
      /\ \A k \in DOMAIN s : k \in kept <=> s[k] # Blank
  BY DEF Positions
<1>2. CASE kept = {}
  <2>1. Trim(s) = <<>> /\ SubSeq(s, 0 + 1, 0) = <<>>
    BY <1>2 DEF Trim
  <2>2. 0 \in 0 .. Len(s) /\ \A k \in DOMAIN s : s[k] = Blank
    BY <1>1, <1>2
  <2> QED
    BY <2>1, <2>2 DEF IsTrimOf
<1>3. CASE kept # {}
  <2>1. kept \in SUBSET Nat /\ IsFiniteSet(kept) /\ kept \subseteq 1 .. Len(s)
    <3>1. kept \in SUBSET (1 .. Len(s))
      BY <1>1
    <3>2. IsFiniteSet(1 .. Len(s))
      BY <1>1, FS_Interval
    <3> QED
      BY <3>1, <3>2, FS_Subset
  <2> DEFINE i == Min(kept)
             j == Max(kept)
  <2> HIDE DEF kept
  <2>2. /\ i \in kept /\ j \in kept /\ \A x \in kept : i <= x /\ j >= x
    BY <1>3, <2>1, MinAndMax
  <2> HIDE DEF i, j
  <2>3. /\ i \in 1 .. Len(s) /\ j \in 1 .. Len(s) /\ i <= j
        /\ s[i] # Blank /\ s[j] # Blank
    BY <1>1, <2>1, <2>2
  <2>4. Trim(s) = SubSeq(s, i, j)
    BY <1>3 DEF Trim, kept, i, j
  <2>5. /\ SubSeq(s, i, j) \in Seq(STRING)
        /\ Len(SubSeq(s, i, j)) = j - i + 1
        /\ SubSeq(s, i, j)[1] = s[i] /\ SubSeq(s, i, j)[j - i + 1] = s[j]
    BY <1>1, <2>3
  <2>6. /\ i - 1 \in 0 .. Len(s) /\ j \in 0 .. Len(s) /\ (i - 1) + 1 = i
        /\ \A k \in DOMAIN s : k \in i .. j \/ s[k] = Blank
    BY <1>1, <2>1, <2>2, <2>3
  <2>7. Trim(s)[1] # Blank /\ Last(Trim(s)) # Blank
    BY <2>3, <2>4, <2>5 DEF Last
  <2>8. \E l, m \in 0 .. Len(s) :
          /\ Trim(s) = SubSeq(s, l + 1, m)
          /\ \A k \in DOMAIN s : k \in l + 1 .. m \/ s[k] = Blank
    BY <2>4, <2>6
  <2> QED
    BY <2>4, <2>5, <2>7, <2>8 DEF IsTrimOf
<1> QED
  BY <1>2, <1>3

\* What trimming may do to a list of values.
Trimmed(is, was) ==
  /\ is \in Seq(Value) /\ Len(is) = Len(was)
  /\ \A i \in DOMAIN was : IF was[i].kind = "text" THEN IsTrimOf(is[i].string, was[i].string)
                           ELSE is[i] = was[i]

LEMMA TrimValueTrims ==
  ASSUME NEW v \in {Nothing} \cup Value \cup NewArrays
  PROVE  /\ TrimValue(v) \in {Nothing} \cup Value \cup NewArrays
         /\ TrimValue(v).kind = v.kind
         /\ Values(heap, v) \in Seq(Value)
         /\ Trimmed(Values(heap, TrimValue(v)), Values(heap, v))
<1>1. \A w \in Value : w.kind = "text" =>
        Text(Trim(w.string)) \in Value /\ IsTrimOf(Trim(w.string), w.string)
  BY Kinds, TrimTrims DEF Text, Value, TextValue
<1>2. CASE v \in Value
  <2>1. /\ v.kind = "text" => TrimValue(v) = Text(Trim(v.string))
        /\ v.kind # "text" => TrimValue(v) = v
    BY <1>2, Kinds DEF TrimValue
  <2>2. TrimValue(v) \in Value /\ TrimValue(v).kind = v.kind
    BY <1>1, <1>2, <2>1 DEF Text
  <2>3. Values(heap, v) = <<v>> /\ Values(heap, TrimValue(v)) = <<TrimValue(v)>>
    BY <1>2, <2>2, Kinds DEF Values
  <2>4. v.kind = "text" => IsTrimOf(TrimValue(v).string, v.string)
    BY <1>1, <1>2, <2>1 DEF Text
  <2>5. <<v>> \in Seq(Value) /\ <<TrimValue(v)>> \in Seq(Value)
    BY <1>2, <2>2
  <2>6. Trimmed(<<TrimValue(v)>>, <<v>>)
    BY <2>1, <2>4, <2>5 DEF Trimmed
  <2> QED
    BY <1>2, <2>2, <2>3, <2>5, <2>6
<1>3. CASE v \in NewArrays
  <2> DEFINE was == v.values
             is == [i \in DOMAIN was |-> IF was[i].kind = "text" THEN Text(Trim(was[i].string))
                                         ELSE was[i]]
  <2>1. v.kind = "new" /\ was \in Seq(Value) /\ Values(heap, v) = was
    BY <1>3, NewKinds DEF Values
  <2>2. TrimValue(v) = NewArray(is)
    BY <2>1 DEF TrimValue
  <2>3. \A i \in DOMAIN was : was[i] \in Value
    BY <2>1
  <2>4. \A i \in DOMAIN was : is[i] \in Value
    BY <1>1, <2>3
  <2>5. DOMAIN is = DOMAIN was /\ DOMAIN was = 1 .. Len(was) /\ Len(was) \in Nat
    BY <2>1
  <2>6. is \in Seq(Value) /\ Len(is) = Len(was)
    <3>1. is = [i \in 1 .. Len(was) |-> is[i]]
      BY <2>5
    <3> HIDE DEF is, was
    <3> QED
      BY <2>4, <2>5, <3>1
  <2>7. Trimmed(is, was)
    BY <1>1, <2>3, <2>6 DEF Trimmed, Text
  <2> HIDE DEF is
  <2>8. Values(heap, NewArray(is)) = is /\ NewArray(is) \in NewArrays /\ NewArray(is).kind = "new"
    BY <2>6 DEF Values, NewArray, NewArrays
  <2> QED
    BY <2>1, <2>2, <2>7, <2>8
<1>4. CASE v = Nothing
  BY <1>4, Kinds DEF TrimValue, Values, Trimmed
<1> QED
  BY <1>2, <1>3, <1>4

\* matchesAttributeOption finds an attribute whatever the case of its name.
LEMMA OptionsHeeded ==
  ASSUME NEW mode \in Modes, NEW a \in Attributes
  PROVE  MatchesAttributeOption(a, mode) <=> AsksFor(mode, a)
<1>1. mode \in Mode
  BY ModesAssumption
<1>2. ASSUME mode.kind = "list"
      PROVE  \A name \in mode.names :
               ToLowerCase(name) = ToLowerCase(KeyOf(a)) <=> name.attribute = a
  <2>1. mode.names \subseteq Name
    BY <1>1, <1>2 DEF Mode
  <2>2. ASSUME NEW name \in Name
        PROVE  ToLowerCase(name) = ToLowerCase(KeyOf(a)) <=> name.attribute = a
    <3>1. ToLowerCase(name).attribute = name.attribute
      BY DEF ToLowerCase
    <3>2. ToLowerCase(KeyOf(a)).attribute = a
      BY DEF ToLowerCase, KeyOf
    <3>3. name.attribute = a => ToLowerCase(name) = ToLowerCase(KeyOf(a))
      BY DEF ToLowerCase, KeyOf
    <3> QED
      BY <3>1, <3>2, <3>3
  <2> QED
    BY <2>1, <2>2
<1> QED
  BY <1>2 DEF MatchesAttributeOption, AsksFor

\* What search returns of an attribute: the entry's values, unless they are trimmed,
\* in an array unless they are flattened.
ShapeOf(a, single, trim, is) ==
  LET was == Values(heap, entry[a])
      shaped == Shape(CloneEntry, single, trim)[a]
  IN /\ shaped \in {Nothing} \cup Value \cup NewArrays
     /\ is = Values(heap, shaped)
     /\ was \in Seq(Value)
     /\ IF MatchesAttributeOption(a, trim) THEN Trimmed(is, was) ELSE is = was
     /\ entry[a].kind = "array" => (shaped.kind = "new" <=> ~MatchesAttributeOption(a, single) \/ Len(was) # 1)

LEMMA Shapes ==
  ASSUME TypeOK, entry # NoEntry, NEW a \in Attributes, NEW single, NEW trim
  PROVE  ShapeOf(a, single, trim, Values(heap, Shape(CloneEntry, single, trim)[a]))
<1> DEFINE was == Values(heap, entry[a])
           copy == CopiedSlot(entry[a])
           flat == IF MatchesAttributeOption(a, single) THEN Flattened(copy) ELSE copy
<1>1. entry[a] \in EntrySlot(DOMAIN heap)
  BY DEF TypeOK
<1>2. was \in Seq(Value)
  BY <1>1, SpreadIsTyped
<1>3. /\ copy \in {Nothing} \cup TextValue \cup NewArrays
      /\ copy.kind = "new" <=> entry[a].kind = "array"
      /\ Values(heap, copy) = was
  <2>1. CASE entry[a].kind = "array"
    BY <1>2, <2>1 DEF CopiedSlot, NewArrays, NewArray, Values
  <2>2. CASE entry[a].kind # "array"
    <3>1. entry[a] \in {Nothing} \cup TextValue /\ copy = entry[a]
      BY <1>1, <2>2, Kinds DEF CopiedSlot, EntrySlot
    <3>2. copy.kind # "new"
      BY <3>1, Kinds
    <3> QED
      BY <2>2, <3>1, <3>2
  <2> QED
    BY <2>1, <2>2
<1> HIDE DEF was, copy
<1>4. /\ flat \in {Nothing} \cup Value \cup NewArrays
      /\ Values(heap, flat) = was
      /\ copy.kind = "new" => (flat.kind = "new" <=> ~MatchesAttributeOption(a, single) \/ Len(was) # 1)
  <2>1. CASE MatchesAttributeOption(a, single) /\ copy.kind = "new" /\ Len(was) = 1
    <3>1. copy.values = was
      BY <1>3, <2>1 DEF Values
    <3>2. flat = was[1] /\ was[1] \in Value /\ was = <<was[1]>>
      <4>1. flat = was[1]
        BY <2>1, <3>1 DEF Flattened
      <4>2. was[1] \in Value /\ was = <<was[1]>>
        BY <1>2, <2>1
      <4> QED
        BY <4>1, <4>2
    <3>3. Values(heap, flat) = <<flat>> /\ flat.kind # "new"
      BY <3>2, Kinds DEF Values
    <3> QED
      BY <2>1, <3>2, <3>3
  <2>2. CASE ~(MatchesAttributeOption(a, single) /\ copy.kind = "new" /\ Len(was) = 1)
    <3>1. copy.kind = "new" => copy.values = was
      BY <1>3 DEF Values
    <3>2. flat = copy
      BY <2>2, <3>1 DEF Flattened
    <3> QED
      BY <1>3, <2>2, <3>2 DEF Value
  <2> QED
    BY <2>1, <2>2
<1>5. Shape(CloneEntry, single, trim)[a] = IF MatchesAttributeOption(a, trim) THEN TrimValue(flat) ELSE flat
  BY DEF Shape, CloneEntry, copy
<1> HIDE DEF flat
<1>6. CASE MatchesAttributeOption(a, trim)
  <2>1. /\ TrimValue(flat) \in {Nothing} \cup Value \cup NewArrays
        /\ TrimValue(flat).kind = flat.kind
        /\ Trimmed(Values(heap, TrimValue(flat)), was)
    BY <1>4, TrimValueTrims
  <2> QED
    BY <1>2, <1>3, <1>4, <1>5, <1>6, <2>1 DEF ShapeOf, was
<1>7. CASE ~MatchesAttributeOption(a, trim)
  BY <1>2, <1>3, <1>4, <1>5, <1>7 DEF ShapeOf, was
<1> QED
  BY <1>6, <1>7

\* What a search returns keeps every value.
SearchKeeps ==
  last'.step = "search" =>
    \A a \in Attributes :
      LET was == Values(heap, entry[a])
          is == Values(heap', found'[a])
      IN /\ Len(is) = Len(was)
         /\ \A i \in DOMAIN was :
              IF AsksFor(last'.trim, a) /\ was[i].kind = "text" THEN IsTrimOf(is[i].string, was[i].string)
              ELSE is[i] = was[i]
         /\ entry[a].kind = "array" =>
              (found'[a].kind = "array" <=> ~AsksFor(last'.single, a) \/ Len(was) # 1)

LEMMA SearchStep == Inv /\ Search => Inv' /\ Keeps /\ SearchKeeps
<1> DEFINE Made(h, f, single, trim) ==
             LET new == Allocate(heap, Shape(CloneEntry, single, trim))
             IN new = [heap |-> h, slots |-> f]
           Remembered(single, trim) ==
             Remember(given, \A a \in Attributes : ~MatchesAttributeOption(a, trim),
                      [step |-> "search", single |-> single, trim |-> trim])
<1> SUFFICES ASSUME Inv, entry # NoEntry, Room, NEW single \in Modes, NEW trim \in Modes,
                    NEW h, NEW f, Made(h, f, single, trim),
                    Refer(h, entry, arg, f), Remembered(single, trim)
             PROVE  Inv' /\ Keeps /\ SearchKeeps
  <2>1. \A s, t : LET new == Allocate(heap, Shape(CloneEntry, s, t))
                  IN Made(new.heap, new.slots, s, t)
    BY DEF Allocate
  <2> QED
    BY <2>1 DEF Search
<1> DEFINE slots == Shape(CloneEntry, single, trim)
           new == [heap |-> h, slots |-> f]
<1>1. TypeOK /\ IsHeap(heap)
  BY HeapItself DEF Inv
<1>2. \A a \in Attributes : ShapeOf(a, single, trim, Values(heap, slots[a]))
  BY <1>1, Shapes
<1>3. /\ given' = given \cap DOMAIN heap' /\ current' = (\A a \in Attributes : ~MatchesAttributeOption(a, trim))
      /\ last' = [step |-> "search", single |-> single, trim |-> trim]
  BY DEF Remember
<1>4. DOMAIN slots = Attributes
  BY DEF Shape, CloneEntry
<1>5. \A a \in Attributes : slots[a] \in {Nothing} \cup Value \cup NewArrays
  BY <1>2 DEF ShapeOf
<1>6. slots \in [Attributes -> ResultSlot(DOMAIN heap) \cup NewArrays]
  <2>1. slots = [a \in Attributes |-> slots[a]]
    BY <1>4 DEF Shape
  <2> HIDE DEF slots
  <2> QED
    BY <1>5, <2>1 DEF ResultSlot
<1>7. new = Allocate(heap, slots)
  OBVIOUS
<1> HIDE DEF slots, Made, Remembered
<1>8. Placed(heap, slots, new)
  <2>1. Attributes \in SUBSET Nat /\ IsFiniteSet(Attributes)
    BY BoundsAssumption
  <2>2. Cardinality(Attributes) <= Cardinality(Cells \ DOMAIN heap)
    <3>1. Cardinality(Attributes) \in Nat /\ Cardinality(Cells \ DOMAIN heap) \in Nat
      BY BoundsAssumption, FS_CardinalityType, FS_Difference
    <3> QED
      BY <3>1 DEF Room
  <2> QED
    BY <1>1, <1>6, <1>7, <2>1, <2>2, AllocateSlots
<1>9. /\ IsHeap(h) /\ Extends(h, heap)
      /\ f \in [Attributes -> ResultSlot(DOMAIN h)]
      /\ \A a \in Attributes :
           /\ Values(h, f[a]) = Values(heap, slots[a])
           /\ IF slots[a].kind = "new" THEN f[a] \in Arrays(DOMAIN h \ DOMAIN heap)
              ELSE f[a] = slots[a]
  BY <1>4, <1>8 DEF Placed
<1>10. ASSUME NEW a \in Attributes
      PROVE  /\ f[a].kind = "array" <=> slots[a].kind = "new"
             /\ f[a].kind = "array" => f[a].cell \notin DOMAIN heap
  <2>1. CASE slots[a].kind = "new"
    BY <1>9, <2>1, Kinds
  <2>2. CASE slots[a].kind # "new"
    <3>1. slots[a] \in {Nothing} \cup Value
      BY <1>5, <2>2, NewKinds
    <3> QED
      BY <1>9, <2>2, <3>1, Kinds
  <2> QED
    BY <2>1, <2>2
<1>11. Refers(h, entry, arg, f)
  BY <1>1, <1>9, TypesExtend DEF Refers
<1>12. CellsIn({arg} \cup Range(f)) \cap CellsIn(Range(entry)) \subseteq given
  <2>1. CellsIn(Range(f)) \cap DOMAIN heap = {}
    BY <1>9, <1>10 DEF CellsIn, Range
  <2>2. CellsIn({arg}) \cap CellsIn(Range(entry)) \subseteq given
    BY CellsOfUnion DEF Inv, HoldsOnlyGiven, Held
  <2> QED
    BY <1>1, <2>1, <2>2, Referred, CellsOfUnion
<1>13. ASSUME \A a \in Attributes : ~MatchesAttributeOption(a, trim), NEW b \in Attributes
       PROVE  Values(h, f[b]) = Values(h, entry[b])
  <2>1. Values(heap, slots[b]) = Values(heap, entry[b])
    BY <1>2, <1>13 DEF ShapeOf
  <2>2. entry[b] \in ResultSlot(DOMAIN heap)
    BY <1>1, SlotCells DEF TypeOK
  <2> QED
    BY <1>9, <2>1, <2>2, ValuesKept
<1>14. Inv' /\ Keeps
  <2>1. current' /\ f # NoEntry =>
          entry # NoEntry
          /\ \A b \in Attributes : Values(h, f[b]) = Values(h, entry[b])
    BY <1>3, <1>13
  <2> QED
    BY <1>3, <1>9, <1>11, <1>12, <2>1, InvKept
<1>15. SearchKeeps
  <2>1. found' = f
    BY <1>3 DEF Refer
  <2>2. \A s \in Range(entry) \cup {arg} \cup Range(f) : Values(heap', s) = Values(h, s)
    <3>1. Refer(h, entry, arg, f) /\ given' \in SUBSET DOMAIN heap'
      BY <1>3
    <3> QED
      BY <1>11, <3>1, ReferKeeps
  <2>3. ASSUME NEW a \in Attributes
        PROVE  /\ ShapeOf(a, single, trim, Values(heap', found'[a]))
               /\ found'[a].kind = "array" <=> slots[a].kind = "new"
    <3>1. f[a] \in Range(f)
      BY <1>9 DEF Range
    <3> QED
      BY <1>2, <1>9, <1>10, <2>1, <2>2, <3>1
  <2>4. \A a \in Attributes : /\ MatchesAttributeOption(a, single) <=> AsksFor(single, a)
                              /\ MatchesAttributeOption(a, trim) <=> AsksFor(trim, a)
    BY OptionsHeeded
  <2> QED
    BY <1>3, <2>3, <2>4 DEF SearchKeeps, ShapeOf, Trimmed, slots
<1> QED
  BY <1>14, <1>15

-------------------------------------------------------------------------------
(* The theorems *)

LEMMA InitInv == Init => Inv
<1> SUFFICES ASSUME Init PROVE Inv
  OBVIOUS
<1>1. PICK seed \in Seeds : heap = Allocate(NoEntry, seed).heap
                            /\ entry = Allocate(NoEntry, seed).slots
  BY DEF Init
<1> DEFINE new == Allocate(NoEntry, seed)
<1>2. /\ arg = Nothing /\ found = NoEntry /\ given = {} /\ ~current
      /\ heap = new.heap /\ entry = new.slots
  BY <1>1 DEF Init
<1>3. /\ DOMAIN NoEntry = {} /\ IsHeap(NoEntry)
  BY NoSlots DEF IsHeap, NoEntry
<1>4. /\ DOMAIN seed \in {{}, Attributes} /\ seed = [a \in DOMAIN seed |-> seed[a]]
      /\ DOMAIN seed = {} => seed = NoEntry
      /\ \A a \in DOMAIN seed : seed[a] \in TextValue \cup {Nothing} \cup NewArrays
  <2>1. CASE seed = NoEntry
    BY <2>1 DEF NoEntry
  <2>2. CASE seed # NoEntry
    <3>1. [kind : {"new"}, values : Seq(Value)] \subseteq NewArrays
      BY DEF NewArrays, NewArray
    <3>2. seed \in [Attributes -> TextValue \cup [kind : {"new"}, values : Seq(Value)]
                                    \cup {Nothing}]
      BY <2>2, ValuesAssumption
    <3> QED
      BY <3>1, <3>2, BoundsAssumption
  <2> QED
    BY <2>1, <2>2
<1>5. /\ DOMAIN seed \in SUBSET Nat /\ IsFiniteSet(DOMAIN seed)
      /\ Cardinality(DOMAIN seed) <= Cardinality(Cells \ DOMAIN NoEntry)
  <2>1. Cells \ DOMAIN NoEntry = Cells
    BY <1>3
  <2>2. Cardinality(Attributes) <= Cardinality(Cells) /\ IsFiniteSet(Attributes)
        /\ Attributes \in SUBSET Nat
    BY BoundsAssumption
  <2>3. IsFiniteSet({}) /\ Cardinality({}) = 0 /\ Cardinality(Cells) \in Nat
    BY BoundsAssumption, FS_EmptySet, FS_CardinalityType
  <2>4. CASE DOMAIN seed = {}
    <3>1. Cardinality(DOMAIN seed) = 0 /\ IsFiniteSet(DOMAIN seed) /\ DOMAIN seed \in SUBSET Nat
      BY <2>3, <2>4
    <3>2. Cardinality(Cells \ DOMAIN NoEntry) \in Nat
      BY <2>1, <2>3
    <3> QED
      BY <3>1, <3>2
  <2>5. CASE DOMAIN seed = Attributes
    BY <2>1, <2>2, <2>5
  <2> QED
    BY <1>4, <2>4, <2>5
<1>6. seed \in [DOMAIN seed -> ResultSlot(DOMAIN NoEntry) \cup NewArrays]
  BY <1>4 DEF ResultSlot, Value
<1>7. Placed(NoEntry, seed, new)
  <2> HIDE DEF new
  <2> DEFINE D == DOMAIN seed
  <2>1. D = DOMAIN seed
    OBVIOUS
  <2> HIDE DEF D
  <2>2. D \in SUBSET Nat /\ IsFiniteSet(D) /\ Cardinality(D) <= Cardinality(Cells \ DOMAIN NoEntry)
        /\ seed \in [D -> ResultSlot(DOMAIN NoEntry) \cup NewArrays]
    BY <1>5, <1>6, <2>1
  <2>3. Placed(NoEntry, seed, Allocate(NoEntry, seed))
    BY <1>3, <2>2, AllocateSlots
  <2> QED
    BY <2>3 DEF new
<1> HIDE DEF new
<1>8. IsHeap(heap) /\ entry \in [DOMAIN seed -> ResultSlot(DOMAIN heap)]
  BY <1>2, <1>7 DEF Placed
<1>9. ASSUME NEW a \in DOMAIN seed PROVE entry[a] \in EntrySlot(DOMAIN heap)
  <2>1. CASE seed[a].kind = "new"
    <3>1. entry[a] \in Arrays(DOMAIN heap \ DOMAIN NoEntry)
      BY <1>2, <1>7, <2>1 DEF Placed
    <3> QED
      BY <3>1 DEF EntrySlot, Arrays
  <2>2. CASE seed[a].kind # "new"
    <3>1. entry[a] = seed[a]
      BY <1>2, <1>7, <2>2 DEF Placed
    <3>2. seed[a] \in TextValue \cup {Nothing}
      BY <1>4, <2>2, NewKinds
    <3> QED
      BY <3>1, <3>2 DEF EntrySlot
  <2> QED
    BY <2>1, <2>2
<1>10. entry = NoEntry \/ entry \in [Attributes -> EntrySlot(DOMAIN heap)]
  <2>1. CASE DOMAIN seed = {}
    BY <1>8, <2>1 DEF NoEntry
  <2>2. CASE DOMAIN seed = Attributes
    BY <1>8, <1>9, <2>2
  <2> QED
    BY <1>4, <2>1, <2>2
<1>11. TypeOK
  BY <1>2, <1>8, <1>10 DEF TypeOK, IsHeap
<1>12. Held = {}
  BY <1>2, NoSlots, Kinds DEF Held, CellsIn
<1> QED
  BY <1>2, <1>11, <1>12 DEF Inv, HoldsOnlyGiven, FoundIsCurrent

\* Which step a step was.
LEMMA StepNames ==
  /\ MakeArray \/ TakeArray \/ AddObject \/ AddAttributes \/ Modify \/ Del \/ Compare =>
       last'.step \notin {"write", "search"}
  /\ Write => last'.step = "write"
  /\ Search => last'.step = "search"
<1> DEFINE Elsewhere == last'.step \notin {"write", "search"}
<1>1. \A cells, iscurrent, name :
        Remember(cells, iscurrent, [step |-> name]) => last' = [step |-> name]
  BY DEF Remember
<1>2. (MakeArray => Elsewhere) /\ (TakeArray => Elsewhere)
  <2>1. MakeArray => last' = [step |-> "make"]
    BY DEF MakeArray, Remember
  <2>2. TakeArray => last' = [step |-> "take"]
    BY DEF TakeArray, Remember
  <2> QED
    BY <2>1, <2>2
<1>3. (AddObject => Elsewhere) /\ (AddAttributes => Elsewhere)
  <2>1. AddObject => last' = [step |-> "add"]
    BY DEF AddObject, Remember
  <2>2. AddAttributes => last' = [step |-> "add"]
    BY DEF AddAttributes, Remember
  <2> QED
    BY <2>1, <2>2
<1>4. Modify => last'.step \notin {"write", "search"}
  <2> SUFFICES ASSUME Modify PROVE last'.step \notin {"write", "search"}
    OBVIOUS
  <2>1. \E s \in {"modify", "modifyThrows"} : last' = [step |-> s]
    BY <1>1 DEF Modify
  <2> QED
    BY <2>1
<1>5. (Del => Elsewhere) /\ (Compare => Elsewhere)
  <2>1. Del => last' = [step |-> "del"]
    BY DEF Del, Remember
  <2>2. Compare => \E a \in Attributes, value \in Candidates :
          last' = [step |-> "compare", answer |-> Answer(a, value)]
    BY DEF Compare, Remember
  <2> QED
    BY <2>1, <2>2
<1>6. (Write => last'.step = "write") /\ (Search => last'.step = "search")
  <2>1. Write => \E cell : last' = [step |-> "write", cell |-> cell]
    BY DEF Write, Remember
  <2>2. Search => \E s, t : last' = [step |-> "search", single |-> s, trim |-> t]
    BY DEF Search, Remember
  <2> QED
    BY <2>1, <2>2
<1> QED
  BY <1>2, <1>3, <1>4, <1>5, <1>6

\* What every step does to the arrays.
StepKeeps ==
  /\ last'.step = "write" => WriteIsSeparate
  /\ last'.step # "write" => Keeps
  /\ last'.step = "search" => SearchKeeps

LEMMA StepInv == Inv /\ Next => Inv' /\ StepKeeps
<1> SUFFICES ASSUME Inv, Next PROVE Inv' /\ StepKeeps
  OBVIOUS
<1>1. CASE MakeArray
  BY <1>1, MakeArrayKeeps, StepNames DEF StepKeeps
<1>2. CASE TakeArray
  BY <1>2, TakeArrayKeeps, StepNames DEF StepKeeps
<1>3. CASE Write
  <2>1. last'.step # "search"
    BY <1>3, StepNames
  <2> QED
    BY <1>3, <2>1, WriteKeeps, StepNames DEF StepKeeps
<1>4. CASE AddObject
  BY <1>4, AddObjectKeeps, StepNames DEF StepKeeps
<1>5. CASE AddAttributes
  BY <1>5, AddAttributesKeeps, StepNames DEF StepKeeps
<1>6. CASE Modify
  BY <1>6, ModifyKeeps, StepNames DEF StepKeeps
<1>7. CASE Del
  BY <1>7, DelKeeps, StepNames DEF StepKeeps
<1>8. CASE Compare
  BY <1>8, CompareKeeps, StepNames DEF StepKeeps
<1>9. CASE Search
  <2>1. last'.step # "write"
    BY <1>9, StepNames
  <2> QED
    BY <1>9, <2>1, SearchStep, StepNames DEF StepKeeps
<1> QED
  BY <1>1, <1>2, <1>3, <1>4, <1>5, <1>6, <1>7, <1>8, <1>9 DEF Next

LEMMA StutterInv == Inv /\ UNCHANGED vars => Inv'
<1> SUFFICES ASSUME Inv, UNCHANGED vars PROVE Inv'
  OBVIOUS
<1>1. UNCHANGED <<heap, entry, arg, found, given, current>>
  BY DEF vars
<1>2. TypeOK'
  BY <1>1 DEF Inv, TypeOK
<1>3. HoldsOnlyGiven'
  BY <1>1 DEF Inv, HoldsOnlyGiven, Held, CellsIn, Range
<1>4. FoundIsCurrent'
  BY <1>1 DEF Inv, FoundIsCurrent, Values
<1> QED
  BY <1>2, <1>3, <1>4 DEF Inv

\* Every reachable state keeps the entry's arrays apart from the caller's, but for
\* those the caller gave to add(), and knows what the last search returned.
THEOREM Invariance == Spec => []Inv
<1>1. Inv /\ [Next]_vars => Inv'
  BY StepInv, StutterInv
<1> QED
  BY <1>1, InitInv, PTL DEF Spec

\* As long as nothing was changed since a search, compare() says yes to exactly the
\* values the search returned, for any values, strings or Buffers.
THEOREM CompareAgrees == Spec => []CompareFindsWhatSearchReturned
<1>1. Inv => CompareFindsWhatSearchReturned
  <2> SUFFICES ASSUME Inv, current, found # NoEntry, NEW a \in Attributes, NEW value \in Candidates,
                      entry[a].kind # "text"
               PROVE  Answer(a, value) = "true"
                        <=> value.string \in ToSet(Strings(Values(heap, found[a])))
    BY DEF CompareFindsWhatSearchReturned
  <2> DEFINE values == Values(heap, entry[a])
  <2>1. Values(heap, found[a]) = values
    BY DEF Inv, FoundIsCurrent
  <2>2. Answer(a, value) = "true" <=> \E i \in DOMAIN values : values[i].string = value.string
    BY DEF Answer, ValuesEqual
  <2>3. value.string \in ToSet(Strings(values))
          <=> \E i \in DOMAIN values : values[i].string = value.string
    BY DEF ToSet, Strings
  <2> QED
    BY <2>1, <2>2, <2>3
<1> QED
  BY <1>1, Invariance, PTL

\* No request changes an array the caller holds, and the caller's writes reach the
\* entry only through an array it gave to add() in an object: however many arrays
\* there are, in whatever order they are made, kept and written to.
THEOREM NothingElseIsShared == Spec => SharesOnlyWhatWasGiven
<1>1. Inv /\ Next =>
        IF last'.step = "write"
        THEN last'.cell \notin given =>
               \A a \in DOMAIN entry : Values(heap', entry'[a]) = Values(heap, entry[a])
        ELSE \A c \in Held \cap DOMAIN heap' : heap'[c] = heap[c]
  <2> SUFFICES ASSUME Inv, StepKeeps
               PROVE  IF last'.step = "write"
                      THEN last'.cell \notin given =>
                             \A a \in DOMAIN entry : Values(heap', entry'[a]) = Values(heap, entry[a])
                      ELSE \A c \in Held \cap DOMAIN heap' : heap'[c] = heap[c]
    BY StepInv
  <2>1. Held \subseteq DOMAIN heap
    BY Referred DEF Inv
  <2> QED
    BY <2>1 DEF StepKeeps, WriteIsSeparate, Keeps
<1> QED
  BY <1>1, Invariance, PTL DEF Spec, SharesOnlyWhatWasGiven

\* A search returns every value of every attribute, for any combination of the
\* options that flatten and trim: strings trimmed where asked for, Buffers as they are.
THEOREM NoValueIsLost == Spec => SearchKeepsEveryValue
<1>1. Inv /\ Next => SearchKeeps
  BY StepInv DEF StepKeeps, SearchKeeps
<1> QED
  BY <1>1, Invariance, PTL DEF Spec, SearchKeepsEveryValue, SearchKeeps

-------------------------------------------------------------------------------
(* What holds after a modify *)

LEMMA StringsOf ==
  ASSUME NEW v \in Seq(Value)
  PROVE  /\ DOMAIN Strings(v) = DOMAIN v
         /\ Strings(v) = [i \in 1 .. Len(v) |-> v[i].string]
         /\ Strings(v) \in Seq(Seq(STRING)) /\ Len(Strings(v)) = Len(v)
         /\ \A i \in DOMAIN v : Strings(v)[i] = v[i].string
         /\ ToSet(Strings(v)) = {v[i].string : i \in DOMAIN v}
         /\ Strings(v) = <<>> <=> v = <<>>
<1>1. Len(v) \in Nat /\ DOMAIN v = 1 .. Len(v) /\ \A i \in DOMAIN v : v[i].string \in Seq(STRING)
  BY Kinds
<1>2. Strings(v) = [i \in 1 .. Len(v) |-> v[i].string]
  BY <1>1 DEF Strings
<1>3. Strings(v) \in Seq(Seq(STRING)) /\ Len(Strings(v)) = Len(v)
  BY <1>1, <1>2
<1>4. ToSet(Strings(v)) = {v[i].string : i \in DOMAIN v}
  BY <1>1, <1>2 DEF ToSet
<1>5. Strings(v) = <<>> <=> v = <<>>
  BY <1>3
<1> QED
  BY <1>1, <1>2, <1>3, <1>4, <1>5

LEMMA SpreadOfNew ==
  ASSUME NEW v \in Seq(Value)
  PROVE  /\ Spread(NewArray(v)) = v /\ Spread(UnlessEmpty(v)) = v
         /\ UnlessEmpty(v) = Nothing <=> v = <<>>
  BY DEF Spread, UnlessEmpty, NewArray, Nothing, Values

\* Appended values are at the end.
LEMMA AppendedIsSuffix ==
  ASSUME NEW S, NEW u \in Seq(S), NEW v \in Seq(S)
  PROVE  IsSuffix(v, u \o v)
<1> DEFINE w == u \o v
<1>1. /\ w \in Seq(S) /\ Len(w) = Len(u) + Len(v) /\ Len(u) \in Nat /\ Len(v) \in Nat
      /\ \A i \in 1 .. Len(v) : w[Len(u) + i] = v[i]
  OBVIOUS
<1> HIDE DEF w
<1>2. /\ Reverse(v) = [i \in 1 .. Len(v) |-> v[(Len(v) - i) + 1]]
      /\ Reverse(w) = [i \in 1 .. Len(w) |-> w[(Len(w) - i) + 1]]
  BY DEF Reverse
<1>3. \A i \in 1 .. Len(v) : w[(Len(w) - i) + 1] = v[(Len(v) - i) + 1]
  <2> SUFFICES ASSUME NEW i \in 1 .. Len(v) PROVE w[(Len(w) - i) + 1] = v[(Len(v) - i) + 1]
    OBVIOUS
  <2>1. (Len(v) - i) + 1 \in 1 .. Len(v) /\ (Len(w) - i) + 1 = Len(u) + ((Len(v) - i) + 1)
    BY <1>1
  <2> QED
    BY <1>1, <2>1
<1>4. /\ \A i \in 1 .. Len(v) : v[(Len(v) - i) + 1] \in S
      /\ \A i \in 1 .. Len(w) : w[(Len(w) - i) + 1] \in S
  BY <1>1
<1>5. /\ Reverse(v) \in Seq(S) /\ Len(Reverse(v)) = Len(v)
      /\ Reverse(w) \in Seq(S) /\ Len(Reverse(w)) = Len(w)
  BY <1>1, <1>2, <1>4
<1>6. Reverse(v) = SubSeq(Reverse(w), 1, Len(Reverse(v)))
  <2>1. \A i \in 1 .. Len(v) : Reverse(w)[i] = Reverse(v)[i]
    BY <1>1, <1>2, <1>3
  <2>2. 1 .. Len(v) \subseteq 1 .. Len(w)
    BY <1>1
  <2> QED
    BY <1>1, <1>5, <2>1, <2>2
<1> QED
  BY <1>1, <1>5, <1>6 DEF IsSuffix, IsPrefix, w

LEMMA StringsJoin ==
  ASSUME NEW u \in Seq(Value), NEW v \in Seq(Value)
  PROVE  Strings(u \o v) = Strings(u) \o Strings(v)
<1>1. /\ u \o v \in Seq(Value) /\ Len(u \o v) = Len(u) + Len(v)
      /\ Len(u) \in Nat /\ Len(v) \in Nat
  OBVIOUS
<1>2. \A w \in Seq(Value) : /\ Strings(w) \in Seq(Seq(STRING)) /\ Len(Strings(w)) = Len(w)
                           /\ \A i \in 1 .. Len(w) : Strings(w)[i] = w[i].string
  <2>1. \A w \in Seq(Value) : DOMAIN w = 1 .. Len(w)
    OBVIOUS
  <2> QED
    BY <2>1, StringsOf
<1>3. ASSUME NEW i \in 1 .. Len(u) + Len(v)
      PROVE  Strings(u \o v)[i] = (Strings(u) \o Strings(v))[i]
  <2>1. Strings(u \o v)[i] = (u \o v)[i].string
    BY <1>1, <1>2
  <2>2. CASE i <= Len(u)
    <3>1. i \in 1 .. Len(u) /\ (u \o v)[i] = u[i]
      BY <1>1, <2>2
    <3>2. (Strings(u) \o Strings(v))[i] = Strings(u)[i]
      BY <1>1, <1>2, <3>1
    <3> QED
      BY <1>2, <2>1, <3>1, <3>2
  <2>3. CASE i > Len(u)
    <3>1. i - Len(u) \in 1 .. Len(v) /\ (u \o v)[i] = v[i - Len(u)]
      BY <1>1, <2>3
    <3>2. (Strings(u) \o Strings(v))[i] = Strings(v)[i - Len(u)]
      BY <1>1, <1>2, <2>3
    <3> QED
      BY <1>2, <2>1, <3>1, <3>2
  <2>4. i <= Len(u) \/ i > Len(u)
    BY <1>1
  <2> QED
    BY <2>2, <2>3, <2>4
<1>4. \A S : \A s, t \in Seq(S) : s \o t \in Seq(S) /\ Len(s \o t) = Len(s) + Len(t)
  OBVIOUS
<1>5. /\ Strings(u) \o Strings(v) \in Seq(Seq(STRING))
      /\ Len(Strings(u) \o Strings(v)) = Len(u) + Len(v)
  <2>1. /\ Strings(u) \in Seq(Seq(STRING)) /\ Strings(v) \in Seq(Seq(STRING))
        /\ Len(Strings(u)) = Len(u) /\ Len(Strings(v)) = Len(v)
    BY <1>2
  <2>2. \A s, t \in Seq(Seq(STRING)) : s \o t \in Seq(Seq(STRING)) /\ Len(s \o t) = Len(s) + Len(t)
    BY <1>4
  <2> QED
    BY <2>1, <2>2
<1>6. Strings(u \o v) \in Seq(Seq(STRING)) /\ Len(Strings(u \o v)) = Len(u) + Len(v)
  BY <1>1, <1>2
<1>7. \A S : \A s, t \in Seq(S) :
        Len(s) = Len(t) /\ (\A i \in 1 .. Len(s) : s[i] = t[i]) => s = t
  OBVIOUS
<1> QED
  BY <1>3, <1>5, <1>6, <1>7

\* The last change is made to what the ones before it left.
LEMMA LastRound ==
  ASSUME TypeOK, entry # NoEntry, NEW changes \in ChangeLists
  PROVE  LET before == Modified(Front(changes)) IN
         /\ Last(changes) \in Change /\ Last(changes) \in ToSet(changes)
         /\ Half(before)
         /\ Modified(changes) = ApplyChange(before, Last(changes))
         /\ before.thrown => \E c \in ToSet(changes) : entry[c.attribute].kind = "text"
         /\ \A b \in Attributes : (\A c \in ToSet(changes) : c.attribute # b) =>
                                     before.slots[b] = entry[b]
<1>1. Half(Start) /\ ~Start.thrown /\ Start.slots = entry
  BY StartIsHalf DEF Start
<1>2. CASE DOMAIN changes = {1} /\ Len(changes) = 1 /\ changes[1] \in Change
  <2>1. /\ Front(changes) = <<>> /\ DOMAIN <<>> = {}
        /\ Last(changes) = changes[1] /\ ToSet(changes) = {changes[1]}
    BY <1>2 DEF Front, Last, ToSet
  <2>2. Modified(Front(changes)) = Start
    BY <2>1, FoldOfTwo
  <2>3. DOMAIN changes \in {{}, {1}, {1, 2}} /\ DOMAIN changes # {}
    BY <1>2
  <2>4. Modified(changes) = ApplyChange(Start, changes[1])
    BY <1>2, <2>3, FoldOfTwo
  <2> QED
    BY <1>1, <1>2, <2>1, <2>2, <2>4
<1>3. CASE /\ DOMAIN changes = {1, 2} /\ Len(changes) = 2
           /\ changes[1] \in Change /\ changes[2] \in Change
  <2> DEFINE before == ApplyChange(Start, changes[1])
  <2>1. /\ DOMAIN Front(changes) = {1} /\ Front(changes)[1] = changes[1]
        /\ Last(changes) = changes[2] /\ ToSet(changes) = {changes[1], changes[2]}
    <3>1. changes \in Seq(Change)
      <4>1. changes \in [1 .. 2 -> Change]
        BY <1>3, ChangesAreFunctions
      <4>2. \A n \in Nat : \A f \in [1 .. n -> Change] : f \in Seq(Change)
        OBVIOUS
      <4> QED
        BY <4>1, <4>2
    <3>2. Front(changes) = SubSeq(changes, 1, 1)
      BY <1>3 DEF Front
    <3> QED
      BY <1>3, <3>1, <3>2 DEF Last, ToSet
  <2>2. DOMAIN Front(changes) \in {{}, {1}, {1, 2}} /\ DOMAIN Front(changes) # {}
    BY <2>1
  <2>3. Modified(Front(changes)) = before
    BY <2>1, <2>2, FoldOfTwo
  <2>4. Modified(changes) = ApplyChange(before, changes[2])
    BY <1>3, FoldOfTwo
  <2> HIDE DEF before
  <2>5. /\ Half(before)
        /\ before.thrown => Throws(Start, changes[1])
        /\ ~before.thrown =>
             \A b \in Attributes \ {changes[1].attribute} : before.slots[b] = entry[b]
        /\ before.thrown => before.slots = entry
    BY <1>1, <1>3, Round, RoundThrows DEF before
  <2>6. Throws(Start, changes[1]) => entry[changes[1].attribute].kind = "text"
    BY <1>1 DEF Throws, LacksFilter
  <2> QED
    BY <1>3, <2>1, <2>3, <2>4, <2>5, <2>6
<1> QED
  BY <1>2, <1>3, ChangesAreShort

\* For any values, whatever two changes of a modify do to the same or to different
\* attributes, the last one holds afterwards, and nothing it does not name is touched.
THEOREM LastChangeWins == Spec => []LastChangeHolds
<1>1. Inv => LastChangeHolds
  <2> SUFFICES ASSUME Inv, entry # NoEntry, NEW changes \in ChangeLists
               PROVE  LET change == Last(changes)
                          a == change.attribute
                          before == Modified(Front(changes))
                          after == Modified(changes)
                          values == Strings(Values(heap, change.values))
                          old == ToSet(Strings(Spread(before.slots[a])))
                          new == Strings(Spread(after.slots[a]))
                      IN IF after.thrown
                         THEN \E c \in ToSet(changes) : entry[c.attribute].kind = "text"
                         ELSE
                           /\ change.operation = "add" => IsSuffix(values, new) /\ old \subseteq ToSet(new)
                           /\ change.operation = "delete" =>
                                ToSet(new) = IF values = <<>> THEN {} ELSE old \ ToSet(values)
                           /\ change.operation = "replace" => new = values
                           /\ change.operation # "add" => (new = <<>> <=> after.slots[a] = Nothing)
                           /\ \A b \in Attributes : (\A c \in ToSet(changes) : c.attribute # b) =>
                                                       after.slots[b] = entry[b]
    BY DEF LastChangeHolds
  <2> DEFINE change == Last(changes)
             a == change.attribute
             before == Modified(Front(changes))
             after == Modified(changes)
             given0 == Values(heap, change.values)
             was == Spread(before.slots[a])
             is == Spread(after.slots[a])
  <2>1. /\ TypeOK /\ change \in Change /\ change \in ToSet(changes) /\ Half(before)
        /\ after = ApplyChange(before, change)
        /\ before.thrown => \E c \in ToSet(changes) : entry[c.attribute].kind = "text"
        /\ \A b \in Attributes : (\A c \in ToSet(changes) : c.attribute # b) =>
                                    before.slots[b] = entry[b]
    BY LastRound DEF Inv
  <2> HIDE DEF before, after, change
  <2>2. /\ a \in Attributes /\ change.operation \in {"add", "delete", "replace"}
        /\ given0 \in Seq(Value)
    BY <2>1, ArgumentValues DEF Change
  <2>3. /\ was \in Seq(Value)
        /\ before.thrown \/ Throws(before, change) => after.thrown
        /\ ~(before.thrown \/ Throws(before, change)) =>
             /\ ~after.thrown
             /\ \A b \in Attributes \ {a} : after.slots[b] = before.slots[b]
             /\ after.slots[a] =
                  CASE change.operation = "add" -> NewArray(was \o given0)
                    [] change.operation = "delete" ->
                         IF given0 = <<>> THEN Nothing ELSE UnlessEmpty(Filtered(was, given0))
                    [] OTHER -> UnlessEmpty(given0)
    BY <2>1, Round
  <2>4. ASSUME after.thrown PROVE \E c \in ToSet(changes) : entry[c.attribute].kind = "text"
    <3>1. before.thrown \/ Throws(before, change)
      BY <2>3, <2>4
    <3>2. Throws(before, change) => entry[a].kind = "text"
      <4>1. before.slots[a].kind = "text" => before.slots[a] = entry[a]
        BY <2>1, <2>2, NewKinds, Kinds DEF Half
      <4> QED
        BY <4>1 DEF Throws, LacksFilter
    <3> QED
      BY <2>1, <3>1, <3>2
  <2>5. ASSUME ~after.thrown
        PROVE  /\ change.operation = "add" =>
                    /\ IsSuffix(Strings(given0), Strings(is))
                    /\ ToSet(Strings(was)) \subseteq ToSet(Strings(is))
               /\ change.operation = "delete" =>
                    ToSet(Strings(is)) =
                      IF Strings(given0) = <<>> THEN {} ELSE ToSet(Strings(was)) \ ToSet(Strings(given0))
               /\ change.operation = "replace" => Strings(is) = Strings(given0)
               /\ change.operation # "add" => (Strings(is) = <<>> <=> after.slots[a] = Nothing)
               /\ \A b \in Attributes : (\A c \in ToSet(changes) : c.attribute # b) =>
                                           after.slots[b] = entry[b]
    <3>1. /\ \A b \in Attributes \ {a} : after.slots[b] = before.slots[b]
          /\ change.operation = "add" => after.slots[a] = NewArray(was \o given0)
          /\ change.operation = "delete" =>
               after.slots[a] = IF given0 = <<>> THEN Nothing ELSE UnlessEmpty(Filtered(was, given0))
          /\ change.operation = "replace" => after.slots[a] = UnlessEmpty(given0)
      BY <2>3, <2>5
    <3>2. \A b \in Attributes : (\A c \in ToSet(changes) : c.attribute # b) =>
                                   after.slots[b] = entry[b]
      BY <2>1, <3>1
    <3>3. CASE change.operation = "add"
      <4>1. was \o given0 \in Seq(Value) /\ is = was \o given0
        <5>1. was \o given0 \in Seq(Value)
          BY <2>2, <2>3
        <5> QED
          BY <3>1, <3>3, <5>1, SpreadOfNew
      <4>2. Strings(was \o given0) = Strings(was) \o Strings(given0)
        BY <2>2, <2>3, StringsJoin
      <4>3. IsSuffix(Strings(given0), Strings(is))
        BY <2>2, <2>3, <4>1, <4>2, StringsOf, AppendedIsSuffix
      <4>4. ToSet(Strings(was)) \subseteq ToSet(Strings(is))
        <5>1. \A i \in DOMAIN was : i \in DOMAIN is /\ is[i] = was[i]
          <6>1. DOMAIN was = 1 .. Len(was) /\ DOMAIN (was \o given0) = 1 .. Len(was) + Len(given0)
                /\ Len(was) \in Nat /\ Len(given0) \in Nat
            BY <2>2, <2>3
          <6>2. \A i \in 1 .. Len(was) : (was \o given0)[i] = was[i]
            BY <2>2, <2>3
          <6> HIDE DEF was, is, given0
          <6> QED
            BY <4>1, <6>1, <6>2
        <5> HIDE DEF was, is
        <5>2. was \in Seq(Value) /\ is \in Seq(Value)
          BY <2>3, <4>1
        <5>3. /\ ToSet(Strings(was)) = {was[i].string : i \in DOMAIN was}
              /\ ToSet(Strings(is)) = {is[i].string : i \in DOMAIN is}
          BY <5>2, StringsOf
        <5> QED
          BY <5>1, <5>3
      <4> QED
        BY <3>2, <3>3, <4>3, <4>4
    <3>4. CASE change.operation = "delete" /\ given0 = <<>>
      <4>1. after.slots[a] = Nothing /\ is = <<>>
        BY <3>1, <3>4, Kinds DEF Spread, Values
      <4>2. Strings(is) = <<>> /\ ToSet(Strings(is)) = {} /\ Strings(given0) = <<>>
        BY <3>4, <4>1 DEF Strings, ToSet
      <4> QED
        BY <3>2, <3>4, <4>1, <4>2
    <3>5. CASE change.operation = "delete" /\ given0 # <<>>
      <4> DEFINE left == Filtered(was, given0)
                 kept == {i \in DOMAIN was : ~\E j \in DOMAIN given0 : ValuesEqual(was[i], given0[j])}
      <4>1. /\ left \in Seq(Value)
            /\ \A k \in DOMAIN left : \E i \in kept : left[k] = was[i]
            /\ \A i \in kept : \E k \in DOMAIN left : left[k] = was[i]
        <5>1. left = At(was, kept) /\ kept \in SUBSET DOMAIN was
          BY DEF Filtered
        <5> HIDE DEF left, kept, was
        <5> QED
          BY <2>3, <5>1, AtTakes
      <4>2. is = left /\ (after.slots[a] = Nothing <=> left = <<>>)
        BY <3>1, <3>5, <4>1, SpreadOfNew
      <4>3. \A i \in DOMAIN was :
              i \in kept <=> was[i].string \notin {given0[j].string : j \in DOMAIN given0}
        BY DEF ValuesEqual
      <4>4. {left[k].string : k \in DOMAIN left}
              = {was[i].string : i \in DOMAIN was} \ {given0[j].string : j \in DOMAIN given0}
        <5> HIDE DEF left, was, given0
        <5>1. \A i \in kept : i \in DOMAIN was
          OBVIOUS
        <5> HIDE DEF kept
        <5> QED
          BY <4>1, <4>3, <5>1
      <4>5. /\ ToSet(Strings(is)) = {left[k].string : k \in DOMAIN left}
            /\ ToSet(Strings(was)) = {was[i].string : i \in DOMAIN was}
            /\ ToSet(Strings(given0)) = {given0[j].string : j \in DOMAIN given0}
            /\ Strings(is) = <<>> <=> left = <<>>
            /\ Strings(given0) # <<>>
        BY <2>2, <2>3, <3>5, <4>1, <4>2, StringsOf
      <4> QED
        BY <3>2, <3>5, <4>2, <4>4, <4>5
    <3>6. CASE change.operation = "replace"
      <4>1. is = given0 /\ (after.slots[a] = Nothing <=> given0 = <<>>)
        BY <2>2, <3>1, <3>6, SpreadOfNew
      <4>2. Strings(given0) = <<>> <=> given0 = <<>>
        BY <2>2, StringsOf
      <4> QED
        BY <3>2, <3>6, <4>1, <4>2
    <3> QED
      BY <2>2, <3>3, <3>4, <3>5, <3>6
  <2> QED
    BY <2>4, <2>5 DEF before, after, change
<1> QED
  BY <1>1, Invariance, PTL

===============================================================================
