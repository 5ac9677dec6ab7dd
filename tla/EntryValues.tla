----------------------------- MODULE EntryValues -----------------------------
(***************************************************************************)
(* The attribute values of one entry of the in-memory backend              *)
(* (src/mock-native.cjs), the arrays that hold them, and the shape in      *)
(* which src/client.cjs returns them from a search.                        *)
(*                                                                         *)
(* A cell is an array. The backend and the caller hold references to       *)
(* cells, and the caller may write to those it holds; nobody writes into a *)
(* Buffer. An entry has a slot for each attribute. Its name and its place  *)
(* in the list are in MockDirectory.                                       *)
(***************************************************************************)
EXTENDS Integers, Texts

CONSTANTS
  Attributes,  \* numbers: the keys of an entry, in order
  Seeds,       \* what connect() seeds the handle with under the entry's name
  Candidates,  \* values that are compared with
  Scalars,     \* values an object may have in place of an array
  Payloads,    \* arrays of values a caller makes
  Modes,       \* values of singleValueAttributes and trimAttributeValues
  Cells,       \* bound: arrays in use at once
  MaxValues,   \* bound: values of an attribute
  MaxSteps     \* bound: steps

ASSUME BoundsAssumption ==
  /\ Attributes \subseteq Nat /\ IsFiniteSet(Attributes) /\ Attributes # {}
  /\ Cells \subseteq Nat /\ IsFiniteSet(Cells)
  /\ Cardinality(Attributes) <= Cardinality(Cells)
  /\ MaxValues \in Nat /\ MaxSteps \in Nat

VARIABLES
  heap,     \* the values in each cell in use
  entry,    \* the backend's entry
  arg,      \* the array the caller has made
  found,    \* the entry the last search returned to the caller
  given,    \* history: cells a caller put into the entry in an object
  current,  \* history: found has, untrimmed, what the entry holds
  last,     \* history: the last step
  steps     \* steps taken

vars == <<heap, entry, arg, found, given, current, last, steps>>

-------------------------------------------------------------------------------
(* Values, slots and cells *)

Text(string) == [kind |-> "text", string |-> string]
Buffer(string) == [kind |-> "buffer", string |-> string]
Array(cell) == [kind |-> "array", cell |-> cell]
Nothing == [kind |-> "nothing"]                             \* no such attribute
NewArray(values) == [kind |-> "new", values |-> values]  \* not yet in a cell

NoEntry == [a \in {} |-> Nothing]

TextValue == [kind : {"text"}, string : Seq(STRING)]
Value == TextValue \cup [kind : {"buffer"}, string : Seq(STRING)]

\* A name in a list of names.  Of the spellings of a name, one is that of the
\* entry's key; the keys of an entry differ in more than their case.
Name == [attribute : Attributes, spelling : {"as stored", "lower case", "another"}]
KeyOf(attribute) == [attribute |-> attribute, spelling |-> "as stored"]
ToLowerCase(name) == [attribute |-> name.attribute, spelling |-> "lower case"]

Mode == [kind : {"absent", "true", "other"}] \cup [kind : {"list"}, names : SUBSET Name]

ASSUME ModesAssumption == Modes \subseteq Mode

ASSUME ValuesAssumption ==
  /\ Candidates \subseteq Value /\ Scalars \subseteq TextValue /\ Payloads \subseteq Seq(Value)
  /\ \A seed \in Seeds :
       \/ seed = NoEntry
       \/ seed \in [Attributes ->
                      TextValue \cup [kind : {"new"}, values : Seq(Value)] \cup {Nothing}]

Values(h, slot) ==
  CASE slot.kind = "nothing" -> <<>>
    [] slot.kind = "array" -> h[slot.cell]
    [] slot.kind = "new" -> slot.values
    [] OTHER -> <<slot>>

CellsIn(slots) == {s.cell : s \in {s \in slots : s.kind = "array"}}

\* Puts new arrays into free cells, in order.
Allocate(h, slots) ==
  LET new == {a \in DOMAIN slots : slots[a].kind = "new"}
      free == Cells \ DOMAIN h
      cellOf == [a \in new |-> Nth(free, Rank(new, a))]
      written == [c \in Range(cellOf) |-> slots[CHOOSE a \in new : cellOf[a] = c].values]
  IN [heap |-> [c \in DOMAIN h \cup Range(cellOf) |-> IF c \in DOMAIN h THEN h[c] ELSE written[c]],
      slots |-> [a \in DOMAIN slots |-> IF a \in new THEN Array(cellOf[a]) ELSE slots[a]]]

Room == Cardinality(Cells \ DOMAIN heap) >= Cardinality(Attributes)

\* A step ends with these references; arrays nobody refers to are collected.
Refer(h, e, a, f) ==
  /\ heap' = Restrict(h, CellsIn(Range(e) \cup {a} \cup Range(f)))
  /\ entry' = e /\ arg' = a /\ found' = f

Remember(cells, iscurrent, step) ==
  /\ given' = cells \cap DOMAIN heap'
  /\ current' = iscurrent
  /\ last' = step
  /\ steps' = steps + 1

Held == CellsIn({arg} \cup Range(found))

\* What a request may be called with; Nothing is undefined.
Arguments == {Nothing, arg}

-------------------------------------------------------------------------------
(* The caller's arrays *)

Init ==
  /\ \E seed \in Seeds :
       LET new == Allocate(NoEntry, seed) IN heap = new.heap /\ entry = new.slots
  /\ arg = Nothing /\ found = NoEntry
  /\ given = {} /\ current = FALSE /\ last = [step |-> "connect"] /\ steps = 0

MakeArray ==
  \E values \in Payloads :
    LET new == Allocate(heap, <<NewArray(values)>>) IN
    /\ Room
    /\ Refer(new.heap, entry, new.slots[1], found)
    /\ Remember(given, current, [step |-> "make"])

\* The caller keeps an array a search returned.
TakeArray ==
  \E a \in DOMAIN found :
    /\ found[a].kind = "array" /\ found[a] # arg
    /\ Refer(heap, entry, found[a], found)
    /\ Remember(given, current, [step |-> "take"])

\* The caller empties an array.
Write ==
  \E cell \in Held :
    /\ heap[cell] # <<>>
    /\ Refer([heap EXCEPT ![cell] = <<>>], entry, arg, found)
    /\ Remember(given, FALSE, [step |-> "write", cell |-> cell])

-------------------------------------------------------------------------------
(* src/mock-native.cjs *)

\* A copy of an array, element by element; cloneValue copies a Buffer.
SharedSlot(slot) == slot
CopiedSlot(slot) == IF slot.kind = "array" THEN NewArray(Values(heap, slot)) ELSE slot

\* add of an object, which normalizeEntry takes as it is.
AddObject ==
  /\ entry = NoEntry
  /\ \E slots \in [Attributes -> Arguments \cup Scalars] :
       /\ Refer(heap, slots, arg, found)
       /\ Remember(given \cup CellsIn(Range(slots)), FALSE, [step |-> "add"])

\* add of a list of Attribute, whose arrays are copied.
AddAttributes ==
  /\ entry = NoEntry /\ Room
  /\ \E slots \in [Attributes -> Arguments] :
       LET new == Allocate(heap, [a \in Attributes |-> CopiedSlot(slots[a])]) IN
       /\ Refer(new.heap, new.slots, arg, found)
       /\ Remember(given, FALSE, [step |-> "add"])

\* A Buffer and a string are compared by their bytes.
ValuesIdentical(left, right) == left = right
ValuesEqual(left, right) == left.string = right.string

\* [...(entry[attribute] ?? [])]: spreading a string takes it apart.
Spread(slot) ==
  IF slot.kind = "text" THEN [i \in DOMAIN slot.string |-> Text(<<slot.string[i]>>)]
  ELSE Values(heap, slot)

FilteredByAll(values, gone) ==
  At(values, {i \in DOMAIN values : ~\A j \in DOMAIN gone : ValuesEqual(values[i], gone[j])})
Filtered(values, gone) ==
  At(values, {i \in DOMAIN values : ~\E j \in DOMAIN gone : ValuesEqual(values[i], gone[j])})

\* An attribute left without values is deleted.
UnlessEmpty(values) == IF values = <<>> THEN Nothing ELSE NewArray(values)

\* A string has no filter().
LacksFilter(slot) == slot.kind = "text"

\* One round of the loop of modify.
ApplyChange(state, change) ==
  LET slot == state.slots[change.attribute]
      values == Values(heap, change.values)
      throws == change.operation = "delete" /\ values # <<>> /\ LacksFilter(slot)
  IN IF state.thrown \/ throws THEN [state EXCEPT !.thrown = TRUE]
     ELSE [state EXCEPT !.slots[change.attribute] =
             CASE change.operation = "add" -> NewArray(Spread(slot) \o values)
               [] change.operation = "delete" ->
                    IF values = <<>> THEN Nothing ELSE UnlessEmpty(Filtered(Spread(slot), values))
               [] OTHER -> UnlessEmpty(values)]

ChangeLists ==
  BoundedSeq([operation : {"add", "delete", "replace"}, attribute : Attributes, values : Arguments],
             2) \ {<<>>}

\* What the entry is after modify, and whether it threw on the way.
Modified(changes) == FoldLeft(ApplyChange, [slots |-> entry, thrown |-> FALSE], changes)

\* The arrays that modify makes are the entry's own.
Store(slots) == Allocate(heap, slots)

Modify ==
  /\ entry # NoEntry /\ Room
  /\ \E state \in {Modified(changes) : changes \in ChangeLists} :
       LET new == Store(state.slots) IN
       /\ \A a \in Attributes : Len(Values(new.heap, new.slots[a])) <= MaxValues
       /\ Refer(new.heap, new.slots, arg, found)
       /\ Remember(given, FALSE, [step |-> IF state.thrown THEN "modifyThrows" ELSE "modify"])

Del ==
  /\ entry # NoEntry
  /\ Refer(heap, NoEntry, arg, found)
  /\ Remember(given, FALSE, [step |-> "del"])

\* compare: a string has no some() either.
Answer(attribute, value) ==
  LET values == Values(heap, entry[attribute])
  IN IF entry[attribute].kind = "text" THEN "TypeError"
     ELSE IF \E i \in DOMAIN values : ValuesEqual(values[i], value) THEN "true" ELSE "false"

Compare ==
  /\ entry # NoEntry
  /\ UNCHANGED <<heap, entry, arg, found>>
  /\ \E a \in Attributes, value \in Candidates :
       Remember(given, current, [step |-> "compare", answer |-> Answer(a, value)])

-------------------------------------------------------------------------------
(* src/client.cjs                                                          *)

\* matchesAttributeOption: only true and an array match anything.
MatchesAttributeOption(attribute, mode) ==
  \/ mode.kind = "true"
  \/ /\ mode.kind = "list"
     /\ \E name \in mode.names : ToLowerCase(name) = ToLowerCase(KeyOf(attribute))

\* trimSearchValue
TrimValue(value) ==
  CASE value.kind = "text" -> Text(Trim(value.string))
    [] value.kind = "new" ->
         NewArray([i \in DOMAIN value.values |->
                     IF value.values[i].kind = "text" THEN Text(Trim(value.values[i].string))
                     ELSE value.values[i]])
    [] OTHER -> value

\* shouldFlattenAttribute
FlattenedFirst(slot) ==
  IF slot.kind = "new" /\ slot.values # <<>> THEN slot.values[1] ELSE slot
Flattened(slot) ==
  IF slot.kind = "new" /\ Len(slot.values) = 1 THEN slot.values[1] ELSE slot

\* applySingleValueAttributes
Shape(slots, single, trim) ==
  [a \in DOMAIN slots |->
     LET value == IF MatchesAttributeOption(a, single) THEN Flattened(slots[a]) ELSE slots[a]
     IN IF MatchesAttributeOption(a, trim) THEN TrimValue(value) ELSE value]

\* search: cloneEntry, then the client's part.
CloneEntry == [a \in Attributes |-> CopiedSlot(entry[a])]

Search ==
  /\ entry # NoEntry /\ Room
  /\ \E single, trim \in Modes :
       LET new == Allocate(heap, Shape(CloneEntry, single, trim)) IN
       /\ Refer(new.heap, entry, arg, new.slots)
       /\ Remember(given, \A a \in Attributes : ~MatchesAttributeOption(a, trim),
                   [step |-> "search", single |-> single, trim |-> trim])

Next ==
  /\ steps < MaxSteps
  /\ \/ MakeArray \/ TakeArray \/ Write
     \/ AddObject \/ AddAttributes \/ Modify \/ Del \/ Compare \/ Search

Spec == Init /\ [][Next]_vars

-------------------------------------------------------------------------------
(* Properties *)

\* No request changes an array the caller holds, be it an argument, one it once
\* gave to add() in an object, or the result of an earlier search; and what the
\* caller does to its arrays reaches the entry only if it gave the array to add()
\* in an object.
SharesOnlyWhatWasGiven ==
  [][IF last'.step = "write"
     THEN last'.cell \notin given =>
            \A a \in DOMAIN entry : Values(heap', entry'[a]) = Values(heap, entry[a])
     ELSE \A c \in Held \cap DOMAIN heap' : heap'[c] = heap[c]]_vars

Strings(values) == [i \in DOMAIN values |-> values[i].string]

\* However the changes of a modify interact, the last one holds afterwards: what
\* it adds is at the end, what it deletes is gone and nothing else with it, what
\* it replaces is as given; an attribute it leaves without values is gone, and
\* one that no change names is untouched.  Modify fails half way only if an
\* attribute it names was added as a string.
LastChangeHolds ==
  entry # NoEntry =>
    \A changes \in ChangeLists :
      LET change == Last(changes)
          a == change.attribute
          before == Modified(Front(changes))
          after == Modified(changes)
          values == Strings(Values(heap, change.values))
          old == ToSet(Strings(Spread(before.slots[a])))
          new == Strings(Spread(after.slots[a]))
      IN IF after.thrown
         THEN \E c \in ToSet(changes) : entry[c.attribute].kind = "text"
         ELSE
           /\ change.operation = "add" => IsSuffix(values, new) /\ old \subseteq ToSet(new)
           /\ change.operation = "delete" =>
                ToSet(new) = IF values = <<>> THEN {} ELSE old \ ToSet(values)
           /\ change.operation = "replace" => new = values
           /\ change.operation # "add" => (new = <<>> <=> after.slots[a] = Nothing)
           /\ \A b \in Attributes : (\A c \in ToSet(changes) : c.attribute # b) =>
                                       after.slots[b] = entry[b]

\* As long as nothing was changed since a search, compare() says yes to exactly
\* the values the search returned, whether they are strings or Buffers.
CompareFindsWhatSearchReturned ==
  current /\ found # NoEntry =>
    \A a \in Attributes, value \in Candidates :
      entry[a].kind # "text" =>
        (Answer(a, value) = "true" <=> value.string \in ToSet(Strings(Values(heap, found[a]))))

IsTrimOf(short, long) ==
  /\ short # <<>> => short[1] # Blank /\ Last(short) # Blank
  /\ \E i, j \in 0 .. Len(long) :
       /\ short = SubSeq(long, i + 1, j)
       /\ \A k \in DOMAIN long : k \in i + 1 .. j \/ long[k] = Blank

\* An option asks for an attribute if it is true or names it, however spelled.
AsksFor(mode, attribute) ==
  \/ mode.kind = "true"
  \/ mode.kind = "list" /\ attribute \in {name.attribute : name \in mode.names}

\* README.md:218-243: an attribute is returned as an array unless it is to be
\* flattened and has exactly one value; strings are trimmed where asked for,
\* Buffers never, and no value is lost.  A name in an option is heeded in any case.
SearchKeepsEveryValue ==
  [][last'.step = "search" =>
       \A a \in Attributes :
         LET was == Values(heap, entry[a])
             is == Values(heap', found'[a])
         IN /\ Len(is) = Len(was)
            /\ \A i \in DOMAIN was :
                 IF AsksFor(last'.trim, a) /\ was[i].kind = "text"
                 THEN IsTrimOf(is[i].string, was[i].string)
                 ELSE is[i] = was[i]
            /\ entry[a].kind = "array" =>
                 (found'[a].kind = "array" <=> ~AsksFor(last'.single, a) \/ Len(was) # 1)]_vars
===============================================================================
