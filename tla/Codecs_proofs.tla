----------------------------- MODULE Codecs_proofs -----------------------------
(***************************************************************************)
(* Proofs about what Codecs is made of, each part for every value of its   *)
(* constants: first the streams of BerStream, then the texts and arguments *)
(* of Conversions (addresses, messages, controls, arguments of the addon,  *)
(* names, guidance and filters), and in the end both together.             *)
(***************************************************************************)
EXTENDS Codecs, FiniteSetTheorems, SequenceTheorems, TLAPS

\* A function on the first n numbers is a sequence of that length.
LEMMA SequenceOf ==
  ASSUME NEW S, NEW n \in Nat, NEW s \in [1 .. n -> S]
  PROVE  s \in Seq(S) /\ Len(s) = n
  OBVIOUS

--------
(* Streams of BER *)

LEMMA FoldOfOne ==
  ASSUME NEW byte
  PROVE  FoldLeft(LAMBDA value, b : value * ByteSize + b, 0, <<byte>>)
           = 0 * ByteSize + byte
<1> DEFINE F(iter, s) ==
             IF s = {} THEN 0
             ELSE LET x == Max(s) IN iter[s \ {x}] * ByteSize + <<byte>>[x]
           Folded(iter) == iter = [s \in SUBSET {1} |-> F(iter, s)]
           it == [s \in SUBSET {1} |-> IF s = {} THEN 0 ELSE 0 * ByteSize + byte]
<1>1. Max({1}) = 1
  <2>1. \A x \in {1} : x >= 1 OBVIOUS
  <2> QED BY <2>1 DEF Max
<1>2. Folded(it)
  <2>1. ASSUME NEW s \in SUBSET {1} PROVE it[s] = F(it, s)
    <3>1. CASE s = {} BY <3>1
    <3>2. CASE s = {1} BY <1>1, <3>2
    <3> QED BY <3>1, <3>2
  <2> QED BY <2>1
<1>3. \A iter : Folded(iter) => iter[{1}] = 0 * ByteSize + byte
  <2> SUFFICES ASSUME NEW iter, Folded(iter) PROVE iter[{1}] = 0 * ByteSize + byte OBVIOUS
  <2>1. iter[{}] = F(iter, {}) /\ iter[{1}] = F(iter, {1}) OBVIOUS
  <2> QED BY <1>1, <2>1
<1>4. DOMAIN <<byte>> = {1} OBVIOUS
<1>5. FoldLeft(LAMBDA value, b : value * ByteSize + b, 0, <<byte>>)
        = (CHOOSE iter : Folded(iter))[{1}]
  BY <1>4 DEF FoldLeft, MapThenFoldSet
<1> QED BY <1>2, <1>3, <1>5, Zenon

LEMMA Bytes ==
  /\ \A v \in Byte : v % ByteSize = v
  /\ \A v \in Int : v % ByteSize \in Byte
  BY SizeAssumption DEF Byte

--------
(* The layout of what was written *)

Item ==
  [tag : {Sequence}, at : Nat, value : Nat]
    \cup [tag : {OctetString}, value : Seq(Byte)]
    \cup [tag : {Integer}, value : Int]

Size(item) ==
  IF item.tag = Sequence THEN 2
  ELSE IF item.tag = OctetString THEN 2 + Len(item.value) ELSE 3

\* The numbers after the first p are this item.
Encoded(item, p) ==
  /\ chunks[p + 1] = item.tag
  /\ item.tag = Sequence => item.at = p + 2 /\ chunks[p + 2] = item.value
  /\ item.tag = OctetString =>
       /\ chunks[p + 2] = Len(item.value)
       /\ \A k \in 1 .. Len(item.value) : chunks[p + 2 + k] = item.value[k]
  /\ item.tag = Integer => chunks[p + 2] = 1 /\ chunks[p + 3] = item.value % ByteSize

\* The items lie one after the other; pos[i] numbers are before the i-th.
Placed(pos) ==
  /\ pos \in [1 .. Len(items) + 1 -> Nat]
  /\ pos[1] = 0 /\ pos[Len(items) + 1] = Len(chunks)
Adjacent(pos) ==
  \A i \in 1 .. Len(items) : pos[i + 1] = pos[i] + Size(items[i])
Ordered(pos) ==
  \A i \in 1 .. Len(items), j \in 1 .. Len(items) + 1 :
    i < j => pos[i] + Size(items[i]) <= pos[j]
AllEncoded(pos) == \A i \in 1 .. Len(items) : Encoded(items[i], pos[i])

Layout(pos) == Placed(pos) /\ Adjacent(pos) /\ Ordered(pos) /\ AllEncoded(pos)

\* The stack says where the lengths of sequences are.
WriterTypes ==
  /\ chunks \in Seq(Nat) /\ items \in Seq(Item) /\ stack \in Seq(Nat)
  /\ \A s \in 1 .. Len(stack) : \E i \in 1 .. Len(items) :
       items[i].tag = Sequence /\ items[i].at = stack[s]

LEMMA ItemTags ==
  ASSUME NEW item \in Item
  PROVE  /\ item.tag \in {Sequence, OctetString, Integer}
         /\ item.tag = Sequence => item.at \in Nat /\ item.value \in Nat
         /\ item.tag = OctetString => item.value \in Seq(Byte)
         /\ item.tag = Integer => item.value \in Int
         /\ Size(item) \in Nat /\ Size(item) >= 2
<1>1. /\ item.tag \in {Sequence, OctetString, Integer}
      /\ item.tag = Sequence => item.at \in Nat /\ item.value \in Nat
      /\ item.tag = OctetString => item.value \in Seq(Byte)
      /\ item.tag = Integer => item.value \in Int
  BY SizeAssumption DEF Item
<1> QED BY <1>1 DEF Size

LEMMA LayoutFacts ==
  ASSUME WriterTypes, NEW pos, Layout(pos)
  PROVE  /\ Len(items) \in Nat /\ Len(chunks) \in Nat
         /\ \A i \in 1 .. Len(items) + 1 : pos[i] \in Nat
         /\ pos[1] = 0 /\ pos[Len(items) + 1] = Len(chunks)
         /\ \A i \in 1 .. Len(items) :
              /\ items[i] \in Item
              /\ Size(items[i]) \in Nat /\ Size(items[i]) >= 2
              /\ pos[i] \in Nat /\ pos[i + 1] \in Nat
              /\ pos[i + 1] = pos[i] + Size(items[i])
              /\ pos[i] + Size(items[i]) <= Len(chunks)
              /\ Encoded(items[i], pos[i])
<1>1. Len(items) \in Nat /\ Len(chunks) \in Nat
      /\ \A i \in 1 .. Len(items) : items[i] \in Item
  BY DEF WriterTypes
<1>2. \A i \in 1 .. Len(items) + 1 : pos[i] \in Nat BY DEF Layout, Placed
<1>3. pos[1] = 0 /\ pos[Len(items) + 1] = Len(chunks) BY DEF Layout, Placed
<1>4. ASSUME NEW i \in 1 .. Len(items)
      PROVE  /\ pos[i] \in Nat /\ pos[i + 1] \in Nat
             /\ pos[i + 1] = pos[i] + Size(items[i])
             /\ pos[i] + Size(items[i]) <= Len(chunks)
             /\ Encoded(items[i], pos[i])
  <2>1. pos[i] \in Nat /\ pos[i + 1] \in Nat BY <1>1, <1>2
  <2>2. pos[i + 1] = pos[i] + Size(items[i]) /\ Encoded(items[i], pos[i])
    BY DEF Layout, Adjacent, AllEncoded
  <2>3. i < Len(items) + 1 /\ Len(items) + 1 \in 1 .. Len(items) + 1 BY <1>1
  <2>4. pos[i] + Size(items[i]) <= pos[Len(items) + 1] BY <2>3 DEF Layout, Ordered
  <2> QED BY <1>3, <2>1, <2>2, <2>4
<1>5. ASSUME NEW i \in 1 .. Len(items)
      PROVE  items[i] \in Item /\ Size(items[i]) \in Nat /\ Size(items[i]) >= 2
  BY <1>1, ItemTags
<1> QED BY <1>1, <1>2, <1>3, <1>4, <1>5

\* Writing one more item.
LEMMA LayoutGrows ==
  ASSUME WriterTypes, NEW pos, Layout(pos), NEW item \in Item,
         NEW new \in Seq(Nat), Len(new) = Size(item), chunks' = chunks \o new,
         NEW p, p = Len(chunks), Encoded(item, p)', items' = Append(items, item)
  PROVE  /\ chunks' \in Seq(Nat) /\ items' \in Seq(Item)
         /\ \E q : Layout(q)' /\ q[1] = pos[1]
<1> DEFINE n == Len(items)
<1>q. PICK q : q = [i \in 1 .. n + 2 |-> IF i = n + 2 THEN p + Size(item) ELSE pos[i]] OBVIOUS
<1>1. /\ chunks \in Seq(Nat) /\ items \in Seq(Item) /\ n \in Nat
      /\ chunks' \in Seq(Nat) /\ items' \in Seq(Item)
      /\ Len(chunks') = p + Size(item) /\ Len(items') = n + 1
      /\ \A i \in 1 .. n : items'[i] = items[i] /\ items[i] \in Item
      /\ items'[n + 1] = item
      /\ \A k \in 1 .. p : chunks'[k] = chunks[k]
      /\ p \in Nat
  BY DEF WriterTypes
<1>2. Size(item) \in Nat /\ \A i \in 1 .. n : Size(items[i]) \in Nat /\ Size(items[i]) >= 2
  BY <1>1, ItemTags
<1>3. pos \in [1 .. n + 1 -> Nat] /\ pos[1] = 0 /\ pos[n + 1] = p BY DEF Layout, Placed
<1>4. q \in [1 .. n + 2 -> Nat] /\ q[1] = 0 /\ q[n + 2] = p + Size(item) /\ q[n + 1] = p
      /\ \A i \in 1 .. n + 1 : q[i] = pos[i]
  BY <1>q, <1>1, <1>2, <1>3
<1> HIDE DEF n
<1>5. ASSUME NEW i \in 1 .. n PROVE Encoded(items[i], pos[i])'
  <2>1. PICK at, it : at = pos[i] /\ it = items[i] OBVIOUS
  <2>2. Encoded(it, at) /\ at \in Nat /\ at + Size(it) <= p /\ it \in Item
    BY <2>1, LayoutFacts DEF n
  <2>3. ASSUME NEW k \in 1 .. Size(it) PROVE chunks'[at + k] = chunks[at + k]
    <3>1. Size(it) \in Nat BY <2>2, ItemTags
    <3>2. at + k \in 1 .. p BY <1>1, <2>2, <3>1
    <3> QED BY <1>1, <3>2
  <2>4. /\ 1 \in 1 .. Size(it) /\ 2 \in 1 .. Size(it)
        /\ it.tag = OctetString =>
             /\ Len(it.value) \in Nat
             /\ \A k \in 1 .. Len(it.value) : 2 + k \in 1 .. Size(it)
        /\ it.tag = Integer => 3 \in 1 .. Size(it)
    BY <2>2, ItemTags, SizeAssumption DEF Size
  <2>5. \A k \in Nat : at + (2 + k) = at + 2 + k BY <2>2
  <2>6. chunks'[at + 1] = chunks[at + 1] /\ chunks'[at + 2] = chunks[at + 2] BY <2>3, <2>4
  <2>7. it.tag = OctetString =>
          \A k \in 1 .. Len(it.value) : chunks'[at + 2 + k] = chunks[at + 2 + k]
    <3> SUFFICES ASSUME it.tag = OctetString, NEW k \in 1 .. Len(it.value)
                 PROVE  chunks'[at + 2 + k] = chunks[at + 2 + k]
      OBVIOUS
    <3>1. 2 + k \in 1 .. Size(it) /\ k \in Nat BY <2>4
    <3>2. at + (2 + k) = at + 2 + k BY <2>5, <3>1
    <3> QED BY <2>3, <3>1, <3>2
  <2>8. it.tag = Integer => chunks'[at + 3] = chunks[at + 3] BY <2>3, <2>4
  <2>9. Encoded(it, at)' BY <2>2, <2>6, <2>7, <2>8 DEF Encoded
  <2> QED BY <1>1, <2>1, <2>9
<1>6. Placed(q)'
  <2>1. n + 1 + 1 = n + 2 BY <1>1
  <2> QED BY <1>1, <1>4, <2>1 DEF Placed
<1>7. ASSUME NEW i \in 1 .. n
      PROVE  /\ items'[i] = items[i] /\ q[i] = pos[i] /\ q[i + 1] = pos[i + 1]
             /\ pos[i + 1] = pos[i] + Size(items[i]) /\ pos[i] \in Nat
             /\ pos[i] + Size(items[i]) <= p
  <2>1. i \in 1 .. n + 1 /\ i + 1 \in 1 .. n + 1 BY <1>1
  <2>2. /\ pos[i + 1] = pos[i] + Size(items[i]) /\ pos[i] \in Nat
        /\ pos[i] + Size(items[i]) <= p
    BY LayoutFacts DEF n
  <2> QED BY <1>1, <1>4, <2>1, <2>2
<1>8. q[n + 1] = p /\ q[n + 2] = p + Size(items'[n + 1]) BY <1>1, <1>4
<1>9. ASSUME NEW i \in 1 .. n + 1 PROVE q[i + 1] = q[i] + Size(items'[i])
  <2>1. CASE i = n + 1 BY <1>1, <1>8, <2>1
  <2>2. CASE i \in 1 .. n BY <1>7, <2>2
  <2>3. i = n + 1 \/ i \in 1 .. n BY <1>1
  <2> QED BY <2>1, <2>2, <2>3
<1>10. ASSUME NEW i \in 1 .. n + 1, NEW j \in 1 .. n + 2, i < j
       PROVE  q[i] + Size(items'[i]) <= q[j]
  <2>1. CASE j = n + 2 /\ i = n + 1 BY <1>1, <1>2, <1>8, <2>1
  <2>2. CASE j = n + 2 /\ i \in 1 .. n
    <3>1. /\ items'[i] = items[i] /\ q[i] = pos[i] /\ pos[i] \in Nat
          /\ pos[i] + Size(items[i]) <= p /\ Size(items[i]) \in Nat
      BY <1>2, <1>7, <2>2
    <3> QED BY <1>1, <1>2, <1>4, <2>2, <3>1
  <2>3. CASE j \in 1 .. n + 1
    <3>1. i \in 1 .. n /\ q[j] = pos[j] BY <1>1, <1>4, <1>10, <2>3
    <3>2. pos[i] + Size(items[i]) <= pos[j] BY <1>10, <2>3, <3>1 DEF Layout, Ordered, n
    <3> QED BY <1>7, <3>1, <3>2
  <2> QED BY <1>1, <2>1, <2>2, <2>3
<1>11. ASSUME NEW i \in 1 .. n + 1 PROVE Encoded(items[i], q[i])'
  <2>1. PICK at, it : at = q[i] /\ it = items'[i] OBVIOUS
  <2>2. CASE i = n + 1
    <3>1. at = p /\ it = item BY <1>1, <1>4, <2>1, <2>2
    <3> QED BY <2>1, <3>1
  <2>3. CASE i \in 1 .. n BY <1>5, <1>7, <2>3
  <2> QED BY <1>1, <2>2, <2>3
<1>12. Layout(q)'
  <2>1. n + 1 + 1 = n + 2 BY <1>1
  <2>2. Adjacent(q)' BY <1>1, <1>9 DEF Adjacent
  <2>3. Ordered(q)' BY <1>1, <1>10, <2>1 DEF Ordered
  <2>4. AllEncoded(q)' BY <1>1, <1>11 DEF AllEncoded
  <2> QED BY <1>6, <2>2, <2>3, <2>4 DEF Layout
<1> QED BY <1>1, <1>3, <1>4, <1>12

\* The length of a sequence is where no other item is.
LEMMA CellsApart ==
  ASSUME WriterTypes, NEW pos, Layout(pos),
         NEW i \in 1 .. Len(items), NEW j \in 1 .. Len(items), i # j,
         items[i].tag = Sequence,
         NEW cell \in pos[j] + 1 .. pos[j] + Size(items[j])
  PROVE  cell # pos[i] + 2
<1>1. Len(items) \in Nat /\ pos[i] \in Nat /\ pos[j] \in Nat BY LayoutFacts
<1>2. Size(items[i]) = 2 /\ Size(items[j]) \in Nat BY ItemTags DEF WriterTypes, Size
<1>3. CASE i < j
  <2>1. pos[i] + 2 <= pos[j] BY <1>1, <1>2, <1>3 DEF Layout, Ordered
  <2> QED BY <1>1, <1>2, <2>1
<1>4. CASE j < i
  <2>1. pos[j] + Size(items[j]) <= pos[i] BY <1>1, <1>2, <1>4 DEF Layout, Ordered
  <2> QED BY <1>1, <1>2, <2>1
<1> QED BY <1>1, <1>3, <1>4

\* The first numbers of a sequence.
LEMMA SubSeqFacts ==
  ASSUME NEW S, NEW s \in Seq(S), NEW m \in 0 .. Len(s)
  PROVE  /\ SubSeq(s, 1, m) \in Seq(S) /\ Len(SubSeq(s, 1, m)) = m
         /\ \A k \in 1 .. m : SubSeq(s, 1, m)[k] = s[k]
  OBVIOUS

\* Two elements and a sequence, appended at once or one after the other.
LEMMA AppendedAtOnce ==
  ASSUME NEW S, NEW s \in Seq(S), NEW t \in Seq(S), NEW a \in S, NEW b \in S
  PROVE  s \o <<a, b>> \o t = s \o (<<a, b>> \o t)
  OBVIOUS

\* One element of a sequence.
LEMMA SubSeqOfOne ==
  ASSUME NEW S, NEW s \in Seq(S), NEW m \in 1 .. Len(s)
  PROVE  SubSeq(s, m, m) \in Seq(S) /\ Len(SubSeq(s, m, m)) = 1 /\ SubSeq(s, m, m)[1] = s[m]
  OBVIOUS

LEMMA EndKeeps ==
  ASSUME WriterTypes, NEW pos, Layout(pos), EndSequence
  PROVE  WriterTypes' /\ Layout(pos)'
<1> DEFINE n == Len(items)
<1>1. PICK top, length : top = Last(stack) /\ length = Len(chunks) - top OBVIOUS
<1>2. /\ chunks' = [chunks EXCEPT ![top] = length]
      /\ items' = [i \in DOMAIN items |-> Ended(items[i], length)]
      /\ stack' = Front(stack) /\ stack # <<>>
  BY <1>1 DEF EndSequence
<1>3. chunks \in Seq(Nat) /\ items \in Seq(Item) /\ stack \in Seq(Nat) /\ n \in Nat
      /\ \A i \in 1 .. n : items[i] \in Item
  BY DEF WriterTypes
<1>4. Len(stack) \in Nat \ {0} /\ top = stack[Len(stack)] BY <1>1, <1>2, <1>3 DEF Last
<1>5. PICK i \in 1 .. n : items[i].tag = Sequence /\ items[i].at = top BY <1>3, <1>4 DEF WriterTypes
<1>6. /\ pos[i] \in Nat /\ top = pos[i] + 2 /\ Size(items[i]) = 2
      /\ pos[i] + 2 <= pos[n + 1] /\ pos[n + 1] = Len(chunks)
  <2>1. PICK at, it : at = pos[i] /\ it = items[i] OBVIOUS
  <2>2. Size(it) = 2 /\ at \in Nat /\ at + Size(it) <= Len(chunks) /\ Encoded(it, at)
    BY <1>5, <2>1, LayoutFacts DEF Size
  <2>3. top = at + 2 BY <1>5, <2>1, <2>2 DEF Encoded
  <2> QED BY <2>1, <2>2, <2>3, LayoutFacts
<1>7. top \in 1 .. Len(chunks) /\ length \in Nat
  <2>1. PICK at, end : at = pos[i] /\ end = Len(chunks) OBVIOUS
  <2>2. at \in Nat /\ end \in Nat /\ top = at + 2 /\ at + 2 <= end BY <1>3, <1>6, <2>1
  <2>3. length = end - top BY <1>1, <2>1
  <2>4. top \in 1 .. end /\ length \in Nat BY ONLY <2>2, <2>3
  <2> QED BY <2>1, <2>4
<1>8. /\ chunks' \in Seq(Nat) /\ Len(chunks') = Len(chunks)
      /\ \A k \in 1 .. Len(chunks) : chunks'[k] = IF k = top THEN length ELSE chunks[k]
  BY <1>2, <1>3, <1>7
<1>9. ASSUME NEW j \in 1 .. n
      PROVE  /\ Ended(items[j], length) \in Item
             /\ Ended(items[j], length).tag = items[j].tag
             /\ items[j].tag = Sequence =>
                  /\ Ended(items[j], length).at = items[j].at
                  /\ Ended(items[j], length).value =
                       IF items[j].at = top THEN length ELSE items[j].value
             /\ items[j].tag # Sequence => Ended(items[j], length) = items[j]
  <2>1. CASE items[j].tag = Sequence
    <3>1. items[j] \in [tag : {Sequence}, at : Nat, value : Nat]
      BY <1>3, <2>1, SizeAssumption DEF Item
    <3> QED BY <1>1, <1>7, <2>1, <3>1 DEF Ended, Item
  <2>2. CASE items[j].tag # Sequence BY <1>3, <2>2 DEF Ended
  <2> QED BY <2>1, <2>2
<1>10. /\ DOMAIN items' = 1 .. n
       /\ \A j \in 1 .. n : items'[j] = Ended(items[j], length)
  BY <1>2, <1>3
<1>11. items' \in Seq(Item) /\ Len(items') = n
  <2>1. items' \in [1 .. n -> Item] BY <1>2, <1>3, <1>9
  <2> QED BY <1>3, <2>1, SequenceOf
<1>12. \A j \in 1 .. n : Size(items'[j]) = Size(items[j]) BY <1>9, <1>10 DEF Size
<1>13. /\ stack' \in Seq(Nat) /\ Len(stack') = Len(stack) - 1
       /\ \A s \in 1 .. Len(stack') : stack'[s] = stack[s]
  <2>1. PICK m : m = Len(stack) - 1 /\ m \in 0 .. Len(stack) BY <1>4
  <2>2. stack' = SubSeq(stack, 1, m) BY <1>2, <2>1 DEF Front
  <2> QED BY <1>3, <2>1, <2>2, SubSeqFacts
<1>14. WriterTypes'
  <2>1. ASSUME NEW s \in 1 .. Len(stack')
        PROVE  \E j \in 1 .. n : items'[j].tag = Sequence /\ items'[j].at = stack'[s]
    <3>1. s \in 1 .. Len(stack) /\ stack'[s] = stack[s] BY <1>4, <1>13
    <3>2. PICK j \in 1 .. n : items[j].tag = Sequence /\ items[j].at = stack[s]
      BY <3>1 DEF WriterTypes
    <3> QED BY <1>9, <1>10, <3>1, <3>2
  <2> QED BY <1>8, <1>11, <1>13, <2>1 DEF WriterTypes
<1>15. ASSUME NEW j \in 1 .. n PROVE Encoded(items[j], pos[j])'
  <2>1. PICK at, it, was : at = pos[j] /\ it = items'[j] /\ was = items[j] OBVIOUS
  <2>2. /\ Encoded(was, at) /\ at \in Nat /\ at + Size(was) <= Len(chunks)
        /\ was \in Item /\ it = Ended(was, length)
    BY <1>10, <2>1, LayoutFacts
  <2>3. CASE j = i
    <3>1. was.tag = Sequence /\ was.at = top /\ at + 2 = top /\ at + 1 # top
      BY <1>5, <1>6, <2>1, <2>3
    <3>2. it.tag = Sequence /\ it.at = top /\ it.value = length BY <1>9, <2>1, <2>2, <3>1
    <3>3. /\ at + 1 \in 1 .. Len(chunks) /\ at + 1 # top
          /\ chunks'[at + 1] = chunks[at + 1] /\ chunks'[top] = length
      <4>1. at \in Nat /\ top \in 1 .. Len(chunks) /\ at + 2 = top BY <1>7, <2>2, <3>1
      <4>2. at + 1 \in 1 .. Len(chunks) /\ at + 1 # top BY <1>3, <4>1
      <4> QED BY <1>7, <1>8, <4>2
    <3>4. chunks[at + 1] = Sequence BY <2>2, <3>1 DEF Encoded
    <3>5. Encoded(it, at)' BY <3>1, <3>2, <3>3, <3>4, SizeAssumption DEF Encoded
    <3> QED BY <2>1, <3>5
  <2>4. CASE j # i
    <3>1. ASSUME NEW k \in at + 1 .. at + Size(was) PROVE chunks'[k] = chunks[k]
      <4>1. k # top BY <1>5, <1>6, <2>1, <2>4, CellsApart
      <4>2. Size(was) \in Nat BY <2>2, ItemTags
      <4>3. k \in 1 .. Len(chunks) BY <1>3, <2>2, <4>2
      <4> QED BY <1>8, <4>1, <4>3
    <3>2. was.tag = Sequence => was.at # top
      <4> SUFFICES ASSUME was.tag = Sequence PROVE at + 2 # top BY <2>2 DEF Encoded
      <4>1. at + 2 \in pos[j] + 1 .. pos[j] + Size(items[j]) BY <2>1, <2>2 DEF Size
      <4> QED BY <1>5, <1>6, <2>4, <4>1, CellsApart
    <3>3. it.tag = was.tag /\ (was.tag # Sequence => it = was)
          /\ (was.tag = Sequence => it.at = was.at /\ it.value = was.value)
      BY <1>9, <2>1, <2>2, <3>2
    <3>4. /\ at + 1 \in at + 1 .. at + Size(was) /\ at + 2 \in at + 1 .. at + Size(was)
          /\ was.tag = OctetString => \A k \in 1 .. Len(was.value) :
               at + 2 + k \in at + 1 .. at + Size(was)
          /\ was.tag = Integer => at + 3 \in at + 1 .. at + Size(was)
      BY <2>2, ItemTags, SizeAssumption DEF Size
    <3>5. Encoded(it, at)'
      <4>1. chunks'[at + 1] = it.tag BY <2>2, <3>1, <3>3, <3>4 DEF Encoded
      <4>2. it.tag = Sequence => it.at = at + 2 /\ chunks'[at + 2] = it.value
        BY <2>2, <3>1, <3>3, <3>4 DEF Encoded
      <4>3. it.tag # Sequence => it = was BY <3>3
      <4>4. it.tag = OctetString =>
              /\ chunks'[at + 2] = Len(it.value)
              /\ \A k \in 1 .. Len(it.value) : chunks'[at + 2 + k] = it.value[k]
        BY <2>2, <3>1, <3>4, <4>3, SizeAssumption DEF Encoded
      <4>5. it.tag = Integer =>
              chunks'[at + 2] = 1 /\ chunks'[at + 3] = it.value % ByteSize
        BY <2>2, <3>1, <3>4, <4>3, SizeAssumption DEF Encoded
      <4> QED BY <4>1, <4>2, <4>4, <4>5 DEF Encoded
    <3> QED BY <2>1, <3>5
  <2> QED BY <2>3, <2>4
<1>16. Layout(pos)'
  <2>1. Placed(pos)' BY <1>8, <1>11 DEF Layout, Placed
  <2>2. Adjacent(pos)' BY <1>11, <1>12 DEF Layout, Adjacent
  <2>3. Ordered(pos)' BY <1>11, <1>12 DEF Layout, Ordered
  <2>4. AllEncoded(pos)' BY <1>11, <1>15 DEF AllEncoded
  <2> QED BY <2>1, <2>2, <2>3, <2>4 DEF Layout
<1> QED BY <1>14, <1>16

\* Each call of the writer keeps the layout.
WriteStep ==
  \/ StartSequence \/ EndSequence
  \/ \E string \in Strings : WriteString(string)
  \/ \E value \in Numbers : WriteInt(value)

LEMMA WriteKeeps ==
  ASSUME WriterTypes, NEW pos, Layout(pos), WriteStep
  PROVE  WriterTypes' /\ \E q : Layout(q)' /\ q[1] = pos[1]
<1>1. PICK p : p = Len(chunks) OBVIOUS
<1>2. p \in Nat /\ chunks \in Seq(Nat) /\ items \in Seq(Item) /\ stack \in Seq(Nat)
  BY <1>1 DEF WriterTypes
<1>3. ASSUME stack' = stack, items' \in Seq(Item), chunks' \in Seq(Nat), NEW item,
             items' = Append(items, item)
      PROVE  WriterTypes'
  <2>1. ASSUME NEW s \in 1 .. Len(stack)
        PROVE  \E i \in 1 .. Len(items') : items'[i].tag = Sequence /\ items'[i].at = stack[s]
    <3>1. PICK i \in 1 .. Len(items) : items[i].tag = Sequence /\ items[i].at = stack[s]
      BY DEF WriterTypes
    <3>2. items'[i] = items[i] /\ i \in 1 .. Len(items') BY <1>2, <1>3
    <3> QED BY <3>1, <3>2, Zenon
  <2> QED BY <1>2, <1>3, <2>1, Zenon DEF WriterTypes
<1>4. CASE StartSequence
  <2> DEFINE item == [tag |-> Sequence, at |-> p + 2, value |-> 0]
  <2>1. /\ chunks' = chunks \o <<Sequence, 0>> /\ items' = Append(items, item)
        /\ stack' = Append(stack, p + 2)
    BY <1>1, <1>4 DEF StartSequence
  <2>2. item \in Item /\ item.tag = Sequence /\ item.at = p + 2 /\ item.value = 0 BY <1>2 DEF Item
  <2>3. Size(item) = 2 BY DEF Size
  <2>4. <<Sequence, 0>> \in Seq(Nat) /\ Len(<<Sequence, 0>>) = 2 BY SizeAssumption DEF Byte
  <2>5. chunks'[p + 1] = Sequence /\ chunks'[p + 2] = 0 BY <1>1, <1>2, <2>1, <2>4
  <2> HIDE DEF item
  <2>6. Encoded(item, p)' BY <2>2, <2>5, SizeAssumption DEF Encoded
  <2>7. /\ chunks' \in Seq(Nat) /\ items' \in Seq(Item)
        /\ \E q : Layout(q)' /\ q[1] = pos[1]
    BY <1>1, <2>1, <2>2, <2>3, <2>4, <2>6, LayoutGrows
  <2>8. Len(items') = Len(items) + 1 /\ items'[Len(items) + 1] = item
        /\ Len(items) \in Nat
        /\ \A i \in 1 .. Len(items) : items'[i] = items[i]
    BY <1>2, <2>1
  <2>9. ASSUME NEW s \in 1 .. Len(stack')
        PROVE  \E i \in 1 .. Len(items') :
                 items'[i].tag = Sequence /\ items'[i].at = stack'[s]
    <3>1. CASE s = Len(stack) + 1
      <4>1. stack'[s] = p + 2 BY <1>2, <2>1, <3>1
      <4> QED BY <2>2, <2>8, <4>1
    <3>2. CASE s \in 1 .. Len(stack)
      <4>1. stack'[s] = stack[s] BY <1>2, <2>1, <3>2
      <4>2. PICK i \in 1 .. Len(items) : items[i].tag = Sequence /\ items[i].at = stack[s]
        BY <3>2 DEF WriterTypes
      <4>3. i \in 1 .. Len(items') BY <2>8
      <4> QED BY <2>8, <4>1, <4>2, <4>3
    <3>3. Len(stack') = Len(stack) + 1 /\ Len(stack) \in Nat BY <1>2, <2>1
    <3> QED BY <3>1, <3>2, <3>3
  <2>10. stack' \in Seq(Nat) BY <1>2, <2>1
  <2> QED BY <2>7, <2>9, <2>10 DEF WriterTypes
<1>5. ASSUME NEW string \in Strings, WriteString(string)
      PROVE  WriterTypes' /\ \E q : Layout(q)' /\ q[1] = pos[1]
  <2> DEFINE item == [tag |-> OctetString, value |-> string]
             new == <<OctetString, Len(string)>> \o string
  <2>1. string \in Seq(Byte) BY SizeAssumption
  <2>2. /\ new \in Seq(Nat) /\ Len(new) = 2 + Len(string) /\ Len(string) \in Nat
        /\ new[1] = OctetString /\ new[2] = Len(string)
        /\ \A k \in 1 .. Len(string) : new[2 + k] = string[k]
    <3>1. string \in Seq(Nat) /\ OctetString \in Nat BY <2>1, SizeAssumption DEF Byte
    <3> QED BY <3>1
  <2>3. items' = Append(items, item) /\ stack' = stack
        /\ chunks' = chunks \o <<OctetString, Len(string)>> \o string
    BY <1>5 DEF WriteString
  <2>4. chunks' = chunks \o new
    <3>1. string \in Seq(Nat) /\ OctetString \in Nat /\ Len(string) \in Nat
      BY <2>1, SizeAssumption DEF Byte
    <3>2. chunks \in Seq(Nat) BY <1>2
    <3>3. chunks \o <<OctetString, Len(string)>> \o string = chunks \o new
      BY ONLY <3>1, <3>2, AppendedAtOnce
    <3> QED BY <2>3, <3>3
  <2>5. item \in Item /\ item.tag = OctetString /\ item.value = string BY <2>1 DEF Item
  <2>6. Size(item) = 2 + Len(string) BY <2>5, SizeAssumption DEF Size
  <2> HIDE DEF new, item
  <2>7. \A k \in 1 .. Len(new) : chunks'[p + k] = new[k] BY <1>1, <1>2, <2>2, <2>4
  <2>8. /\ 1 \in 1 .. Len(new) /\ 2 \in 1 .. Len(new)
         /\ \A k \in 1 .. Len(string) : 2 + k \in 1 .. Len(new)
    BY <2>2
  <2>9. chunks'[p + 1] = OctetString /\ chunks'[p + 2] = Len(string) BY <2>2, <2>7, <2>8
  <2>10. ASSUME NEW k \in 1 .. Len(string) PROVE chunks'[p + 2 + k] = string[k]
    <3>1. p + 2 + k = p + (2 + k) BY <1>2, <2>2
    <3> QED BY <2>2, <2>7, <2>8, <3>1
  <2>11. Encoded(item, p)' BY <2>5, <2>9, <2>10, SizeAssumption DEF Encoded
  <2>12. /\ chunks' \in Seq(Nat) /\ items' \in Seq(Item)
        /\ \E q : Layout(q)' /\ q[1] = pos[1]
    BY <1>1, <2>2, <2>3, <2>4, <2>5, <2>6, <2>11, LayoutGrows
  <2> QED BY <1>3, <2>3, <2>12
<1>6. ASSUME NEW value \in Numbers, WriteInt(value)
      PROVE  WriterTypes' /\ \E q : Layout(q)' /\ q[1] = pos[1]
  <2> DEFINE item == [tag |-> Integer, value |-> value]
             new == <<Integer, 1, value % ByteSize>>
  <2>1. value \in Int /\ value % ByteSize \in Nat BY Bytes, SizeAssumption DEF Byte
  <2>2. items' = Append(items, item) /\ stack' = stack /\ chunks' = chunks \o new
    BY <1>6 DEF WriteInt
  <2>3. item \in Item /\ item.tag = Integer /\ item.value = value BY <2>1 DEF Item
  <2>4. Size(item) = 3 BY <2>3, SizeAssumption DEF Size
  <2>5. new \in Seq(Nat) /\ Len(new) = 3 BY <2>1, SizeAssumption DEF Byte
  <2>6. chunks'[p + 1] = Integer /\ chunks'[p + 2] = 1
        /\ chunks'[p + 3] = value % ByteSize
    BY <1>1, <1>2, <2>2, <2>5
  <2> HIDE DEF item, new
  <2>7. Encoded(item, p)' BY <2>3, <2>6, SizeAssumption DEF Encoded
  <2>8. /\ chunks' \in Seq(Nat) /\ items' \in Seq(Item)
        /\ \E q : Layout(q)' /\ q[1] = pos[1]
    BY <1>1, <2>2, <2>3, <2>4, <2>5, <2>7, LayoutGrows
  <2> QED BY <1>3, <2>2, <2>8
<1>7. CASE EndSequence BY <1>7, EndKeeps
<1> QED BY <1>4, <1>5, <1>6, <1>7 DEF WriteStep

--------
(* What the reader makes of it *)

\* A prefix of the bytes of the writer is there.
Arrived ==
  /\ bytes \in Seq(Byte) /\ Len(bytes) <= Len(chunks)
  /\ \A k \in 1 .. Len(bytes) : bytes[k] = chunks[k] % ByteSize

\* The reader is where the next item starts, unless an item did not fit.
Reading(pos) ==
  /\ Len(got) <= Len(items)
  /\ status \in {"writing", "underflow"} => got = <<>>
  /\ status \in {"reading", "threw"} => Arrived
  /\ FitUpTo(Len(got)) => offset = pos[Len(got) + 1]

GotType == \E S : got \in Seq(S)

Inv ==
  /\ WriterTypes /\ GotType
  /\ \E pos : Layout(pos) /\ Reading(pos)
  /\ ReadsBack /\ ThrowsOnlyOnTruncation

LEMMA NumberOfOne ==
  ASSUME NEW at \in Nat, bytes \in Seq(Byte), at + 1 <= Len(bytes)
  PROVE  Number(at, 1) = Result(bytes[at + 1], at + 1)
<1>1. bytes[at + 1] \in Byte /\ bytes[at + 1] \in Int /\ ByteSize \in Int BY SizeAssumption DEF Byte
<1>2. SubSeq(bytes, at + 1, at + 1) = <<bytes[at + 1]>>
  <2>1. PICK one : one = SubSeq(bytes, at + 1, at + 1) OBVIOUS
  <2>2. one \in Seq(Byte) /\ Len(one) = 1 /\ one[1] = bytes[at + 1]
    <3>1. at + 1 \in 1 .. Len(bytes) OBVIOUS
    <3> QED BY <2>1, <3>1, SubSeqOfOne
  <2>3. one = [k \in 1 .. 1 |-> bytes[at + 1]] BY <2>2
  <2>4. <<bytes[at + 1]>> = [k \in 1 .. 1 |-> bytes[at + 1]] OBVIOUS
  <2> QED BY <2>1, <2>3, <2>4
<1>3. PICK byte : byte = bytes[at + 1] OBVIOUS
<1>4. FoldLeft(LAMBDA value, b : value * ByteSize + b, 0, <<byte>>) = byte
  <2>1. 0 * ByteSize + byte = byte BY <1>1, <1>3
  <2> QED BY <2>1, FoldOfOne, Zenon
<1>5. ~(at + 1 > Len(bytes)) OBVIOUS
<1> QED BY <1>2, <1>3, <1>4, <1>5, Zenon DEF Number

\* The bytes of an item that fits, as far as they arrived.
LEMMA ItemBytes ==
  ASSUME WriterTypes, Arrived, NEW item \in Item, NEW p \in Nat,
         Encoded(item, p), p + Size(item) <= Len(chunks), Fits(item)
  PROVE  /\ Len(bytes) \in Nat
         /\ p + 1 <= Len(bytes) => bytes[p + 1] = item.tag
         /\ p + 2 <= Len(bytes) =>
              /\ bytes[p + 2] < High
              /\ bytes[p + 2] = IF item.tag = Sequence THEN item.value
                                ELSE IF item.tag = OctetString THEN Len(item.value)
                                ELSE 1
         /\ item.tag = OctetString => \A k \in 1 .. Len(item.value) :
              p + 2 + k <= Len(bytes) => bytes[p + 2 + k] = item.value[k]
         /\ item.tag = Integer /\ p + 3 <= Len(bytes) => bytes[p + 3] = item.value
<1>1. Len(bytes) \in Nat /\ Len(chunks) \in Nat
      /\ \A k \in 1 .. Len(bytes) : bytes[k] = chunks[k] % ByteSize
  BY DEF Arrived, WriterTypes
<1>2. /\ item.tag \in Byte
      /\ High \in Nat /\ High <= ByteSize /\ 1 < High /\ ByteSize \in Nat
      /\ Sequence # Integer /\ Integer # OctetString /\ OctetString # Sequence
  BY ItemTags, SizeAssumption DEF High
<1>3. \A v : v \in Nat /\ v < High => v \in Byte /\ v % ByteSize = v
  <2>1. \A v \in Nat : v < High => v \in Byte BY <1>2 DEF Byte
  <2> QED BY <2>1, Bytes
<1>4. chunks[p + 1] = item.tag BY DEF Encoded
<1>5. p + 1 <= Len(bytes) => bytes[p + 1] = item.tag BY <1>1, <1>2, <1>4, Bytes
<1>6. /\ chunks[p + 2] = IF item.tag = Sequence THEN item.value
                         ELSE IF item.tag = OctetString THEN Len(item.value) ELSE 1
      /\ chunks[p + 2] \in Nat /\ chunks[p + 2] < High
  <2>1. CASE item.tag = Sequence BY <1>2, <2>1, ItemTags DEF Encoded, Fits
  <2>2. CASE item.tag = OctetString
    <3>1. Len(item.value) \in Nat BY <2>2, ItemTags
    <3>2. Len(item.value) < High BY <1>2, <2>2 DEF Fits
    <3>3. chunks[p + 2] = Len(item.value) BY <2>2 DEF Encoded
    <3> QED BY <1>2, <2>2, <3>1, <3>2, <3>3
  <2>3. CASE item.tag = Integer BY <1>2, <2>3 DEF Encoded
  <2> QED BY <2>1, <2>2, <2>3, ItemTags
<1>7. p + 2 <= Len(bytes) => bytes[p + 2] = chunks[p + 2] BY <1>1, <1>3, <1>6
<1>8. ASSUME item.tag = OctetString, NEW k \in 1 .. Len(item.value),
             p + 2 + k <= Len(bytes)
      PROVE  bytes[p + 2 + k] = item.value[k]
  <2>1. item.value[k] \in Byte /\ k \in Nat BY <1>8, ItemTags
  <2>2. chunks[p + 2 + k] = item.value[k] BY <1>8 DEF Encoded
  <2>3. p + 2 + k \in 1 .. Len(bytes) BY <1>1, <1>8, <2>1
  <2> QED BY <1>1, <2>1, <2>2, <2>3, Bytes
<1>9. ASSUME item.tag = Integer, p + 3 <= Len(bytes)
      PROVE  bytes[p + 3] = item.value
  <2>1. item.value \in Byte BY <1>2, <1>9 DEF Fits
  <2>2. chunks[p + 3] = item.value % ByteSize BY <1>9 DEF Encoded
  <2>3. p + 3 \in 1 .. Len(bytes) /\ item.value % ByteSize = item.value BY <1>1, <1>9, <2>1, Bytes
  <2> QED BY <1>1, <2>2, <2>3
<1> QED BY <1>1, <1>5, <1>6, <1>7, <1>8, <1>9

\* A header is read if both its bytes are there.
LEMMA HeaderReads ==
  ASSUME WriterTypes, Arrived, NEW item \in Item, NEW p \in Nat, offset = p,
         Encoded(item, p), p + Size(item) <= Len(chunks), Fits(item)
  PROVE  ReadHeader(item.tag) =
           IF p + 2 <= Len(bytes) THEN Result(bytes[p + 2], p + 2) ELSE Throw
<1>1. /\ Len(bytes) \in Nat
      /\ p + 1 <= Len(bytes) => bytes[p + 1] = item.tag
      /\ p + 2 <= Len(bytes) => bytes[p + 2] < High
  BY ItemBytes
<1>2. p + 1 + 1 = p + 2 OBVIOUS
<1>3. CASE p + 2 <= Len(bytes)
  <2>1. ReadByte(p) = Result(bytes[p + 1], p + 1) BY <1>1, <1>3 DEF ReadByte
  <2>2. ReadByte(p + 1) = Result(bytes[p + 2], p + 2) BY <1>1, <1>2, <1>3 DEF ReadByte
  <2>3. ReadLength(p + 1) = Result(bytes[p + 2], p + 2) BY <1>1, <1>3, <2>2 DEF ReadLength, Result
  <2> QED BY <1>1, <1>3, <2>1, <2>3 DEF ReadHeader, Result
<1>4. CASE p + 1 = Len(bytes)
  <2>1. ReadByte(p) = Result(bytes[p + 1], p + 1) BY <1>1, <1>4 DEF ReadByte
  <2>2. ReadByte(p + 1) = Throw BY <1>1, <1>4 DEF ReadByte
  <2>3. ReadLength(p + 1) = Throw BY <2>2 DEF ReadLength, Throw
  <2> QED BY <1>1, <1>4, <2>1, <2>3 DEF ReadHeader, Result
<1>5. CASE p >= Len(bytes)
  <2>1. ReadByte(p) = Throw BY <1>5 DEF ReadByte
  <2> QED BY <1>1, <1>5, <2>1 DEF ReadHeader, Throw
<1> QED BY <1>1, <1>3, <1>4, <1>5

LEMMA SmallerOf ==
  ASSUME NEW near \in Nat, NEW far \in Nat, NEW size \in Nat,
         near <= far, near <= size, NEW end, end = Smaller(far, size)
  PROVE  /\ end \in Nat /\ end <= size /\ end <= far /\ near <= end
         /\ end = far \/ (end = size /\ end < far)
  BY DEF Smaller

\* Reading the next item, while all so far fit: it is returned as it was
\* written, or part of the string is, or bytes are missing.
LEMMA ItemReads ==
  ASSUME WriterTypes, Arrived, NEW item \in Item, NEW p \in Nat, offset = p,
         Encoded(item, p), p + Size(item) <= Len(chunks), Fits(item)
  PROVE  \/ Read(item) = Throw /\ Len(bytes) < Len(chunks)
         \/ \E value :
              /\ Read(item) = Result(value, p + Size(item))
              /\ \/ value = item.value
                 \/ /\ p + Size(item) > Len(bytes) /\ item.tag = OctetString
                    /\ IsPrefix(value, item.value)
<1>1. Len(bytes) \in Nat /\ Len(chunks) \in Nat /\ bytes \in Seq(Byte) BY DEF Arrived, WriterTypes
<1>2. Sequence # Integer /\ Integer # OctetString /\ OctetString # Sequence BY SizeAssumption
<1>3. ReadHeader(item.tag) =
        IF p + 2 <= Len(bytes) THEN Result(bytes[p + 2], p + 2) ELSE Throw
  BY HeaderReads
<1>4. CASE p + 2 > Len(bytes)
  <2>1. ReadHeader(item.tag) = Throw BY <1>1, <1>3, <1>4
  <2>2. Len(bytes) < Len(chunks) BY <1>1, <1>4, ItemTags
  <2>3. CASE item.tag = Sequence BY <1>2, <2>1, <2>2, <2>3 DEF Read
  <2>4. CASE item.tag = OctetString BY <1>2, <2>1, <2>2, <2>4 DEF Read, ReadString, Throw
  <2>5. CASE item.tag = Integer BY <1>2, <2>1, <2>2, <2>5 DEF Read, ReadInt, Throw
  <2> QED BY <2>3, <2>4, <2>5, ItemTags
<1>5. CASE p + 2 <= Len(bytes)
  <2>1. PICK length : length = bytes[p + 2] OBVIOUS
  <2>2. ReadHeader(item.tag) = Result(length, p + 2) BY <1>3, <1>5, <2>1
  <2>3. length = IF item.tag = Sequence THEN item.value
                 ELSE IF item.tag = OctetString THEN Len(item.value) ELSE 1
    BY <1>5, <2>1, ItemBytes
  <2>4. CASE item.tag = Sequence
    <3>1. Size(item) = 2 BY <2>4 DEF Size
    <3>2. Read(item) = ReadHeader(Sequence) BY <1>2, <2>4 DEF Read
    <3> QED BY <2>2, <2>3, <2>4, <3>1, <3>2
  <2>5. CASE item.tag = OctetString
    <3>1. /\ length = Len(item.value) /\ length \in Nat
          /\ Size(item) = 2 + length /\ item.value \in Seq(Byte)
      BY <1>2, <2>3, <2>5, ItemTags DEF Size
    <3>2. length \in Nat /\ Len(bytes) \in Nat /\ p + Size(item) = p + 2 + length
      <4>1. \A m \in Nat : p + (2 + m) = p + 2 + m OBVIOUS
      <4> QED BY <1>1, <3>1, <4>1
    <3>3. PICK end, value : /\ end = Smaller(p + 2 + length, Len(bytes))
                            /\ value = SubSeq(bytes, p + 2 + 1, end)
      OBVIOUS
    <3>4. /\ end \in Nat /\ end <= Len(bytes) /\ end <= p + 2 + length /\ p + 2 <= end
          /\ end = p + 2 + length \/ (end = Len(bytes) /\ end < p + 2 + length)
      <4>1. p + 2 \in Nat /\ p + 2 + length \in Nat /\ p + 2 <= p + 2 + length BY <3>2
      <4>2. PICK near, far, size : near = p + 2 /\ far = p + 2 + length /\ size = Len(bytes) OBVIOUS
      <4>3. /\ near \in Nat /\ far \in Nat /\ size \in Nat
            /\ near <= far /\ near <= size /\ end = Smaller(far, size)
        BY <1>5, <3>2, <3>3, <4>1, <4>2
      <4>4. /\ end \in Nat /\ end <= size /\ end <= far /\ near <= end
            /\ end = far \/ (end = size /\ end < far)
        BY <4>3, SmallerOf
      <4> QED BY <4>2, <4>4
    <3>5. Read(item) = Result(value, p + 2 + length)
      <4>1. Read(item) = ReadString BY <1>2, <2>5 DEF Read
      <4>2. ReadHeader(OctetString) = Result(length, p + 2) BY <2>2, <2>5
      <4>3. ReadString = Result(SubSeq(bytes, p + 2 + 1, Smaller(p + 2 + length, Len(bytes))),
                                p + 2 + length)
        BY <4>2 DEF ReadString, Result
      <4> QED BY <3>3, <4>1, <4>3
    <3>6. /\ Len(value) = end - (p + 2) /\ value \in Seq(Byte)
          /\ \A k \in 1 .. Len(value) : value[k] = bytes[p + 2 + k]
      <4>1. PICK first \in Nat : first = p + 2 + 1 /\ first >= 1 /\ first <= end + 1 BY <3>4
      <4>2. value = SubSeq(bytes, first, end) BY <3>3, <4>1
      <4>3. /\ value \in Seq(Byte) /\ Len(value) = end - first + 1
            /\ \A k \in 1 .. Len(value) : value[k] = bytes[first + k - 1]
        BY <1>1, <3>4, <4>1, <4>2
      <4>4. end - first + 1 = end - (p + 2) /\ \A k \in Nat : first + k - 1 = p + 2 + k
        BY <1>1, <3>4, <4>1
      <4>5. \A k \in 1 .. Len(value) : k \in Nat BY <4>3
      <4> QED BY <4>3, <4>4, <4>5, Zenon
    <3>7. /\ Len(value) \in Nat /\ Len(value) <= Len(item.value)
          /\ \A k \in 1 .. Len(value) : value[k] = item.value[k]
      <4>1. Len(value) \in Nat /\ Len(value) <= Len(item.value)
        <5>1. PICK size : size = Len(value) /\ size = end - (p + 2) BY <3>6
        <5>2. size \in Nat /\ size <= length BY <3>2, <3>4, <5>1
        <5> QED BY <3>1, <5>1, <5>2
      <4>2. ASSUME NEW k \in 1 .. Len(value) PROVE value[k] = item.value[k]
        <5>1. k \in 1 .. Len(item.value) /\ p + 2 + k <= Len(bytes) BY <1>1, <3>1, <3>4, <3>6, <4>1
        <5> QED BY <2>5, <3>6, <5>1, ItemBytes
      <4> QED BY <4>1, <4>2
    <3>8. CASE end = p + 2 + length
      <4>1. Len(value) = Len(item.value) BY <3>1, <3>4, <3>6, <3>8
      <4>2. value = item.value BY <3>1, <3>6, <3>7, <4>1
      <4> QED BY <3>2, <3>5, <4>2
    <3>9. CASE end = Len(bytes) /\ end < p + 2 + length
      <4>1. IsPrefix(value, item.value)
        <5>1. SubSeq(item.value, 1, Len(value)) = value BY <3>1, <3>6, <3>7
        <5>2. SubSeq(value, 1, Len(value)) = value BY <3>6, <3>7
        <5> QED BY <3>7, <5>1, <5>2 DEF IsPrefix
      <4>2. p + Size(item) = p + 2 + length /\ p + Size(item) > Len(bytes) BY <3>2, <3>9
      <4> QED BY <2>5, <3>5, <4>1, <4>2
    <3> QED BY <3>4, <3>8, <3>9
  <2>6. CASE item.tag = Integer
    <3>1. length = 1 /\ Size(item) = 3 BY <1>2, <2>3, <2>6 DEF Size
    <3>2. Read(item) = Number(p + 2, 1) BY <1>2, <2>2, <2>6, <3>1 DEF Read, ReadInt, Result
    <3>3. CASE p + 3 <= Len(bytes)
      <4>1. Number(p + 2, 1) = Result(bytes[p + 3], p + 3)
        <5>1. p + 2 \in Nat /\ p + 2 + 1 = p + 3 OBVIOUS
        <5> QED BY <1>1, <3>3, <5>1, NumberOfOne
      <4>2. bytes[p + 3] = item.value BY <2>6, <3>3, ItemBytes
      <4> QED BY <3>1, <3>2, <4>1, <4>2
    <3>4. CASE ~(p + 3 <= Len(bytes))
      <4>1. Number(p + 2, 1) = Throw
        <5>1. p + 2 + 1 > Len(bytes) BY <1>1, <3>4
        <5> QED BY <5>1, Zenon DEF Number
      <4>2. Len(bytes) < Len(chunks) BY <1>1, <3>1, <3>4
      <4> QED BY <3>2, <4>1, <4>2
    <3> QED BY <3>3, <3>4
  <2> QED BY <2>4, <2>5, <2>6, ItemTags
<1> QED BY <1>1, <1>4, <1>5

\* Nothing is read past the end.
LEMMA ClippedThrows ==
  ASSUME bytes \in Seq(Byte), offset \in Nat, Clipped, NEW item \in Item
  PROVE  Read(item) = Throw
<1>1. ReadByte(offset) = Throw BY DEF Clipped, ReadByte
<1>2. \A tag : ReadHeader(tag) = Throw BY <1>1 DEF ReadHeader, Throw
<1>3. Sequence # Integer /\ Integer # OctetString /\ OctetString # Sequence BY SizeAssumption
<1> QED BY <1>2, <1>3, ItemTags DEF Read, ReadString, ReadInt, Throw

--------
(* The invariant *)

LEMMA InitInv == Init => Inv
<1> SUFFICES ASSUME Init PROVE Inv OBVIOUS
<1>1. WriterTypes /\ GotType BY DEF Init, WriterTypes, GotType
<1>2. PICK pos : pos = [i \in 1 .. 1 |-> 0] OBVIOUS
<1>3. Len(items) = 0 /\ Len(chunks) = 0 /\ Len(got) = 0 /\ DOMAIN got = {} BY DEF Init
<1>4. Layout(pos) BY <1>2, <1>3 DEF Layout, Placed, Adjacent, Ordered, AllEncoded
<1>5. Reading(pos) BY <1>2, <1>3 DEF Reading, Init
<1>6. ReadsBack /\ ThrowsOnlyOnTruncation BY <1>3 DEF ReadsBack, ThrowsOnlyOnTruncation, Init
<1> QED BY <1>1, <1>4, <1>5, <1>6 DEF Inv

\* While the program writes, nothing has been read.
LEMMA WriteInv ==
  ASSUME Inv, status = "writing", WriteStep,
         UNCHANGED <<bytes, offset, got, status>>
  PROVE  Inv'
<1>1. PICK pos : Layout(pos) /\ Reading(pos) BY DEF Inv
<1>2. got = <<>> /\ Len(got) = 0 /\ DOMAIN got = {} BY <1>1 DEF Reading
<1>3. PICK q : WriterTypes' /\ Layout(q)' /\ q[1] = pos[1] BY <1>1, WriteKeeps DEF Inv
<1>4. offset = pos[1]
  <2>1. FitUpTo(0) BY DEF FitUpTo
  <2> QED BY <1>1, <1>2, <2>1 DEF Reading
<1>5. Reading(q)'
  <2>1. Len(items') \in Nat BY <1>3 DEF WriterTypes
  <2> QED BY <1>2, <1>3, <1>4, <2>1 DEF Reading
<1>6. ReadsBack' /\ ThrowsOnlyOnTruncation' BY <1>2 DEF ReadsBack, ThrowsOnlyOnTruncation
<1>7. GotType' BY DEF Inv, GotType
<1> QED BY <1>3, <1>5, <1>6, <1>7 DEF Inv

LEMMA DeliverInv ==
  ASSUME Inv, Deliver
  PROVE  Inv'
<1>1. PICK pos : Layout(pos) /\ Reading(pos) BY DEF Inv
<1>2. status = "writing" /\ status' = "reading"
      /\ UNCHANGED <<chunks, stack, items, offset, got>>
  BY DEF Deliver, writer
<1>3. got = <<>> /\ Len(got) = 0 /\ DOMAIN got = {} BY <1>1, <1>2 DEF Reading
<1>4. PICK size \in 0 .. Len(chunks) : bytes' = SubSeq(Masked, 1, size) BY DEF Deliver
<1>5. chunks \in Seq(Nat) /\ Len(chunks) \in Nat BY DEF Inv, WriterTypes
<1>6. /\ Masked \in Seq(Byte) /\ Len(Masked) = Len(chunks)
      /\ \A k \in 1 .. Len(chunks) : Masked[k] = chunks[k] % ByteSize
  <2>1. \A k \in 1 .. Len(chunks) : chunks[k] \in Int BY <1>5
  <2>2. \A k \in 1 .. Len(chunks) : chunks[k] % ByteSize \in Byte BY <2>1, Bytes
  <2>3. DOMAIN chunks = 1 .. Len(chunks) BY <1>5
  <2>4. PICK masked : masked = Masked OBVIOUS
  <2>5. masked = [k \in 1 .. Len(chunks) |-> chunks[k] % ByteSize] BY <2>3, <2>4 DEF Masked
  <2>6. masked \in [1 .. Len(chunks) -> Byte] BY <2>2, <2>5
  <2>7. masked \in Seq(Byte) /\ Len(masked) = Len(chunks) BY <1>5, <2>6
  <2> QED BY <2>4, <2>5, <2>7
<1>7. /\ bytes' \in Seq(Byte) /\ Len(bytes') = size
      /\ \A k \in 1 .. size : bytes'[k] = chunks[k] % ByteSize
  <2>1. size \in 0 .. Len(Masked) BY <1>6
  <2>2. /\ bytes' \in Seq(Byte) /\ Len(bytes') = size
        /\ \A k \in 1 .. size : bytes'[k] = Masked[k]
    BY <1>4, <1>6, <2>1, SubSeqFacts
  <2>3. \A k \in 1 .. size : k \in 1 .. Len(chunks) BY <1>5
  <2> QED BY <1>6, <2>2, <2>3
<1>8. Arrived'
  <2>1. size <= Len(chunks) BY <1>5
  <2> QED BY <1>2, <1>7, <2>1 DEF Arrived
<1>9. Layout(pos)' /\ WriterTypes' /\ GotType'
  BY <1>1, <1>2 DEF Inv, Layout, Placed, Adjacent, Ordered, AllEncoded, Encoded,
     WriterTypes, GotType
<1>10. Reading(pos)' BY <1>1, <1>2, <1>8 DEF Reading, FitUpTo
<1>11. ReadsBack' /\ ThrowsOnlyOnTruncation' BY <1>2, <1>3 DEF ReadsBack, ThrowsOnlyOnTruncation
<1> QED BY <1>9, <1>10, <1>11 DEF Inv

LEMMA ReadInv ==
  ASSUME Inv, ReadNext
  PROVE  Inv'
<1>1. PICK pos : Layout(pos) /\ Reading(pos) BY DEF Inv
<1>2. /\ status = "reading" /\ Len(got) < Len(items)
      /\ UNCHANGED <<chunks, stack, items, bytes>>
  BY DEF ReadNext, writer
<1>3. PICK S : got \in Seq(S) BY DEF Inv, GotType
<1>4. WriterTypes /\ Arrived BY <1>1, <1>2 DEF Inv, Reading
<1>5. Layout(pos)' /\ WriterTypes' /\ Arrived'
  BY <1>1, <1>2, <1>4, Zenon DEF Layout, Placed, Adjacent, Ordered, AllEncoded, Encoded,
     WriterTypes, Arrived
<1>6. PICK n \in Nat : n = Len(got) /\ n + 1 \in 1 .. Len(items)
                       /\ DOMAIN got = 1 .. n /\ Len(items) \in Nat
  <2>1. Len(items) \in Nat /\ Len(got) \in Nat /\ DOMAIN got = 1 .. Len(got)
    BY <1>3, <1>4 DEF WriterTypes
  <2>2. Len(got) + 1 \in 1 .. Len(items) BY <1>2, <2>1
  <2> QED BY <2>1, <2>2, Zenon
<1>7. PICK item, p : item = items[n + 1] /\ p = pos[n + 1] OBVIOUS
<1>8. /\ item \in Item /\ p \in Nat /\ Size(item) \in Nat
      /\ p + Size(item) <= Len(chunks) /\ Encoded(item, p)
      /\ pos[n + 1 + 1] = p + Size(item)
  BY <1>1, <1>4, <1>6, <1>7, LayoutFacts
<1>9. FitUpTo(n) => offset = p BY <1>1, <1>6, <1>7 DEF Reading
<1>10. FitUpTo(n + 1) => FitUpTo(n) /\ Fits(item) BY <1>6, <1>7 DEF FitUpTo
<1>11. PICK result : result = Read(item) OBVIOUS
<1>12. \/ result.throws /\ status' = "threw" /\ UNCHANGED <<offset, got>>
       \/ /\ ~result.throws /\ status' = "reading"
          /\ offset' = result.next /\ got' = Append(got, result.value)
  BY <1>2, <1>6, <1>7, <1>11 DEF ReadNext
<1>13. FitUpTo(n + 1) =>
         \/ result = Throw /\ Len(bytes) < Len(chunks)
         \/ \E value :
              /\ result = Result(value, p + Size(item))
              /\ \/ value = item.value
                 \/ /\ p + Size(item) > Len(bytes) /\ item.tag = OctetString
                    /\ IsPrefix(value, item.value)
  BY <1>4, <1>8, <1>9, <1>10, <1>11, ItemReads
<1>14. \A m : FitUpTo(m)' = FitUpTo(m) BY <1>2 DEF FitUpTo
<1>15. CASE result.throws /\ status' = "threw" /\ UNCHANGED <<offset, got>>
  <2>1. FitUpTo(n + 1) => Len(bytes) < Len(chunks) BY <1>13, <1>15 DEF Result
  <2>2. ThrowsOnlyOnTruncation' BY <1>2, <1>6, <1>14, <1>15, <2>1 DEF ThrowsOnlyOnTruncation
  <2>3. ReadsBack' BY <1>2, <1>14, <1>15 DEF Inv, ReadsBack, Clipped
  <2>4. Reading(pos)' BY <1>1, <1>2, <1>5, <1>14, <1>15 DEF Reading
  <2>5. GotType' BY <1>15 DEF Inv, GotType
  <2> QED BY <1>5, <2>2, <2>3, <2>4, <2>5 DEF Inv
<1>16. CASE /\ ~result.throws /\ status' = "reading"
            /\ offset' = result.next /\ got' = Append(got, result.value)
  <2>1. PICK value : value = result.value OBVIOUS
  <2>2. /\ got' \in Seq(S \cup {value}) /\ Len(got') = n + 1
        /\ DOMAIN got' = 1 .. n + 1
        /\ got'[n + 1] = value /\ \A i \in 1 .. n : got'[i] = got[i]
    <3>1. got \in Seq(S \cup {value}) BY <1>3
    <3> QED BY <1>6, <1>16, <2>1, <3>1
  <2>3. FitUpTo(n + 1) =>
          /\ offset' = p + Size(item)
          /\ \/ value = item.value
             \/ /\ p + Size(item) > Len(bytes) /\ item.tag = OctetString
                /\ IsPrefix(value, item.value)
    BY <1>13, <1>16, <2>1 DEF Result, Throw
  <2>4. GotType' BY <2>2 DEF GotType
  <2>5. ThrowsOnlyOnTruncation' BY <1>16 DEF ThrowsOnlyOnTruncation
  <2>6. Reading(pos)'
    <3>1. Len(got') <= Len(items') /\ n + 1 + 1 \in Nat BY <1>2, <1>6, <2>2
    <3>2. FitUpTo(n + 1) => offset' = pos[n + 1 + 1] BY <1>8, <2>3
    <3> QED BY <1>5, <1>14, <1>16, <2>2, <3>1, <3>2 DEF Reading
  <2>7. ASSUME NEW i \in 1 .. n, FitUpTo(i)
        PROVE  got[i] = items[i].value
    <3>1. \/ got[i] = items[i].value
          \/ i = Len(got) /\ Clipped
      BY <1>6, <2>7 DEF Inv, ReadsBack
    <3>2. ASSUME i = Len(got), Clipped PROVE FALSE
      <4>1. offset \in Nat BY <1>6, <1>8, <1>9, <2>7, <3>2
      <4>2. result = Throw BY <1>4, <1>8, <1>11, <3>2, <4>1, ClippedThrows DEF Arrived
      <4> QED BY <1>16, <4>2 DEF Throw
    <3> QED BY <3>1, <3>2
  <2>8. ASSUME NEW i \in DOMAIN got', FitUpTo(i)
        PROVE  \/ got'[i] = items[i].value
               \/ /\ i = Len(got') /\ offset' > Len(bytes)
                  /\ items[i].tag = OctetString /\ IsPrefix(got'[i], items[i].value)
    <3>1. CASE i \in 1 .. n BY <2>2, <2>7, <2>8, <3>1
    <3>2. CASE i = n + 1 BY <1>7, <2>2, <2>3, <2>8, <3>2
    <3>3. i \in 1 .. n \/ i = n + 1 BY <1>6, <2>2
    <3> QED BY <3>1, <3>2, <3>3
  <2>9. ReadsBack' BY <1>2, <1>14, <2>8 DEF ReadsBack, Clipped
  <2> QED BY <1>5, <2>4, <2>5, <2>6, <2>9 DEF Inv
<1> QED BY <1>12, <1>15, <1>16

LEMMA StepInv == Inv /\ [Next]_vars => Inv'
<1> SUFFICES ASSUME Inv, [Next]_vars PROVE Inv' OBVIOUS
<1>1. CASE WriteStep
  <2>1. status = "writing" /\ UNCHANGED <<bytes, offset, got, status>>
    BY <1>1 DEF WriteStep, StartSequence, EndSequence, WriteString, WriteInt, Room,
       UnchangedReader
  <2> QED BY <1>1, <2>1, WriteInv
<1>2. ASSUME UNCHANGED <<chunks, stack, items, bytes, offset, got>>,
             status' = status \/ (status = "writing" /\ status' = "underflow")
      PROVE  Inv'
  <2>1. PICK pos : Layout(pos) /\ Reading(pos) BY DEF Inv
  <2>2. Layout(pos)' /\ WriterTypes' /\ GotType'
    BY <1>2, <2>1 DEF Inv, Layout, Placed, Adjacent, Ordered, AllEncoded, Encoded,
       WriterTypes, GotType
  <2>3. Reading(pos)' BY <1>2, <2>1 DEF Reading, FitUpTo, Arrived
  <2>4. ReadsBack' /\ ThrowsOnlyOnTruncation'
    BY <1>2 DEF Inv, ReadsBack, ThrowsOnlyOnTruncation, FitUpTo, Clipped
  <2> QED BY <2>2, <2>3, <2>4 DEF Inv
<1>3. CASE EndSequenceThrows \/ UNCHANGED vars BY <1>2, <1>3 DEF EndSequenceThrows, writer, vars
<1> QED BY <1>1, <1>3, DeliverInv, ReadInv DEF Next, WriteStep

\* In every reachable state the buffer is the encoding of the items, one after the
\* other, and the reader is at one of them unless an item did not fit.
THEOREM Invariant == Spec => []Inv
  BY InitInv, StepInv, PTL DEF Spec

\* For streams of any items, nesting and length, cut off anywhere: what fits is
\* read as it was written, but for a part of the last string.
THEOREM StreamsReadBack == Spec => []ReadsBack
<1>1. Inv => ReadsBack BY DEF Inv
<1> QED BY Invariant, <1>1, PTL

\* And the reader throws only if bytes are missing or an item did not fit.
THEOREM WholeStreamsDoNotThrow == Spec => []ThrowsOnlyOnTruncation
<1>1. Inv => ThrowsOnlyOnTruncation BY DEF Inv
<1> QED BY Invariant, <1>1, PTL

--------
(* Induction over numbers and over sequences, as facts about sets *)

\* A set that has 0 and with each number the next one has all numbers: otherwise
\* those below a missing one would all fit among themselves without 0.
LEMMA Induction ==
  ASSUME NEW S, 0 \in S, \A n \in Nat : n \in S => n + 1 \in S, NEW n \in Nat
  PROVE  n \in S
<1> SUFFICES ASSUME n \notin S PROVE FALSE OBVIOUS
<1> DEFINE A == {k \in 0 .. n : k \in S}
           B == A \ {0}
           f == [k \in A |-> k + 1]
<1>1. IsFiniteSet(A) /\ IsFiniteSet(B) /\ Cardinality(B) = Cardinality(A) - 1
      /\ Cardinality(A) \in Nat
  <2>1. 0 \in A OBVIOUS
  <2>2. IsFiniteSet(0 .. n) /\ A \in SUBSET (0 .. n) BY FS_Interval
  <2>3. IsFiniteSet(A) BY <2>2, FS_Subset
  <2> QED BY <2>1, <2>3, FS_RemoveElement, FS_CardinalityType
<1>2. f \in [A -> B]
  <2>1. ASSUME NEW k \in A PROVE k + 1 \in B
    <3>1. k # n /\ k + 1 \in S /\ k \in 0 .. n OBVIOUS
    <3> QED BY <3>1
  <2> QED BY <2>1
<1>3. PICK x \in A, y \in A : x # y /\ f[x] = f[y]
  <2> HIDE DEF A, B, f
  <2> QED BY <1>1, <1>2, FS_PigeonHole
<1> QED BY <1>3

LEMMA Appended ==
  ASSUME NEW T, NEW s \in Seq(T), NEW x \in T
  PROVE  /\ Append(s, x) \in Seq(T) /\ Len(Append(s, x)) = Len(s) + 1
         /\ \A i \in 1 .. Len(s) : Append(s, x)[i] = s[i]
         /\ Append(s, x)[Len(s) + 1] = x
  OBVIOUS

LEMMA Joined ==
  ASSUME NEW T, NEW s \in Seq(T), NEW t \in Seq(T)
  PROVE  /\ s \o t \in Seq(T) /\ Len(s \o t) = Len(s) + Len(t)
         /\ \A i \in 1 .. Len(s) : (s \o t)[i] = s[i]
         /\ \A i \in 1 .. Len(t) : (s \o t)[Len(s) + i] = t[i]
  OBVIOUS

LEMMA JoinedEmpty ==
  ASSUME NEW T, NEW s \in Seq(T)
  PROVE  s \o <<>> = s /\ <<>> \o s = s
  OBVIOUS

LEMMA JoinedLast ==
  ASSUME NEW T, NEW s \in Seq(T), NEW t \in Seq(T), NEW x \in T
  PROVE  /\ s \o <<x>> = Append(s, x) /\ s \o Append(t, x) = Append(s \o t, x)
         /\ <<x>> \in Seq(T) /\ Append(t, x) \in Seq(T)
  OBVIOUS

LEMMA JoinedShort ==
  ASSUME NEW T, NEW t \in T, NEW u \in T
  PROVE  <<t>> \in Seq(T) /\ <<u>> \in Seq(T) /\ <<t>> \o <<u>> = <<t, u>>
<1>1. <<t>> \in Seq(T) /\ <<u>> \in Seq(T) /\ <<t, u>> = Append(<<t>>, u) OBVIOUS
<1>2. PICK s : s = <<t>> OBVIOUS
<1>3. s \o <<u>> = Append(s, u) BY ONLY <1>1, <1>2, u \in T
<1> QED BY <1>1, <1>2, <1>3, Zenon

LEMMA JoinedTwice ==
  ASSUME NEW T, NEW s \in Seq(T), NEW t \in Seq(T), NEW u \in Seq(T)
  PROVE  (s \o t) \o u = s \o (t \o u)
  OBVIOUS

\* The same, of an operator that the provers do not take apart.
Then(s, t) == s \o t

LEMMA ThenTwice ==
  ASSUME NEW T, NEW s \in Seq(T), NEW t \in Seq(T), NEW u \in Seq(T)
  PROVE  Then(Then(s, t), u) = Then(s, Then(t, u))
  BY JoinedTwice DEF Then

LEMMA SameSeq ==
  ASSUME NEW T, NEW s \in Seq(T), NEW t \in Seq(T), Len(s) = Len(t),
         \A i \in 1 .. Len(s) : s[i] = t[i]
  PROVE  s = t
  BY SeqEqual

\* A sequence that is not empty, without its last element.
LEMMA LastApart ==
  ASSUME NEW T, NEW s \in Seq(T), NEW n \in Nat, Len(s) = n + 1
  PROVE  /\ SubSeq(s, 1, n) \in Seq(T) /\ Len(SubSeq(s, 1, n)) = n /\ s[n + 1] \in T
         /\ s = Append(SubSeq(s, 1, n), s[n + 1])
  OBVIOUS

\* A set that has <<>> and with each sequence every longer one by an element.
LEMMA SeqInduction ==
  ASSUME NEW T, NEW S, <<>> \in S,
         \A s \in Seq(T), x \in T : s \in S => Append(s, x) \in S,
         NEW s \in Seq(T)
  PROVE  s \in S
<1> DEFINE A == {n \in Nat : \A r \in Seq(T) : Len(r) = n => r \in S}
<1>1. 0 \in A
  <2>1. ASSUME NEW r \in Seq(T), Len(r) = 0 PROVE r = <<>> BY <2>1
  <2> QED BY <2>1
<1>2. ASSUME NEW n \in Nat, n \in A PROVE n + 1 \in A
  <2>1. ASSUME NEW r \in Seq(T), Len(r) = n + 1 PROVE r \in S
    <3>1. PICK q, x : q = SubSeq(r, 1, n) /\ x = r[n + 1] OBVIOUS
    <3>2. q \in Seq(T) /\ x \in T /\ Len(q) = n /\ r = Append(q, x) BY <2>1, <3>1, LastApart
    <3> QED BY <1>2, <3>2
  <2> QED BY <2>1
<1>3. Len(s) \in A
  <2> HIDE DEF A
  <2> QED BY <1>1, <1>2, Induction
<1> QED BY <1>3

--------
(* FlattenSeq *)

\* What flattening a sequence of pieces is after each of them.
Flattening(f, q) ==
  \A i \in 1 .. Len(q) : f[i] = IF i = 1 THEN q[i] ELSE f[i - 1] \o q[i]

LEMMA FlatteningExists ==
  ASSUME NEW S, NEW q \in Seq(S), Len(q) > 0
  PROVE  \E f : f = [i \in 1 .. Len(q) |-> IF i = 1 THEN q[i] ELSE f[i - 1] \o q[i]]
<1> DEFINE F(f, n) == f = [i \in 1 .. n |-> IF i = 1 THEN q[i] ELSE f[i - 1] \o q[i]]
           A == {n \in Nat : \E f : F(f, n)}
<1>1. 0 \in A
  <2>1. [i \in 1 .. 0 |-> <<>>] = [i \in 1 .. 0 |-> IF i = 1 THEN q[i] ELSE [j \in 1 .. 0 |-> <<>>][i - 1] \o q[i]]
    OBVIOUS
  <2> QED BY <2>1
<1>2. ASSUME NEW n \in Nat, n \in A PROVE n + 1 \in A
  <2>1. PICK f : F(f, n) BY <1>2
  <2> DEFINE g == [i \in 1 .. n + 1 |-> IF i = 1 THEN q[i] ELSE f[i - 1] \o q[i]]
  <2>2. \A i \in 1 .. n : g[i] = f[i]
    <3>1. \A i \in 1 .. n : f[i] = IF i = 1 THEN q[i] ELSE f[i - 1] \o q[i] BY <2>1, Zenon
    <3> QED BY <3>1
  <2>3. ASSUME NEW i \in 1 .. n + 1
        PROVE  g[i] = IF i = 1 THEN q[i] ELSE g[i - 1] \o q[i]
    <3>1. CASE i = 1 BY <3>1
    <3>2. CASE i # 1
      <4>1. i - 1 \in 1 .. n BY <3>2
      <4> QED BY <2>2, <3>2, <4>1
    <3> QED BY <3>1, <3>2
  <2>4. F(g, n + 1) BY <2>3
  <2> HIDE DEF g, F
  <2> QED BY <2>4
<1>3. Len(q) \in A
  <2> HIDE DEF A
  <2> QED BY <1>1, <1>2, Induction
<1> QED BY <1>3

LEMMA FlattenIs ==
  ASSUME NEW S, NEW q \in Seq(S), Len(q) > 0, NEW f, Flattening(f, q)
  PROVE  FlattenSeq(q) = f[Len(q)]
<1> DEFINE F(h) == h = [i \in 1 .. Len(q) |-> IF i = 1 THEN q[i] ELSE h[i - 1] \o q[i]]
<1>1. ASSUME NEW h, F(h) PROVE h[Len(q)] = f[Len(q)]
  <2> DEFINE A == {n \in Nat : n + 1 <= Len(q) => h[n + 1] = f[n + 1]}
  <2>1. 0 \in A BY <1>1 DEF Flattening
  <2>2. ASSUME NEW n \in Nat, n \in A PROVE n + 1 \in A
    <3>1. SUFFICES ASSUME n + 2 <= Len(q) PROVE h[n + 2] = f[n + 2] OBVIOUS
    <3>2. n + 2 \in 1 .. Len(q) /\ n + 2 # 1 /\ (n + 2) - 1 = n + 1 BY <3>1
    <3>3. h[n + 2] = h[n + 1] \o q[n + 2] BY <1>1, <3>2
    <3>4. f[n + 2] = f[n + 1] \o q[n + 2] BY <3>2 DEF Flattening
    <3>5. h[n + 1] = f[n + 1] BY <2>2, <3>1
    <3> QED BY <3>3, <3>4, <3>5
  <2>3. Len(q) - 1 \in A
    <3> HIDE DEF A
    <3> QED BY <2>1, <2>2, Induction
  <2> QED BY <2>3
<1>2. \E h : F(h) BY FlatteningExists
<1>3. FlattenSeq(q) = (CHOOSE h : F(h))[Len(q)] BY DEF FlattenSeq
<1> QED BY <1>1, <1>2, <1>3

LEMMA FlattenEmpty == FlattenSeq(<<>>) = <<>>
  BY DEF FlattenSeq

LEMMA FlattenAppend ==
  ASSUME NEW S, NEW q \in Seq(Seq(S)), NEW x \in Seq(S)
  PROVE  FlattenSeq(Append(q, x)) = FlattenSeq(q) \o x
<1> DEFINE p == Append(q, x)
<1>1. /\ p \in Seq(Seq(S)) /\ Len(p) = Len(q) + 1 /\ p[Len(q) + 1] = x /\ Len(q) \in Nat
      /\ \A i \in 1 .. Len(q) : p[i] = q[i]
  BY Appended
<1> HIDE DEF p
<1>2. PICK f : f = [i \in 1 .. Len(p) |-> IF i = 1 THEN p[i] ELSE f[i - 1] \o p[i]]
  <2>1. Len(p) > 0 BY <1>1
  <2> QED BY <1>1, <2>1, FlatteningExists, Zenon
<1>3. Flattening(f, p) /\ FlattenSeq(p) = f[Len(p)]
  <2>1. Flattening(f, p) BY <1>2, Zenon DEF Flattening
  <2>2. Len(p) > 0 BY <1>1
  <2> QED BY <1>1, <2>1, <2>2, FlattenIs, Zenon
<1>4. CASE Len(q) = 0
  <2>1. q = <<>> BY <1>4
  <2>2. f[1] = x BY <1>1, <1>3, <1>4 DEF Flattening
  <2>3. <<>> \o x = x OBVIOUS
  <2> QED BY <1>1, <1>3, <1>4, <2>1, <2>2, <2>3, FlattenEmpty DEF p
<1>5. CASE Len(q) > 0
  <2>1. Flattening(f, q) BY <1>1, <1>3 DEF Flattening
  <2>2. FlattenSeq(q) = f[Len(q)] BY <1>5, <2>1, FlattenIs
  <2>3. f[Len(p)] = f[Len(q)] \o x
    <3>1. Len(p) \in 1 .. Len(p) /\ Len(p) # 1 /\ Len(p) - 1 = Len(q) BY <1>1, <1>5
    <3> QED BY <1>1, <1>3, <3>1 DEF Flattening
  <2> QED BY <1>3, <2>2, <2>3 DEF p
<1> QED BY <1>1, <1>4, <1>5

LEMMA FlattenType ==
  ASSUME NEW S, NEW q \in Seq(Seq(S))
  PROVE  FlattenSeq(q) \in Seq(S)
<1> DEFINE A == {r \in Seq(Seq(S)) : FlattenSeq(r) \in Seq(S)}
<1>1. <<>> \in A
  <2>1. <<>> \in Seq(S) /\ <<>> \in Seq(Seq(S)) OBVIOUS
  <2> QED BY <2>1, FlattenEmpty, Zenon
<1>2. ASSUME NEW r \in Seq(Seq(S)), NEW x \in Seq(S), r \in A PROVE Append(r, x) \in A
  <2>1. Append(r, x) \in Seq(Seq(S)) OBVIOUS
  <2>2. FlattenSeq(r) \o x \in Seq(S) BY <1>2
  <2> QED BY <2>1, <2>2, FlattenAppend
<1>3. q \in A
  <2> HIDE DEF A
  <2> QED BY <1>1, <1>2, SeqInduction
<1> QED BY <1>3

LEMMA FlattenConcat ==
  ASSUME NEW S, NEW p \in Seq(Seq(S)), NEW q \in Seq(Seq(S))
  PROVE  FlattenSeq(p \o q) = FlattenSeq(p) \o FlattenSeq(q)
<1> DEFINE A == {r \in Seq(Seq(S)) : FlattenSeq(p \o r) = FlattenSeq(p) \o FlattenSeq(r)}
<1>1. <<>> \in A
  <2>1. p \o <<>> = p /\ FlattenSeq(p) \o <<>> = FlattenSeq(p) BY FlattenType
  <2>2. <<>> \in Seq(Seq(S)) OBVIOUS
  <2> QED BY <2>1, <2>2, FlattenEmpty, Zenon
<1>2. ASSUME NEW r \in Seq(Seq(S)), NEW x \in Seq(S), r \in A PROVE Append(r, x) \in A
  <2>1. /\ FlattenSeq(p) \in Seq(S) /\ FlattenSeq(r) \in Seq(S) /\ p \o r \in Seq(Seq(S))
        /\ Append(r, x) \in Seq(Seq(S))
    BY FlattenType
  <2>2. p \o Append(r, x) = Append(p \o r, x) OBVIOUS
  <2>3. FlattenSeq(p \o Append(r, x)) = (FlattenSeq(p) \o FlattenSeq(r)) \o x
    BY <1>2, <2>1, <2>2, FlattenAppend
  <2>4. (FlattenSeq(p) \o FlattenSeq(r)) \o x = FlattenSeq(p) \o (FlattenSeq(r) \o x) BY <2>1
  <2> QED BY <2>1, <2>3, <2>4, FlattenAppend
<1>3. q \in A
  <2> HIDE DEF A
  <2> QED BY <1>1, <1>2, SeqInduction
<1> QED BY <1>3

--------
(* Texts written token by token *)

\* e has a piece for every token.
Codes(e, T) == e \in [T -> Seq(T)]

\* Every token of a text written as the piece e has for it.
PiecesOf(e, s) == [i \in DOMAIN s |-> e[s[i]]]
Written(e, s) == FlattenSeq(PiecesOf(e, s))

LEMMA WrittenEmpty == \A e : Written(e, <<>>) = <<>>
<1> SUFFICES ASSUME NEW e PROVE Written(e, <<>>) = <<>> OBVIOUS
<1>1. PiecesOf(e, <<>>) = <<>> BY DEF PiecesOf
<1> QED BY <1>1, FlattenEmpty DEF Written

LEMMA WrittenPieces ==
  ASSUME NEW T, NEW e, Codes(e, T), NEW s \in Seq(T)
  PROVE  PiecesOf(e, s) \in Seq(Seq(T)) /\ Len(PiecesOf(e, s)) = Len(s)
<1> USE DEF Codes, PiecesOf
<1>1. DOMAIN s = 1 .. Len(s) /\ Len(s) \in Nat BY LenProperties
<1>2. \A i \in 1 .. Len(s) : e[s[i]] \in Seq(T) BY ElementOfSeq
<1>3. [i \in DOMAIN s |-> e[s[i]]] \in [1 .. Len(s) -> Seq(T)] BY <1>1, <1>2, Zenon
<1> QED BY <1>1, <1>3, SequenceOf, Zenon

LEMMA WrittenType ==
  ASSUME NEW T, NEW e, Codes(e, T), NEW s \in Seq(T)
  PROVE  Written(e, s) \in Seq(T)
  BY WrittenPieces, FlattenType, Zenon DEF Written

LEMMA WrittenAppend ==
  ASSUME NEW T, NEW e, Codes(e, T), NEW s \in Seq(T), NEW x \in T
  PROVE  Written(e, Append(s, x)) = Written(e, s) \o e[x]
<1>1. PICK q, r, y : q = PiecesOf(e, s) /\ y = e[x] /\ r = Append(s, x) OBVIOUS
<1>2. /\ q \in Seq(Seq(T)) /\ Len(q) = Len(s) /\ y \in Seq(T) /\ r \in Seq(T)
      /\ Len(r) = Len(s) + 1 /\ Len(s) \in Nat
      /\ r[Len(s) + 1] = x /\ \A i \in 1 .. Len(s) : r[i] = s[i]
  <2>1. q \in Seq(Seq(T)) /\ Len(q) = Len(s) BY <1>1, WrittenPieces
  <2>2. y \in Seq(T) BY <1>1 DEF Codes
  <2>3. Append(s, x) \in Seq(T) /\ Len(Append(s, x)) = Len(s) + 1 /\ Append(s, x)[Len(s) + 1] = x
        /\ \A i \in 1 .. Len(s) : Append(s, x)[i] = s[i]
    BY Appended
  <2>4. Len(s) \in Nat OBVIOUS
  <2> QED BY <1>1, <2>1, <2>2, <2>3, <2>4, Zenon
<1>3. PICK p : p = PiecesOf(e, r) OBVIOUS
<1>4. p \in Seq(Seq(T)) /\ Len(p) = Len(s) + 1
  <2>1. r \in Seq(T) /\ Len(r) = Len(s) + 1 BY <1>2
  <2>2. p \in Seq(Seq(T)) /\ Len(p) = Len(r) BY <1>3, <2>1, WrittenPieces
  <2> QED BY <2>1, <2>2, Zenon
<1>5. PICK a : a = Append(q, y) OBVIOUS
<1>6. /\ a \in Seq(Seq(T)) /\ Len(a) = Len(s) + 1 /\ a[Len(s) + 1] = y
      /\ \A i \in 1 .. Len(s) : a[i] = q[i]
  <2>1. q \in Seq(Seq(T)) /\ y \in Seq(T) /\ Len(q) = Len(s) BY <1>2
  <2> QED BY <1>5, <2>1, Appended
<1>7. ASSUME NEW i \in 1 .. Len(p) PROVE p[i] = a[i]
  <2>1. p[i] = e[r[i]] BY <1>2, <1>3, <1>4, LenProperties DEF PiecesOf
  <2>2. CASE i = Len(s) + 1 BY <1>1, <1>2, <1>6, <2>1, <2>2 DEF PiecesOf
  <2>3. CASE i # Len(s) + 1
    <3>1. i \in 1 .. Len(s) BY <1>2, <1>4, <2>3
    <3>2. i \in DOMAIN s BY <3>1
    <3> QED BY <1>1, <1>2, <1>6, <2>1, <3>1, <3>2 DEF PiecesOf
  <2> QED BY <2>2, <2>3
<1>8. p = a BY <1>4, <1>6, <1>7, SeqEqual
<1>9. FlattenSeq(a) = FlattenSeq(q) \o y BY <1>2, <1>5, FlattenAppend, Zenon
<1> QED BY <1>1, <1>3, <1>8, <1>9 DEF Written

\* All the pieces are of tokens in U.
Into(e, T, U) == \A t \in T : e[t] \in Seq(U)

LEMMA WrittenInto ==
  ASSUME NEW T, NEW e, Codes(e, T), NEW U, Into(e, T, U), NEW s \in Seq(T)
  PROVE  Written(e, s) \in Seq(U)
<1> DEFINE A == {r \in Seq(T) : Written(e, r) \in Seq(U)}
<1>1. <<>> \in A
  <2>1. <<>> \in Seq(T) /\ <<>> \in Seq(U) OBVIOUS
  <2> QED BY <2>1, WrittenEmpty
<1>2. ASSUME NEW r \in Seq(T), NEW x \in T, r \in A PROVE Append(r, x) \in A
  <2>1. Append(r, x) \in Seq(T) OBVIOUS
  <2>2. PICK a, b : a = Written(e, r) /\ b = e[x] OBVIOUS
  <2>3. a \in Seq(U) /\ b \in Seq(U) BY <1>2, <2>2 DEF Into
  <2>4. a \o b \in Seq(U) BY ONLY <2>3
  <2>5. Written(e, Append(r, x)) = a \o b BY <2>2, WrittenAppend, Zenon
  <2> QED BY <2>1, <2>4, <2>5, Zenon
<1>3. s \in A
  <2> HIDE DEF A
  <2> QED BY <1>1, <1>2, SeqInduction
<1> QED BY <1>3

LEMMA WrittenShort ==
  ASSUME NEW T, NEW e, Codes(e, T), NEW t \in T, NEW u \in T
  PROVE  Written(e, <<t>>) = e[t] /\ Written(e, <<t, u>>) = e[t] \o e[u]
<1>1. <<>> \in Seq(T) /\ <<t>> \in Seq(T) /\ <<t>> = Append(<<>>, t) /\ <<t, u>> = Append(<<t>>, u)
  OBVIOUS
<1>2. Written(e, <<t>>) = <<>> \o e[t] BY <1>1, WrittenAppend, WrittenEmpty, Zenon
<1>3. <<>> \o e[t] = e[t] OBVIOUS
<1>4. Written(e, <<t, u>>) = Written(e, <<t>>) \o e[u] BY <1>1, WrittenAppend, Zenon
<1> QED BY <1>2, <1>3, <1>4, Zenon

LEMMA WrittenThen ==
  ASSUME NEW T, NEW e, Codes(e, T), NEW s \in Seq(T), NEW t \in Seq(T)
  PROVE  Written(e, Then(s, t)) = Then(Written(e, s), Written(e, t))
<1> DEFINE A == {r \in Seq(T) : Written(e, s \o r) = Written(e, s) \o Written(e, r)}
<1>1. <<>> \in A
  <2>1. Written(e, s) \in Seq(T) BY WrittenType, Zenon
  <2>2. s \o <<>> = s /\ Written(e, s) \o <<>> = Written(e, s) BY <2>1, JoinedEmpty, Zenon
  <2>3. <<>> \in Seq(T) OBVIOUS
  <2> QED BY <2>2, <2>3, WrittenEmpty, Zenon
<1>2. ASSUME NEW r \in Seq(T), NEW x \in T, r \in A PROVE Append(r, x) \in A
  <2>1. s \o Append(r, x) = Append(s \o r, x) /\ s \o r \in Seq(T) /\ Append(r, x) \in Seq(T)
    OBVIOUS
  <2>2. PICK a, b : a = Written(e, s) /\ b = Written(e, r) OBVIOUS
  <2>7. Written(e, s) \in Seq(T) /\ Written(e, r) \in Seq(T) BY WrittenType, Zenon
  <2>8. e[x] \in Seq(T) BY DEF Codes
  <2>3. a \in Seq(T) /\ b \in Seq(T) /\ e[x] \in Seq(T) BY <2>2, <2>7, <2>8, Zenon
  <2>4. (a \o b) \o e[x] = a \o (b \o e[x])
    <3>1. PICK c : c = e[x] OBVIOUS
    <3>3. a \in Seq(T) /\ b \in Seq(T) /\ c \in Seq(T) BY <2>3, <3>1, Zenon
    <3>4. Then(Then(a, b), c) = Then(a, Then(b, c)) BY ONLY <3>3, ThenTwice
    <3>2. (a \o b) \o c = a \o (b \o c) BY ONLY <3>4 DEF Then
    <3> QED BY <3>1, <3>2, Zenon
  <2>5. Written(e, Append(s \o r, x)) = (a \o b) \o e[x] BY <1>2, <2>1, <2>2, WrittenAppend, Zenon
  <2>6. Written(e, Append(r, x)) = b \o e[x] BY <2>2, WrittenAppend, Zenon
  <2> QED BY <2>1, <2>2, <2>4, <2>5, <2>6, Zenon
<1>3. t \in A
  <2> HIDE DEF A
  <2> QED BY <1>1, <1>2, SeqInduction
<1> QED BY <1>3 DEF Then

\* The pieces of e, written again, are those of g.
Rewrites(T, e, f, g) == \A t \in T : Written(f, e[t]) = g[t]

\* Writing what was written is writing once, with the pieces written again.
LEMMA WrittenTwice ==
  ASSUME NEW T, NEW e, Codes(e, T), NEW f, Codes(f, T), NEW g, Codes(g, T),
         Rewrites(T, e, f, g), NEW s \in Seq(T)
  PROVE  Written(f, Written(e, s)) = Written(g, s)
<1> DEFINE A == {r \in Seq(T) : Written(f, Written(e, r)) = Written(g, r)}
<1>1. <<>> \in A
  <2>1. <<>> \in Seq(T) OBVIOUS
  <2> QED BY <2>1, WrittenEmpty
<1>2. ASSUME NEW r \in Seq(T), NEW x \in T, r \in A PROVE Append(r, x) \in A
  <2>1. Append(r, x) \in Seq(T) /\ e[x] \in Seq(T) BY DEF Codes
  <2>2. Written(e, r) \in Seq(T) BY WrittenType, Zenon
  <2>6. Written(e, Append(r, x)) = Written(e, r) \o e[x] BY WrittenAppend, Zenon
  <2>7. Written(f, Then(Written(e, r), e[x])) = Then(Written(f, Written(e, r)), Written(f, e[x]))
    BY <2>1, <2>2, WrittenThen
  <2>3. Written(f, Written(e, Append(r, x))) = Written(f, Written(e, r)) \o Written(f, e[x])
    BY <2>6, <2>7, Zenon DEF Then
  <2>4. Written(g, Append(r, x)) = Written(g, r) \o g[x] BY WrittenAppend, Zenon
  <2>5. Written(f, Written(e, r)) = Written(g, r) /\ Written(f, e[x]) = g[x] BY <1>2 DEF Rewrites
  <2> QED BY <2>1, <2>3, <2>4, <2>5, Zenon
<1>3. s \in A
  <2> HIDE DEF A
  <2> QED BY <1>1, <1>2, SeqInduction
<1> QED BY <1>3

\* With every token for itself.
LEMMA WrittenPlain ==
  ASSUME NEW T, NEW e, Codes(e, T), \A t \in T : e[t] = <<t>>, NEW s \in Seq(T)
  PROVE  Written(e, s) = s
<1> DEFINE A == {r \in Seq(T) : Written(e, r) = r}
<1>1. <<>> \in A
  <2>1. <<>> \in Seq(T) OBVIOUS
  <2> QED BY <2>1, WrittenEmpty, Zenon
<1>2. ASSUME NEW r \in Seq(T), NEW x \in T, r \in A PROVE Append(r, x) \in A
  <2>1. Append(r, x) = r \o <<x>> /\ Append(r, x) \in Seq(T) OBVIOUS
  <2>2. Written(e, Append(r, x)) = Written(e, r) \o e[x] BY WrittenAppend, Zenon
  <2>3. Written(e, r) = r /\ e[x] = <<x>> BY <1>2
  <2> QED BY <2>1, <2>2, <2>3, Zenon
<1>3. s \in A
  <2> HIDE DEF A
  <2> QED BY <1>1, <1>2, SeqInduction
<1> QED BY <1>3

--------
(* Unescape *)

EscapedAt(s, digits, i) == i > 1 /\ s[i] = digits /\ s[i - 1] = Backslash
UnescapedPiece(s, digits, char, i) ==
  CASE EscapedAt(s, digits, i) -> <<char>>
    [] i < Len(s) /\ EscapedAt(s, digits, i + 1) -> <<>>
    [] OTHER -> <<s[i]>>
UnescapedPieces(s, digits, char) == [i \in DOMAIN s |-> UnescapedPiece(s, digits, char, i)]

LEMMA UnescapeIs ==
  \A s, digits, char : Unescape(s, digits, char) = FlattenSeq(UnescapedPieces(s, digits, char))
  BY DEF Unescape, UnescapedPieces, UnescapedPiece, EscapedAt

LEMMA PiecesType ==
  ASSUME NEW T, NEW s \in Seq(T), NEW digits, NEW char \in T
  PROVE  /\ UnescapedPieces(s, digits, char) \in Seq(Seq(T))
         /\ Len(UnescapedPieces(s, digits, char)) = Len(s)
         /\ \A i \in 1 .. Len(s) :
              UnescapedPieces(s, digits, char)[i] = UnescapedPiece(s, digits, char, i)
<1>1. ASSUME NEW i \in 1 .. Len(s) PROVE UnescapedPiece(s, digits, char, i) \in Seq(T)
  <2>1. s[i] \in T OBVIOUS
  <2> QED BY <2>1 DEF UnescapedPiece
<1>2. DOMAIN s = 1 .. Len(s) /\ Len(s) \in Nat OBVIOUS
<1> QED BY <1>1, <1>2 DEF UnescapedPieces

\* An escape may lie across two texts.
Meet(s, t, digits) == s # <<>> /\ t # <<>> /\ s[Len(s)] = Backslash /\ t[1] = digits

\* Two texts are unescaped one by one, unless an escape lies across them.
LEMMA UnescapeThen ==
  ASSUME NEW T, NEW s \in Seq(T), NEW t \in Seq(T), NEW digits, NEW char \in T,
         ~Meet(s, t, digits)
  PROVE  Unescape(Then(s, t), digits, char)
           = Then(Unescape(s, digits, char), Unescape(t, digits, char))
<1> DEFINE n == Len(s)
<1>1. /\ s \o t \in Seq(T) /\ Len(s \o t) = n + Len(t) /\ n \in Nat /\ Len(t) \in Nat
      /\ \A i \in 1 .. n : (s \o t)[i] = s[i]
      /\ \A i \in 1 .. Len(t) : (s \o t)[n + i] = t[i]
  OBVIOUS
<1>2. PICK st : st = s \o t OBVIOUS
<1>3. /\ st \in Seq(T) /\ Len(st) = n + Len(t)
      /\ \A i \in 1 .. n : st[i] = s[i]
      /\ \A i \in 1 .. Len(t) : st[n + i] = t[i]
  BY <1>1, <1>2
<1>4. s = <<>> => n = 0 OBVIOUS
<1>5. t = <<>> => Len(t) = 0 OBVIOUS
<1>6. ~(n > 0 /\ Len(t) > 0 /\ EscapedAt(st, digits, n + 1))
  <2>1. SUFFICES ASSUME n > 0, Len(t) > 0 PROVE ~EscapedAt(st, digits, n + 1) OBVIOUS
  <2>2. st[n + 1] = t[1] /\ (n + 1) - 1 = n /\ st[n] = s[n]
    <3>1. 1 \in 1 .. Len(t) /\ n \in 1 .. n /\ (n + 1) - 1 = n BY <1>1, <2>1
    <3> QED BY <1>3, <3>1, Zenon
  <2> QED BY <1>4, <1>5, <2>1, <2>2 DEF EscapedAt, Meet
<1>7. ASSUME NEW i \in 1 .. n
      PROVE  UnescapedPiece(st, digits, char, i) = UnescapedPiece(s, digits, char, i)
  <2>1. st[i] = s[i] /\ (i > 1 => st[i - 1] = s[i - 1]) BY <1>1, <1>3
  <2>2. EscapedAt(st, digits, i) <=> EscapedAt(s, digits, i) BY <2>1 DEF EscapedAt
  <2>3. i < Len(st) /\ EscapedAt(st, digits, i + 1) <=> i < n /\ EscapedAt(s, digits, i + 1)
    <3>1. CASE i = n BY <1>1, <1>3, <1>6, <3>1
    <3>2. CASE i < n
      <4>1. st[i + 1] = s[i + 1] /\ (i + 1) - 1 = i
        <5>1. i + 1 \in 1 .. n /\ (i + 1) - 1 = i BY <1>1, <3>2
        <5> QED BY <1>3, <5>1, Zenon
      <4>2. i < Len(st) BY <1>1, <1>3, <3>2
      <4>3. EscapedAt(st, digits, i + 1) <=> EscapedAt(s, digits, i + 1)
        BY <2>1, <4>1, Zenon DEF EscapedAt
      <4> QED BY <3>2, <4>2, <4>3, Zenon
    <3> QED BY <1>1, <3>1, <3>2
  <2> QED BY <2>1, <2>2, <2>3 DEF UnescapedPiece
<1>8. ASSUME NEW i \in 1 .. Len(t)
      PROVE  UnescapedPiece(st, digits, char, n + i) = UnescapedPiece(t, digits, char, i)
  <2>1. st[n + i] = t[i] /\ (i > 1 => st[(n + i) - 1] = t[i - 1]) BY <1>1, <1>3
  <2>2. EscapedAt(st, digits, n + i) <=> EscapedAt(t, digits, i)
    <3>1. CASE i = 1 BY <1>1, <1>6, <3>1 DEF EscapedAt
    <3>2. CASE i > 1 BY <1>1, <2>1, <3>2 DEF EscapedAt
    <3> QED BY <3>1, <3>2
  <2>3. n + i < Len(st) /\ EscapedAt(st, digits, (n + i) + 1)
          <=> i < Len(t) /\ EscapedAt(t, digits, i + 1)
    <3>1. n + i < Len(st) <=> i < Len(t) BY <1>1, <1>3
    <3>2. ASSUME i < Len(t)
          PROVE  EscapedAt(st, digits, (n + i) + 1) <=> EscapedAt(t, digits, i + 1)
      <4>1. /\ st[(n + i) + 1] = t[i + 1] /\ ((n + i) + 1) - 1 = n + i /\ (i + 1) - 1 = i
            /\ (n + i) + 1 > 1 /\ i + 1 > 1
        <5>1. (n + i) + 1 = n + (i + 1) /\ i + 1 \in 1 .. Len(t) BY <1>1, <3>2
        <5> QED BY <1>1, <1>3, <5>1
      <4> QED BY <2>1, <4>1 DEF EscapedAt
    <3> QED BY <3>1, <3>2
  <2> QED BY <2>1, <2>2, <2>3 DEF UnescapedPiece
<1>9. UnescapedPieces(st, digits, char)
        = UnescapedPieces(s, digits, char) \o UnescapedPieces(t, digits, char)
  <2>1. PICK p, q, r : /\ p = UnescapedPieces(st, digits, char)
                       /\ q = UnescapedPieces(s, digits, char)
                       /\ r = UnescapedPieces(t, digits, char)
    OBVIOUS
  <2>2. /\ p \in Seq(Seq(T)) /\ q \in Seq(Seq(T)) /\ r \in Seq(Seq(T))
        /\ Len(p) = n + Len(t) /\ Len(q) = n /\ Len(r) = Len(t)
    BY <1>3, <2>1, PiecesType
  <2>3. ASSUME NEW i \in 1 .. n PROVE p[i] = q[i]
    <3>1. i \in 1 .. Len(st) BY <1>1, <1>3
    <3>4. st \in Seq(T) BY <1>3
    <3>2. p[i] = UnescapedPiece(st, digits, char, i) BY <2>1, <3>1, <3>4, PiecesType
    <3>3. q[i] = UnescapedPiece(s, digits, char, i) BY <2>1, PiecesType
    <3> QED BY <1>7, <3>2, <3>3, Zenon
  <2>4. ASSUME NEW i \in 1 .. Len(t) PROVE p[n + i] = r[i]
    <3>1. n + i \in 1 .. Len(st) BY <1>1, <1>3
    <3>4. st \in Seq(T) BY <1>3
    <3>2. p[n + i] = UnescapedPiece(st, digits, char, n + i) BY <2>1, <3>1, <3>4, PiecesType
    <3>3. r[i] = UnescapedPiece(t, digits, char, i) BY <2>1, PiecesType
    <3> QED BY <1>8, <3>2, <3>3, Zenon
  <2> HIDE DEF n
  <2>8. PICK S : S = Seq(T) OBVIOUS
  <2>9. p \in Seq(S) /\ q \in Seq(S) /\ r \in Seq(S) BY <2>2, <2>8, Zenon
  <2>5. /\ q \o r \in Seq(S) /\ Len(q \o r) = n + Len(t)
        /\ \A i \in 1 .. n : (q \o r)[i] = q[i]
        /\ \A i \in 1 .. Len(t) : (q \o r)[n + i] = r[i]
    <3>1. /\ q \o r \in Seq(S) /\ Len(q \o r) = Len(q) + Len(r)
          /\ \A i \in 1 .. Len(q) : (q \o r)[i] = q[i]
          /\ \A i \in 1 .. Len(r) : (q \o r)[Len(q) + i] = r[i]
      BY ONLY <2>9, Joined
    <3> QED BY <2>2, <3>1, Zenon
  <2>6. ASSUME NEW i \in 1 .. Len(p) PROVE p[i] = (q \o r)[i]
    <3>2. CASE i <= n
      <4>1. i \in 1 .. n BY <1>1, <3>2
      <4> QED BY <2>3, <2>5, <4>1, Zenon
    <3>3. CASE i > n
      <4>1. PICK j \in 1 .. Len(t) : i = n + j
        <5>1. i - n \in 1 .. Len(t) /\ i = n + (i - n) BY <1>1, <2>2, <3>3
        <5> QED BY <5>1, Zenon
      <4> QED BY <2>4, <2>5, <4>1, Zenon
    <3> QED BY ONLY <1>1, <2>2, <3>2, <3>3, i \in 1 .. Len(p)
  <2>7. p = q \o r
    <3>1. Len(p) = Len(q \o r) BY <2>2, <2>5
    <3> QED BY ONLY <2>5, <2>6, <2>9, <3>1, SameSeq
  <2> QED BY <2>1, <2>7
<1>10. /\ UnescapedPieces(s, digits, char) \in Seq(Seq(T))
       /\ UnescapedPieces(t, digits, char) \in Seq(Seq(T))
  BY PiecesType, Zenon
<1>11. FlattenSeq(UnescapedPieces(s, digits, char) \o UnescapedPieces(t, digits, char))
         = FlattenSeq(UnescapedPieces(s, digits, char)) \o FlattenSeq(UnescapedPieces(t, digits, char))
  BY <1>10, FlattenConcat, Zenon
<1> QED BY <1>2, <1>9, <1>11, UnescapeIs, Zenon DEF Then

LEMMA UnescapeEmpty ==
  ASSUME NEW digits, NEW char
  PROVE  Unescape(<<>>, digits, char) = <<>>
<1>1. UnescapedPieces(<<>>, digits, char) = <<>> BY DEF UnescapedPieces
<1> QED BY <1>1, UnescapeIs, FlattenEmpty, Zenon

\* Pieces of one or two tokens.
LEMMA FlattenShort ==
  ASSUME NEW T, NEW p \in Seq(T), NEW q \in Seq(T)
  PROVE  FlattenSeq(<<p>>) = p /\ FlattenSeq(<<p, q>>) = p \o q
<1>1. /\ <<>> \in Seq(Seq(T)) /\ <<p>> \in Seq(Seq(T))
      /\ <<p>> = Append(<<>>, p) /\ <<p, q>> = Append(<<p>>, q)
  OBVIOUS
<1>2. FlattenSeq(<<p>>) = <<>> \o p BY <1>1, FlattenAppend, FlattenEmpty, Zenon
<1>3. <<>> \o p = p OBVIOUS
<1>4. FlattenSeq(<<p, q>>) = FlattenSeq(<<p>>) \o q BY <1>1, FlattenAppend, Zenon
<1> QED BY <1>2, <1>3, <1>4, Zenon

LEMMA UnescapeOne ==
  ASSUME NEW t, NEW digits, NEW char
  PROVE  Unescape(<<t>>, digits, char) = <<t>>
<1>1. UnescapedPieces(<<t>>, digits, char) = <<<<t>>>>
  BY DEF UnescapedPieces, UnescapedPiece, EscapedAt
<1>2. <<t>> \in Seq({t}) OBVIOUS
<1>3. FlattenSeq(<<<<t>>>>) = <<t>> BY <1>2, FlattenShort, Zenon
<1> QED BY <1>1, <1>3, UnescapeIs, Zenon

LEMMA UnescapeEscape ==
  ASSUME NEW digits, NEW char
  PROVE  Unescape(<<Backslash, digits>>, digits, char) = <<char>>
<1>1. UnescapedPieces(<<Backslash, digits>>, digits, char) = <<<<>>, <<char>>>>
  BY DEF UnescapedPieces, UnescapedPiece, EscapedAt
<1>2. <<>> \in Seq({char}) /\ <<char>> \in Seq({char}) /\ <<>> \o <<char>> = <<char>> OBVIOUS
<1>3. FlattenSeq(<<<<>>, <<char>>>>) = <<char>> BY <1>2, FlattenShort, Zenon
<1> QED BY <1>1, <1>3, UnescapeIs, Zenon

LEMMA UnescapeOther ==
  ASSUME NEW digits, NEW char, NEW u, u # digits
  PROVE  Unescape(<<Backslash, u>>, digits, char) = <<Backslash, u>>
<1>1. UnescapedPieces(<<Backslash, u>>, digits, char) = <<<<Backslash>>, <<u>>>>
  BY DEF UnescapedPieces, UnescapedPiece, EscapedAt
<1>2. /\ <<Backslash>> \in Seq({Backslash, u}) /\ <<u>> \in Seq({Backslash, u})
      /\ <<Backslash>> \o <<u>> = <<Backslash, u>>
  <2>1. PICK T : T = {Backslash, u} OBVIOUS
  <2>2. Backslash \in T /\ u \in T BY <2>1
  <2> QED BY <2>1, <2>2, JoinedShort, Zenon
<1>3. FlattenSeq(<<<<Backslash>>, <<u>>>>) = <<Backslash, u>> BY <1>2, FlattenShort, Zenon
<1> QED BY <1>1, <1>3, UnescapeIs, Zenon

\* No escape lies across two of the pieces that e has for the tokens of s.
Apart(e, s, digits) ==
  \A i \in 1 .. Len(s) - 1 :
    ~(e[s[i]][Len(e[s[i]])] = Backslash /\ e[s[i + 1]][1] = digits)

LEMMA WrittenEnd ==
  ASSUME NEW T, NEW e, Codes(e, T), \A t \in T : e[t] # <<>>,
         NEW s \in Seq(T), Len(s) > 0
  PROVE  Written(e, s) # <<>> => Written(e, s)[Len(Written(e, s))] = e[s[Len(s)]][Len(e[s[Len(s)]])]
<1>1. PICK n \in Nat : Len(s) = n + 1
  <2>1. Len(s) - 1 \in Nat /\ Len(s) = (Len(s) - 1) + 1 OBVIOUS
  <2> QED BY <2>1, Zenon
<1>2. PICK r, x : r = SubSeq(s, 1, n) /\ x = s[n + 1] OBVIOUS
<1>3. r \in Seq(T) /\ x \in T /\ s = Append(r, x) BY <1>1, <1>2, LastApart
<1>4. PICK w, p, v : w = Written(e, r) /\ p = e[x] /\ v = Written(e, s) OBVIOUS
<1>5. w \in Seq(T) /\ p \in Seq(T) /\ p # <<>> /\ v = w \o p
  <2>1. Written(e, r) \in Seq(T) BY <1>3, WrittenType, Zenon
  <2>2. e[x] \in Seq(T) /\ e[x] # <<>> BY <1>3 DEF Codes
  <2>3. Written(e, s) = Written(e, r) \o e[x] BY <1>3, WrittenAppend, Zenon
  <2> QED BY <1>4, <2>1, <2>2, <2>3, Zenon
<1>6. v[Len(v)] = p[Len(p)]
  <2>1. Len(p) \in 1 .. Len(p) BY <1>5
  <2>2. Len(v) = Len(w) + Len(p) /\ v[Len(w) + Len(p)] = p[Len(p)] BY ONLY <1>5, <2>1, Joined
  <2> QED BY <2>2
<1> QED BY <1>1, <1>2, <1>4, <1>6

\* The pieces of e, none of them empty, are unescaped to those of f.
Returns(T, e, f, digits, char) ==
  \A t \in T : e[t] # <<>> /\ Unescape(e[t], digits, char) = f[t]

\* A text written piece by piece is unescaped piece by piece.
LEMMA UnescapeWritten ==
  ASSUME NEW T, NEW e, Codes(e, T), NEW f, Codes(f, T), NEW digits, NEW char \in T,
         Returns(T, e, f, digits, char),
         NEW s \in Seq(T), Apart(e, s, digits)
  PROVE  Unescape(Written(e, s), digits, char) = Written(f, s)
<1> DEFINE A == {r \in Seq(T) : Apart(e, r, digits) => Unescape(Written(e, r), digits, char) = Written(f, r)}
<1>1. <<>> \in A
  <2>1. <<>> \in Seq(T) OBVIOUS
  <2> QED BY <2>1, WrittenEmpty, UnescapeEmpty, Zenon
<1>2. ASSUME NEW r \in Seq(T), NEW x \in T, r \in A PROVE Append(r, x) \in A
  <2>1. PICK q : q = Append(r, x) OBVIOUS
  <2>2. /\ q \in Seq(T) /\ Len(q) = Len(r) + 1 /\ q[Len(r) + 1] = x /\ Len(r) \in Nat
        /\ \A i \in 1 .. Len(r) : q[i] = r[i]
    BY ONLY <2>1, Appended, r \in Seq(T), x \in T
  <2>3. SUFFICES ASSUME Apart(e, q, digits)
                 PROVE  Unescape(Written(e, q), digits, char) = Written(f, q)
    BY <2>1, <2>2
  <2>4. Apart(e, r, digits)
    <3>1. ASSUME NEW i \in 1 .. Len(r) - 1 PROVE i \in 1 .. Len(q) - 1 /\ q[i] = r[i] /\ q[i + 1] = r[i + 1]
      <4>1. /\ i \in 1 .. Len(q) - 1 /\ i \in 1 .. Len(r) /\ i + 1 \in 1 .. Len(r)
        BY ONLY <2>2, i \in 1 .. Len(r) - 1
      <4> QED BY <2>2, <4>1, Zenon
    <3> QED BY <2>3, <3>1 DEF Apart
  <2>5. Unescape(Written(e, r), digits, char) = Written(f, r) BY <1>2, <2>4
  <2>6. PICK w, p : w = Written(e, r) /\ p = e[x] OBVIOUS
  <2>7. w \in Seq(T) BY <2>6, WrittenType, Zenon
  <2>8. p \in Seq(T) /\ p # <<>> /\ \A t \in T : e[t] # <<>> BY <2>6 DEF Returns, Codes
  <2>9. ~Meet(w, p, digits)
    <3>1. CASE Len(r) = 0
      <4>1. r = <<>> BY <3>1
      <4> QED BY <2>6, <4>1, WrittenEmpty, Zenon DEF Meet
    <3>2. CASE Len(r) > 0
      <4>1. Len(r) \in 1 .. Len(q) - 1 /\ q[Len(r)] = r[Len(r)] BY ONLY <2>2, <3>2
      <4>2. ~(e[r[Len(r)]][Len(e[r[Len(r)]])] = Backslash /\ e[x][1] = digits)
        BY <2>2, <2>3, <4>1 DEF Apart
      <4>3. w # <<>> => w[Len(w)] = e[r[Len(r)]][Len(e[r[Len(r)]])] BY <2>6, <2>8, <3>2, WrittenEnd
      <4> QED BY <2>6, <4>2, <4>3 DEF Meet
    <3> QED BY ONLY <2>2, <3>1, <3>2
  <2>10. Unescape(w \o p, digits, char) = Unescape(w, digits, char) \o Unescape(p, digits, char)
    <3>1. p \in Seq(T) /\ char \in T BY <2>8
    <3>2. Unescape(Then(w, p), digits, char)
            = Then(Unescape(w, digits, char), Unescape(p, digits, char))
      BY ONLY <2>7, <3>1, <2>9, UnescapeThen
    <3> QED BY <3>2, Zenon DEF Then
  <2>11. Written(e, q) = w \o p /\ Written(f, q) = Written(f, r) \o f[x]
    BY <2>1, <2>6, WrittenAppend, Zenon
  <2>12. Unescape(p, digits, char) = f[x] BY <2>6 DEF Returns
  <2> QED BY <2>5, <2>6, <2>10, <2>11, <2>12, Zenon
<1>3. s \in A
  <2> HIDE DEF A
  <2> QED BY <1>1, <1>2, SeqInduction
<1> QED BY <1>3
--------
(* Addresses *)

Special == {Backslash, "$", Comma}

\* The digits a special character is written with.
DigitsOf(char) == IF char = Backslash THEN "5c" ELSE IF char = "$" THEN "24" ELSE "2c"

\* Some characters as escapes, and every other token for itself.
Escapes(chars) == [t \in Tokens |-> IF t \in chars THEN <<Backslash, DigitsOf(t)>> ELSE <<t>>]

LEMMA CommaApart ==
  Comma # Backslash /\ Comma # "$" /\ Comma # "24" /\ Comma # "2c" /\ Comma # "5c" /\ Comma # "text"
  BY Zenon DEF Comma, Backslash

LEMMA SpecialTokens ==
  /\ Special \subseteq Tokens
  /\ \A char \in Special : DigitsOf(char) \in Tokens /\ DigitsOf(char) \notin Special
  /\ \A char \in Special, other \in Special : DigitsOf(char) = DigitsOf(other) => char = other
  /\ Backslash \in Tokens /\ Backslash \in Special /\ "$" \in Special /\ Comma \in Special
  /\ DigitsOf(Backslash) = "5c" /\ DigitsOf("$") = "24" /\ DigitsOf(Comma) = "2c"
  BY CommaApart DEF Special, Tokens, Digits, DigitsOf, Backslash

LEMMA EscapesType ==
  ASSUME NEW chars \in SUBSET Special
  PROVE  /\ Codes(Escapes(chars), Tokens)
         /\ \A t \in Tokens : Escapes(chars)[t] # <<>>
<1>1. ASSUME NEW t \in Tokens
      PROVE  (IF t \in chars THEN <<Backslash, DigitsOf(t)>> ELSE <<t>>) \in Seq(Tokens) \ {<<>>}
  <2>1. CASE t \in chars BY <2>1, SpecialTokens
  <2>2. CASE t \notin chars BY <2>2
  <2> QED BY <2>1, <2>2
<1> QED BY <1>1 DEF Escapes, Codes

LEMMA EscapeWritten ==
  ASSUME NEW line \in Seq(Tokens), NEW char \in Special
  PROVE  Escape(line, char, DigitsOf(char)) = Written(Escapes({char}), line)
<1>1. ASSUME NEW i \in DOMAIN line
      PROVE  (IF line[i] = char THEN <<Backslash, DigitsOf(char)>> ELSE <<line[i]>>)
               = Escapes({char})[line[i]]
  <2>1. line[i] \in Tokens OBVIOUS
  <2> QED BY <2>1 DEF Escapes
<1>2. [i \in DOMAIN line |-> IF line[i] = char THEN <<Backslash, DigitsOf(char)>> ELSE <<line[i]>>]
        = [i \in DOMAIN line |-> Escapes({char})[line[i]]]
  BY <1>1, Zenon
<1> QED BY <1>2, Zenon DEF Escape, Written, PiecesOf

\* Replacing one character more, in a text in which some are escapes already; the
\* backslash must come first.
LEMMA EscapesMore ==
  ASSUME NEW chars \in SUBSET Special, NEW char \in Special, char \notin chars,
         chars = {} \/ char # Backslash, NEW line \in Seq(Tokens)
  PROVE  Escape(Written(Escapes(chars), line), char, DigitsOf(char))
           = Written(Escapes(chars \cup {char}), line)
<1>1. PICK e, f, g : e = Escapes(chars) /\ f = Escapes({char}) /\ g = Escapes(chars \cup {char})
  OBVIOUS
<1>2. Codes(e, Tokens) /\ Codes(f, Tokens) /\ Codes(g, Tokens)
  <2>1. {char} \in SUBSET Special /\ chars \cup {char} \in SUBSET Special OBVIOUS
  <2> QED BY <1>1, <2>1, EscapesType, Zenon
<1>3. ASSUME NEW t \in Tokens PROVE Written(f, e[t]) = g[t]
  <2>1. CASE t \in chars
    <3>1. e[t] = <<Backslash, DigitsOf(t)>> /\ g[t] = <<Backslash, DigitsOf(t)>>
      BY <1>1, <2>1 DEF Escapes
    <3>2. Backslash \in Tokens /\ DigitsOf(t) \in Tokens /\ char # Backslash /\ char # DigitsOf(t)
      BY <2>1, SpecialTokens
    <3>3. f[Backslash] = <<Backslash>> /\ f[DigitsOf(t)] = <<DigitsOf(t)>> BY <1>1, <3>2 DEF Escapes
    <3>6. Written(f, <<Backslash, DigitsOf(t)>>) = f[Backslash] \o f[DigitsOf(t)]
      BY <1>2, <3>2, WrittenShort
    <3>4. Written(f, <<Backslash, DigitsOf(t)>>) = <<Backslash>> \o <<DigitsOf(t)>>
      BY <3>3, <3>6, Zenon
    <3>5. <<Backslash>> \o <<DigitsOf(t)>> = <<Backslash, DigitsOf(t)>> BY <3>2, JoinedShort, Zenon
    <3> QED BY <3>1, <3>4, <3>5, Zenon
  <2>2. CASE t \notin chars
    <3>1. e[t] = <<t>> /\ f[t] = g[t] BY <1>1, <2>2 DEF Escapes
    <3>2. Written(f, <<t>>) = f[t] BY <1>2, WrittenShort, Zenon
    <3> QED BY <3>1, <3>2, Zenon
  <2> QED BY <2>1, <2>2, Zenon
<1>6. Rewrites(Tokens, e, f, g) BY <1>3 DEF Rewrites
<1>4. Written(f, Written(e, line)) = Written(g, line)
  BY ONLY <1>2, <1>6, line \in Seq(Tokens), WrittenTwice
<1>5. Written(e, line) \in Seq(Tokens) BY <1>2, WrittenType, Zenon
<1> QED BY <1>1, <1>4, <1>5, EscapeWritten, Zenon

LEMMA EscapeLineIs ==
  ASSUME NEW line \in Seq(Tokens)
  PROVE  EscapeLine(line) = Written(Escapes(Special), line)
<1>1. Escape(line, Backslash, "5c") = Written(Escapes({Backslash}), line)
  BY EscapeWritten, SpecialTokens, Zenon
<1>2. Escape(Written(Escapes({Backslash}), line), "$", "24")
        = Written(Escapes({Backslash, "$"}), line)
  <2>1. {Backslash} \in SUBSET Special /\ "$" \notin {Backslash} /\ "$" # Backslash /\ "$" \in Special
        /\ {Backslash} \cup {"$"} = {Backslash, "$"} /\ DigitsOf("$") = "24"
    BY SpecialTokens DEF Backslash
  <2> QED BY <2>1, EscapesMore
<1>3. Escape(Written(Escapes({Backslash, "$"}), line), Comma, "2c") = Written(Escapes(Special), line)
  <2>1. {Backslash, "$"} \in SUBSET Special /\ Comma \notin {Backslash, "$"} /\ Comma # Backslash
        /\ Comma \in Special /\ DigitsOf(Comma) = "2c"
    BY SpecialTokens, CommaApart
  <2>2. {Backslash, "$"} \cup {Comma} = Special BY DEF Special
  <2> QED BY <2>1, <2>2, EscapesMore
<1> QED BY <1>1, <1>2, <1>3, Zenon DEF EscapeLine

\* And back: replacing the escapes of one character.
LEMMA EscapesLess ==
  ASSUME NEW chars \in SUBSET Special, NEW char \in chars, NEW line \in Seq(Tokens),
         Backslash \in chars \/ (DigitsOf(char) = "2c" /\ ~HasCommaDigits(line))
  PROVE  Unescape(Written(Escapes(chars), line), DigitsOf(char), char)
           = Written(Escapes(chars \ {char}), line)
<1>1. PICK e, f, d : e = Escapes(chars) /\ f = Escapes(chars \ {char}) /\ d = DigitsOf(char) OBVIOUS
<1>2. /\ Codes(e, Tokens) /\ Codes(f, Tokens)
      /\ \A t \in Tokens : e[t] # <<>>
  <2>1. chars \ {char} \in SUBSET Special OBVIOUS
  <2> QED BY <1>1, <2>1, EscapesType, Zenon
<1>3. char \in Tokens /\ d \in Tokens /\ Backslash \in Tokens /\ char \in Special /\ d \notin Special
  BY <1>1, SpecialTokens
<1>4. ASSUME NEW t \in Tokens PROVE Unescape(e[t], d, char) = f[t]
  <2>1. CASE t \in chars
    <3>1. e[t] = <<Backslash, DigitsOf(t)>> /\ DigitsOf(t) \in Tokens
      BY <1>1, <2>1, SpecialTokens DEF Escapes
    <3>2. CASE t = char
      <4>1. f[t] = <<char>> BY <1>1, <3>2 DEF Escapes
      <4>2. Unescape(<<Backslash, d>>, d, char) = <<char>> BY UnescapeEscape, Zenon
      <4> QED BY <1>1, <3>1, <3>2, <4>1, <4>2, Zenon
    <3>3. CASE t # char
      <4>1. f[t] = <<Backslash, DigitsOf(t)>> BY <1>1, <2>1, <3>3 DEF Escapes
      <4>2. DigitsOf(t) # d BY <1>1, <1>3, <2>1, <3>3, SpecialTokens
      <4>3. Unescape(<<Backslash, DigitsOf(t)>>, d, char) = <<Backslash, DigitsOf(t)>>
        BY <4>2, UnescapeOther, Zenon
      <4> QED BY <3>1, <4>1, <4>3, Zenon
    <3> QED BY <3>2, <3>3, Zenon
  <2>2. CASE t \notin chars
    <3>1. e[t] = <<t>> /\ f[t] = <<t>> BY <1>1, <2>2 DEF Escapes
    <3>2. Unescape(<<t>>, d, char) = <<t>> BY UnescapeOne, Zenon
    <3> QED BY <3>1, <3>2, Zenon
  <2> QED BY <2>1, <2>2, Zenon
<1>5. Apart(e, line, d)
  <2>1. SUFFICES ASSUME NEW i \in 1 .. Len(line) - 1,
                        e[line[i]][Len(e[line[i]])] = Backslash, e[line[i + 1]][1] = d
                 PROVE  FALSE
    BY DEF Apart
  <2>2. line[i] \in Tokens /\ line[i + 1] \in Tokens OBVIOUS
  <2>3. line[i] \notin chars /\ line[i] = Backslash
    <3>1. CASE line[i] \in chars
      <4>1. e[line[i]] = <<Backslash, DigitsOf(line[i])>> BY <1>1, <2>2, <3>1 DEF Escapes
      <4>2. DigitsOf(line[i]) = Backslash BY <2>1, <4>1
      <4> QED BY <3>1, <4>2, SpecialTokens
    <3>2. CASE line[i] \notin chars
      <4>1. e[line[i]] = <<line[i]>> BY <1>1, <2>2, <3>2 DEF Escapes
      <4> QED BY <2>1, <3>2, <4>1
    <3> QED BY <3>1, <3>2
  <2>4. line[i + 1] = d
    <3>1. CASE line[i + 1] \in chars
      <4>1. e[line[i + 1]] = <<Backslash, DigitsOf(line[i + 1])>> BY <1>1, <2>2, <3>1 DEF Escapes
      <4>2. d = Backslash BY <2>1, <4>1
      <4> QED BY <1>3, <4>2, SpecialTokens
    <3>2. CASE line[i + 1] \notin chars
      <4>1. e[line[i + 1]] = <<line[i + 1]>> BY <1>1, <2>2, <3>2 DEF Escapes
      <4> QED BY <2>1, <4>1
    <3> QED BY <3>1, <3>2
  <2> QED BY <1>1, <2>3, <2>4 DEF HasCommaDigits
<1>6. Returns(Tokens, e, f, d, char) BY <1>2, <1>4 DEF Returns
<1>7. Unescape(Written(e, line), d, char) = Written(f, line)
  BY ONLY <1>2, <1>3, <1>5, <1>6, line \in Seq(Tokens), UnescapeWritten
<1> QED BY <1>1, <1>7, Zenon

\* A line comes back unless it has the digits of a comma after a backslash.
LEMMA LineReturns ==
  ASSUME NEW line \in Seq(Tokens), ~HasCommaDigits(line)
  PROVE  UnescapeLine(EscapeLine(line)) = line
<1>1. Unescape(Written(Escapes(Special), line), "24", "$") = Written(Escapes({Backslash, Comma}), line)
  <2>1. Special \ {"$"} = {Backslash, Comma} /\ "$" \in Special /\ Backslash \in Special
        /\ DigitsOf("$") = "24"
    BY SpecialTokens, CommaApart DEF Special, Backslash
  <2> QED BY <2>1, EscapesLess
<1>2. Unescape(Written(Escapes({Backslash, Comma}), line), "5c", Backslash)
        = Written(Escapes({Comma}), line)
  <2>1. {Backslash, Comma} \in SUBSET Special /\ {Backslash, Comma} \ {Backslash} = {Comma}
        /\ Backslash \in {Backslash, Comma} /\ DigitsOf(Backslash) = "5c"
    BY SpecialTokens, CommaApart
  <2> QED BY <2>1, EscapesLess, Zenon
<1>3. Unescape(Written(Escapes({Comma}), line), "2c", Comma) = Written(Escapes({}), line)
  <2>1. {Comma} \in SUBSET Special /\ {Comma} \ {Comma} = {} /\ Comma \in {Comma} /\ DigitsOf(Comma) = "2c"
    BY SpecialTokens
  <2> QED BY <2>1, EscapesLess, Zenon
<1>4. Written(Escapes({}), line) = line
  <2>1. {} \in SUBSET Special /\ \A t \in Tokens : Escapes({})[t] = <<t>> BY DEF Escapes
  <2>2. Codes(Escapes({}), Tokens) BY <2>1, EscapesType, Zenon
  <2> QED BY <2>1, <2>2, WrittenPlain, Zenon
<1> QED BY <1>1, <1>2, <1>3, <1>4, EscapeLineIs, Zenon DEF UnescapeLine

\* No "$" is left in a line that was escaped.
LEMMA EscapedLine ==
  ASSUME NEW line \in Seq(Tokens)
  PROVE  EscapeLine(line) \in Seq(Tokens \ {"$"})
<1>1. Codes(Escapes(Special), Tokens)
  <2>1. Special \in SUBSET Special OBVIOUS
  <2> QED BY <2>1, EscapesType, Zenon
<1>2. ASSUME NEW t \in Tokens PROVE Escapes(Special)[t] \in Seq(Tokens \ {"$"})
  <2>2. CASE t \in Special
    <3>1. Escapes(Special)[t] = <<Backslash, DigitsOf(t)>> BY <2>2 DEF Escapes
    <3>2. Backslash \in Tokens \ {"$"} /\ DigitsOf(t) \in Tokens \ {"$"}
      BY <2>2, SpecialTokens DEF Backslash
    <3> QED BY <3>1, <3>2
  <2>3. CASE t \notin Special
    <3>1. Escapes(Special)[t] = <<t>> BY <2>3 DEF Escapes
    <3>2. t \in Tokens \ {"$"} BY <2>3, SpecialTokens
    <3> QED BY <3>1, <3>2
  <2> QED BY <2>2, <2>3
<1>3. Into(Escapes(Special), Tokens, Tokens \ {"$"}) BY <1>2 DEF Into
<1>4. Written(Escapes(Special), line) \in Seq(Tokens \ {"$"}) BY <1>1, <1>3, WrittenInto
<1> QED BY <1>4, EscapeLineIs

--------
(* The n-th of a set of numbers *)

LEMMA RankType ==
  ASSUME NEW S \in SUBSET Nat, IsFiniteSet(S), NEW e \in S
  PROVE  Rank(S, e) \in 0 .. Cardinality(S) - 1
<1>1. {d \in S : d < e} \in SUBSET (S \ {e}) OBVIOUS
<1>2. /\ IsFiniteSet(S \ {e}) /\ Cardinality(S \ {e}) = Cardinality(S) - 1
      /\ Cardinality(S) \in Nat
  BY FS_RemoveElement, FS_CardinalityType
<1>3. IsFiniteSet({d \in S : d < e}) /\ Rank(S, e) <= Cardinality(S) - 1
  BY <1>1, <1>2, FS_Subset DEF Rank
<1>4. Rank(S, e) \in Nat BY <1>3, FS_CardinalityType DEF Rank
<1> QED BY <1>2, <1>3, <1>4

LEMMA RankGrows ==
  ASSUME NEW S \in SUBSET Nat, IsFiniteSet(S), NEW e \in S, NEW f \in S, e < f
  PROVE  Rank(S, e) < Rank(S, f)
<1> DEFINE Before(x) == {d \in S : d < x}
<1>1. IsFiniteSet(Before(e)) /\ IsFiniteSet(Before(f))
  BY FS_Subset, Before(e) \in SUBSET S, Before(f) \in SUBSET S
<1>2. e \notin Before(e) /\ Before(e) \cup {e} \in SUBSET Before(f)
  <2>1. e \in Nat /\ f \in Nat /\ \A d \in S : d \in Nat OBVIOUS
  <2>2. \A d \in S : d < e => d < f BY <2>1
  <2>3. ~(e < e) BY <2>1
  <2> QED BY <2>2, <2>3
<1>3. Cardinality(Before(e) \cup {e}) = Cardinality(Before(e)) + 1 BY <1>1, <1>2, FS_AddElement
<1>4. Cardinality(Before(e) \cup {e}) <= Cardinality(Before(f)) BY <1>1, <1>2, FS_Subset
<1>5. Cardinality(Before(e)) \in Nat /\ Cardinality(Before(f)) \in Nat BY <1>1, FS_CardinalityType
<1> QED BY <1>3, <1>4, <1>5 DEF Rank

LEMMA RankTells ==
  ASSUME NEW S \in SUBSET Nat, IsFiniteSet(S), NEW e \in S, NEW f \in S,
         Rank(S, e) = Rank(S, f)
  PROVE  e = f
<1>1. e \in Nat /\ f \in Nat /\ Rank(S, e) \in Int BY RankType
<1>2. ~(e < f) /\ ~(f < e) BY <1>1, RankGrows
<1> QED BY <1>1, <1>2

\* Every number below the size of a set is the rank of an element.
LEMMA RankOnto ==
  ASSUME NEW S \in SUBSET Nat, IsFiniteSet(S)
  PROVE  \A i \in 0 .. Cardinality(S) - 1 : \E e \in S : Rank(S, e) = i
<1> DEFINE g == [e \in S |-> Rank(S, e)]
           n == Cardinality(S)
<1>1. n \in Nat BY FS_CardinalityType
<1>2. g \in Injection(S, 0 .. n - 1) BY RankType, RankTells DEF Injection, IsInjective
<1>3. IsFiniteSet(0 .. n - 1) /\ Cardinality(0 .. n - 1) = n
  <2>1. ASSUME NEW k \in Nat
        PROVE  IsFiniteSet(0 .. k - 1) /\ Cardinality(0 .. k - 1) = k
    BY FS_Interval
  <2> QED BY <1>1, <2>1
<1>4. g \in Surjection(S, 0 .. n - 1)
  <2> HIDE DEF g, n
  <2>1. n = Cardinality(S) BY DEF n
  <2> QED BY <1>2, <1>3, <2>1, FS_Injection
<1> QED BY <1>4 DEF Surjection

LEMMA NthType ==
  ASSUME NEW S \in SUBSET Nat, IsFiniteSet(S), NEW i \in 0 .. Cardinality(S) - 1
  PROVE  Nth(S, i) \in S /\ Rank(S, Nth(S, i)) = i
<1>1. \E e \in S : Rank(S, e) = i BY RankOnto
<1> QED BY <1>1 DEF Nth

LEMMA NthIs ==
  ASSUME NEW S \in SUBSET Nat, IsFiniteSet(S), NEW e \in S
  PROVE  Nth(S, Rank(S, e)) = e
<1>1. Rank(S, e) \in 0 .. Cardinality(S) - 1 BY RankType
<1>2. PICK f : f = Nth(S, Rank(S, e)) OBVIOUS
<1>3. f \in S /\ Rank(S, f) = Rank(S, e) BY <1>1, <1>2, NthType
<1> QED BY <1>2, <1>3, RankTells

Below(S, m) == \A d \in S : d < m

\* A number after all those of a set.
LEMMA NthMore ==
  ASSUME NEW S \in SUBSET Nat, IsFiniteSet(S), NEW m \in Nat, Below(S, m)
  PROVE  /\ IsFiniteSet(S \cup {m}) /\ S \cup {m} \in SUBSET Nat
         /\ Cardinality(S \cup {m}) = Cardinality(S) + 1 /\ Cardinality(S) \in Nat
         /\ Nth(S \cup {m}, Cardinality(S)) = m
         /\ \A i \in 0 .. Cardinality(S) - 1 : Nth(S \cup {m}, i) = Nth(S, i)
<1>1. PICK U : U = S \cup {m} OBVIOUS
<1>2. m \notin S
  <2>1. ~(m < m) OBVIOUS
  <2> QED BY <2>1 DEF Below
<1>3. /\ IsFiniteSet(U) /\ U \in SUBSET Nat /\ Cardinality(U) = Cardinality(S) + 1
      /\ Cardinality(S) \in Nat
  BY <1>1, <1>2, FS_AddElement, FS_CardinalityType
<1>4. Nth(U, Cardinality(S)) = m
  <2>1. {d \in U : d < m} = S
    <3>1. \A d \in S : d < m BY DEF Below
    <3>2. ~(m < m) OBVIOUS
    <3> QED BY <1>1, <3>1, <3>2, Zenon
  <2>2. Rank(U, m) = Cardinality(S) /\ m \in U BY <1>1, <2>1 DEF Rank
  <2> QED BY <1>3, <2>2, NthIs
<1>5. ASSUME NEW i \in 0 .. Cardinality(S) - 1 PROVE Nth(U, i) = Nth(S, i)
  <2>1. PICK e : e = Nth(S, i) OBVIOUS
  <2>2. e \in S /\ Rank(S, e) = i BY <2>1, NthType
  <2>3. {d \in U : d < e} = {d \in S : d < e}
    <3>1. e \in Nat /\ e < m BY <2>2 DEF Below
    <3>2. ~(m < e) BY <3>1
    <3> QED BY <1>1, <3>2
  <2>4. Rank(U, e) = i /\ e \in U BY <1>1, <2>2, <2>3 DEF Rank
  <2> QED BY <1>3, <2>1, <2>4, NthIs
<1> QED BY <1>1, <1>3, <1>4, <1>5

--------
(* Parts of a text *)

LEMMA SubAll ==
  ASSUME NEW T, NEW s \in Seq(T)
  PROVE  SubSeq(s, 1, Len(s)) = s
  OBVIOUS

LEMMA SubType ==
  ASSUME NEW T, NEW s \in Seq(T), NEW a \in Nat, NEW b \in Int, 1 <= a, b <= Len(s)
  PROVE  SubSeq(s, a, b) \in Seq(T)
  OBVIOUS

LEMMA SubBefore ==
  ASSUME NEW T, NEW s \in Seq(T), NEW t \in Seq(T),
         NEW a \in Nat, NEW b \in Int, 1 <= a, b <= Len(s)
  PROVE  SubSeq(s \o t, a, b) = SubSeq(s, a, b)
  OBVIOUS

LEMMA SubAfter ==
  ASSUME NEW T, NEW s \in Seq(T), NEW t \in Seq(T)
  PROVE  SubSeq(s \o t, Len(s) + 1, Len(s) + Len(t)) = t
  OBVIOUS

--------
(* SplitAt and Join *)

Cuts(s, places) == {0, Len(s) + 1} \cup places

LEMMA CutsType ==
  ASSUME NEW T, NEW s \in Seq(T), NEW places \in SUBSET (1 .. Len(s))
  PROVE  /\ Cuts(s, places) \in SUBSET (0 .. Len(s) + 1) /\ IsFiniteSet(Cuts(s, places))
         /\ Cardinality(Cuts(s, places)) - 1 \in Nat
         /\ Nth(Cuts(s, places), Cardinality(Cuts(s, places)) - 1) = Len(s) + 1
<1>1. PICK S, n : S = {0} \cup places /\ n = Len(s) OBVIOUS
<1>2. n \in Nat /\ places \in SUBSET (1 .. n) BY <1>1
<1>3. S \in SUBSET Nat /\ S \in SUBSET (0 .. n) /\ Below(S, n + 1) /\ n + 1 \in Nat
  BY <1>1, <1>2 DEF Below
<1>4. IsFiniteSet(S)
  <2>1. IsFiniteSet(0 .. n) BY <1>2, FS_Interval
  <2> QED BY <1>3, <2>1, FS_Subset, Zenon
<1>5. /\ IsFiniteSet(S \cup {n + 1}) /\ Cardinality(S \cup {n + 1}) = Cardinality(S) + 1
      /\ Cardinality(S) \in Nat /\ Nth(S \cup {n + 1}, Cardinality(S)) = n + 1
  BY <1>3, <1>4, NthMore
<1>6. Cuts(s, places) = S \cup {n + 1} BY <1>1 DEF Cuts
<1>7. S \cup {n + 1} \in SUBSET (0 .. n + 1) BY <1>2, <1>3
<1>8. Cardinality(S \cup {n + 1}) - 1 = Cardinality(S) BY <1>5
<1> QED BY <1>1, <1>5, <1>6, <1>7, <1>8

LEMMA SplitAtIs ==
  \A s, places : SplitAt(s, places)
    = [k \in 1 .. Cardinality(Cuts(s, places)) - 1 |->
        SubSeq(s, Nth(Cuts(s, places), k - 1) + 1, Nth(Cuts(s, places), k) - 1)]
  BY DEF SplitAt, Cuts

LEMMA SplitAtType ==
  ASSUME NEW T, NEW s \in Seq(T), NEW places \in SUBSET (1 .. Len(s))
  PROVE  /\ SplitAt(s, places) \in Seq(Seq(T))
         /\ Len(SplitAt(s, places)) = Cardinality(Cuts(s, places)) - 1
<1>1. PICK c, n : c = Cuts(s, places) /\ n = Cardinality(Cuts(s, places)) - 1 OBVIOUS
<1>2. c \in SUBSET (0 .. Len(s) + 1) /\ c \in SUBSET Nat /\ IsFiniteSet(c) /\ n \in Nat
      /\ n = Cardinality(c) - 1
  BY <1>1, CutsType
<1>3. ASSUME NEW k \in 1 .. n PROVE SubSeq(s, Nth(c, k - 1) + 1, Nth(c, k) - 1) \in Seq(T)
  <2>1. k - 1 \in 0 .. Cardinality(c) - 1 /\ k \in 0 .. Cardinality(c) - 1 BY <1>2
  <2>2. PICK a, b : a = Nth(c, k - 1) /\ b = Nth(c, k) OBVIOUS
  <2>3. a \in c /\ b \in c BY <1>2, <2>1, <2>2, NthType
  <2>4. a + 1 \in Nat /\ 1 <= a + 1 /\ b - 1 \in Int /\ b - 1 <= Len(s) BY <1>2, <2>3
  <2>5. SubSeq(s, a + 1, b - 1) \in Seq(T) BY <2>4, SubType
  <2> QED BY <2>2, <2>5
<1>4. SplitAt(s, places) = [k \in 1 .. n |-> SubSeq(s, Nth(c, k - 1) + 1, Nth(c, k) - 1)]
  BY <1>1, SplitAtIs, Zenon
<1>5. SplitAt(s, places) \in [1 .. n -> Seq(T)] BY <1>3, <1>4
<1> QED BY <1>1, <1>2, <1>5, SequenceOf, Zenon

LEMMA SplitWhole ==
  ASSUME NEW T, NEW s \in Seq(T)
  PROVE  SplitAt(s, {}) = <<s>>
<1>1. PICK c, n : c = Cuts(s, {}) /\ n = Len(s) OBVIOUS
<1>2. c = {0} \cup {n + 1} /\ n \in Nat BY <1>1 DEF Cuts
<1>3. IsFiniteSet({0}) /\ Cardinality({0}) = 1 /\ Below({0}, n + 1)
  <2>1. Below({0}, n + 1) BY <1>2 DEF Below
  <2> QED BY <2>1, FS_Singleton
<1>4. Rank({0}, 0) = 0
  <2>1. {d \in {0} : d < 0} = {} OBVIOUS
  <2> QED BY <2>1, FS_EmptySet DEF Rank
<1>5. Nth({0}, 0) = 0 BY <1>3, <1>4, NthIs
<1>6. Cardinality(c) = 2 /\ Nth(c, 1) = n + 1 /\ Nth(c, 0) = 0
  <2>1. {0} \in SUBSET Nat /\ n + 1 \in Nat BY <1>2
  <2>3. /\ Cardinality({0} \cup {n + 1}) = 1 + 1 /\ Nth({0} \cup {n + 1}, 1) = n + 1
        /\ \A i \in 0 .. 1 - 1 : Nth({0} \cup {n + 1}, i) = Nth({0}, i)
    <3>1. /\ Cardinality({0} \cup {n + 1}) = Cardinality({0}) + 1
          /\ Nth({0} \cup {n + 1}, Cardinality({0})) = n + 1
          /\ \A i \in 0 .. Cardinality({0}) - 1 : Nth({0} \cup {n + 1}, i) = Nth({0}, i)
      BY ONLY <1>3, <2>1, NthMore
    <3> QED BY <1>3, <3>1
  <2>2. /\ Cardinality(c) = 2 /\ Nth(c, 1) = n + 1
        /\ Nth(c, 0) = Nth({0}, 0)
    <3>1. 1 + 1 = 2 /\ 0 \in 0 .. 1 - 1 OBVIOUS
    <3> QED BY <1>2, <2>3, <3>1, Zenon
  <2> QED BY <1>5, <2>2
<1>7. SplitAt(s, {}) = [k \in 1 .. 1 |-> SubSeq(s, Nth(c, k - 1) + 1, Nth(c, k) - 1)]
  <2>1. Cardinality(c) - 1 = 1 BY <1>6
  <2> QED BY <1>1, <2>1, SplitAtIs, Zenon
<1>8. SubSeq(s, Nth(c, 0) + 1, Nth(c, 1) - 1) = s
  <2>1. Nth(c, 0) + 1 = 1 /\ Nth(c, 1) - 1 = Len(s) BY <1>1, <1>2, <1>6
  <2> QED BY <2>1, SubAll
<1>9. ASSUME NEW k \in 1 .. 1 PROVE SubSeq(s, Nth(c, k - 1) + 1, Nth(c, k) - 1) = s
  <2>1. k = 1 /\ k - 1 = 0 OBVIOUS
  <2> QED BY <1>8, <2>1
<1>10. [k \in 1 .. 1 |-> s] = <<s>> OBVIOUS
<1> QED BY <1>7, <1>9, <1>10, Zenon

\* A separator after a text, and another text after that.
After(s, x, w) == Then(Then(s, <<x>>), w)
PlacesOf(s, places) == places \in SUBSET (1 .. Len(s))
PlaceAfter(s, places) == places \cup {Len(s) + 1}

LEMMA SplitMore ==
  ASSUME NEW T, NEW s \in Seq(T), NEW x \in T, NEW w \in Seq(T),
         NEW places, PlacesOf(s, places)
  PROVE  SplitAt(After(s, x, w), PlaceAfter(s, places))
           = Append(SplitAt(s, places), w)
<1> USE DEF After, PlacesOf, PlaceAfter
<1>1. PICK r, c, d, n, v : /\ r = Then(Then(s, <<x>>), w) /\ c = Cuts(s, places)
                           /\ d = Cuts(r, places \cup {Len(s) + 1})
                           /\ n = Cardinality(c) - 1 /\ v = <<x>> \o w
  OBVIOUS
<1>2. v \in Seq(T) /\ Len(v) = Len(w) + 1 /\ SubSeq(v, 2, Len(w) + 1) = w BY <1>1
<1>3. r = s \o v
  <2>1. PICK y : y = <<x>> OBVIOUS
  <2>2. y \in Seq(T) BY <2>1
  <2>3. Then(Then(s, y), w) = Then(s, Then(y, w))
    BY ONLY <2>2, s \in Seq(T), w \in Seq(T), ThenTwice
  <2> QED BY <1>1, <2>1, <2>3, Zenon DEF Then
<1>4. r \in Seq(T) /\ Len(r) = Len(s) + 1 + Len(w) /\ Len(s) \in Nat /\ Len(w) \in Nat
  <2>1. r \in Seq(T) /\ Len(r) = Len(s) + Len(v) BY ONLY <1>2, <1>3, s \in Seq(T), Joined
  <2> QED BY <1>2, <2>1
<1>5. /\ c \in SUBSET (0 .. Len(s) + 1) /\ c \in SUBSET Nat /\ IsFiniteSet(c) /\ n \in Nat
      /\ Nth(c, n) = Len(s) + 1
  BY <1>1, CutsType
<1>6. d = c \cup {Len(r) + 1} /\ Len(r) + 1 \in Nat /\ Below(c, Len(r) + 1)
  <2>1. d = c \cup {Len(r) + 1} BY <1>1 DEF Cuts
  <2> QED BY <1>4, <1>5, <2>1 DEF Below
<1>7. /\ Cardinality(d) = Cardinality(c) + 1 /\ Cardinality(c) \in Nat
      /\ Nth(d, Cardinality(c)) = Len(r) + 1
      /\ \A i \in 0 .. Cardinality(c) - 1 : Nth(d, i) = Nth(c, i)
  BY <1>5, <1>6, NthMore
<1>8. PICK p, q : p = SplitAt(r, places \cup {Len(s) + 1}) /\ q = SplitAt(s, places) OBVIOUS
<1>9. p = [k \in 1 .. n + 1 |-> SubSeq(r, Nth(d, k - 1) + 1, Nth(d, k) - 1)]
  <2>2. n = Cardinality(c) - 1 BY <1>1
  <2>1. Cardinality(d) - 1 = n + 1 BY <1>7, <2>2
  <2> QED BY <1>1, <1>8, <2>1, SplitAtIs, Zenon
<1>10. q = [k \in 1 .. n |-> SubSeq(s, Nth(c, k - 1) + 1, Nth(c, k) - 1)]
  BY <1>1, <1>8, SplitAtIs, Zenon
<1>11. q \in Seq(Seq(T)) /\ Len(q) = n BY <1>1, <1>8, SplitAtType
<1>12. ASSUME NEW k \in 1 .. n PROVE p[k] = q[k]
  <2>1. PICK a, b : a = Nth(c, k - 1) /\ b = Nth(c, k) OBVIOUS
  <2>2. k - 1 \in 0 .. Cardinality(c) - 1 /\ k \in 0 .. Cardinality(c) - 1 /\ k \in 1 .. n + 1
    BY <1>1, <1>5
  <2>3. Nth(d, k - 1) = a /\ Nth(d, k) = b BY <1>7, <2>1, <2>2, Zenon
  <2>4. a \in c /\ b \in c BY <1>5, <2>1, <2>2, NthType
  <2>5. a + 1 \in Nat /\ 1 <= a + 1 /\ b - 1 \in Int /\ b - 1 <= Len(s) BY <1>4, <1>5, <2>4
  <2>6. SubSeq(r, a + 1, b - 1) = SubSeq(s, a + 1, b - 1) BY <1>2, <1>3, <2>5, SubBefore
  <2>7. p[k] = SubSeq(r, a + 1, b - 1) /\ q[k] = SubSeq(s, a + 1, b - 1)
    BY <1>9, <1>10, <2>1, <2>2, <2>3
  <2> QED BY <2>6, <2>7, Zenon
<1>13. p[n + 1] = w
  <2>1. n + 1 \in 1 .. n + 1 /\ (n + 1) - 1 = n /\ n + 1 = Cardinality(c) /\ n \in 0 .. Cardinality(c) - 1
    BY <1>1, <1>5, <1>7
  <2>2. Nth(d, n) = Len(s) + 1 /\ Nth(d, n + 1) = Len(r) + 1 BY <1>5, <1>7, <2>1
  <2>3. p[n + 1] = SubSeq(r, Nth(d, n) + 1, Nth(d, n + 1) - 1) BY <1>9, <2>1
  <2>4. (Len(s) + 1) + 1 = Len(s) + 2 /\ (Len(r) + 1) - 1 = Len(s) + 1 + Len(w) BY <1>4
  <2>5. SubSeq(r, Len(s) + 2, Len(s) + 1 + Len(w)) = w
    <3>1. PICK u : u = Then(s, <<x>>) OBVIOUS
    <3>2. u \in Seq(T) /\ Len(u) = Len(s) + 1 /\ r = u \o w
      <4>1. <<x>> \in Seq(T) /\ Len(<<x>>) = 1 OBVIOUS
      <4>2. s \o <<x>> \in Seq(T) /\ Len(s \o <<x>>) = Len(s) + 1 BY <4>1
      <4> QED BY <1>1, <3>1, <4>2, Zenon DEF Then
    <3>3. SubSeq(u \o w, Len(u) + 1, Len(u) + Len(w)) = w BY <3>2, SubAfter
    <3>4. Len(u) + 1 = Len(s) + 2 BY <1>4, <3>2
    <3> QED BY <3>2, <3>3, <3>4
  <2> QED BY <2>2, <2>3, <2>4, <2>5
<1>14. p = Append(q, w)
  <2>1. PICK a, S : a = Append(q, w) /\ S = Seq(T) OBVIOUS
  <2>2. q \in Seq(S) /\ w \in S BY <1>11, <2>1, Zenon
  <2>3. /\ a \in Seq(S) /\ Len(a) = n + 1 /\ a[n + 1] = w
        /\ \A i \in 1 .. n : a[i] = q[i]
    <3>1. /\ a \in Seq(S) /\ Len(a) = Len(q) + 1 /\ a[Len(q) + 1] = w
          /\ \A i \in 1 .. Len(q) : a[i] = q[i]
      BY ONLY <2>1, <2>2, Appended
    <3> QED BY <1>11, <3>1, Zenon
  <2>4. p \in Seq(S) /\ Len(p) = n + 1
    <3>1. places \cup {Len(s) + 1} \in SUBSET (1 .. Len(r))
      <4>1. \A i \in 1 .. Len(s) : i \in 1 .. Len(r) BY <1>4
      <4>2. Len(s) + 1 \in 1 .. Len(r) BY <1>4
      <4> QED BY <4>1, <4>2
    <3>2. p \in Seq(Seq(T)) BY <1>4, <1>8, <3>1, SplitAtType
    <3>3. Len(p) = n + 1 BY <1>5, <1>9, <3>2
    <3> QED BY <2>1, <3>2, <3>3
  <2>5. ASSUME NEW i \in 1 .. n + 1 PROVE p[i] = a[i]
    <3>1. CASE i = n + 1 BY <1>13, <2>3, <3>1
    <3>2. CASE i # n + 1
      <4>1. i \in 1 .. n BY <1>5, <3>2
      <4> QED BY <1>12, <2>3, <4>1
    <3> QED BY <3>1, <3>2
  <2>6. p = a BY ONLY <2>3, <2>4, <2>5, SameSeq
  <2> QED BY <2>1, <2>6
<1> QED BY <1>1, <1>8, <1>14

Joinable(words, x) ==
  [i \in DOMAIN words |-> IF i = 1 THEN words[i] ELSE <<x>> \o words[i]]

LEMMA JoinIs == \A words, x : Join(words, x) = FlattenSeq(Joinable(words, x))
  BY DEF Join, Joinable

LEMMA JoinableType ==
  ASSUME NEW T, NEW words \in Seq(Seq(T)), NEW x \in T
  PROVE  /\ Joinable(words, x) \in Seq(Seq(T)) /\ Len(Joinable(words, x)) = Len(words)
         /\ \A i \in 1 .. Len(words) :
              Joinable(words, x)[i] = IF i = 1 THEN words[i] ELSE <<x>> \o words[i]
<1>1. ASSUME NEW i \in 1 .. Len(words)
      PROVE  (IF i = 1 THEN words[i] ELSE <<x>> \o words[i]) \in Seq(T)
  <2>1. words[i] \in Seq(T) /\ <<x>> \in Seq(T) OBVIOUS
  <2>2. <<x>> \o words[i] \in Seq(T) BY <2>1
  <2> QED BY <2>1, <2>2
<1>2. DOMAIN words = 1 .. Len(words) /\ Len(words) \in Nat OBVIOUS
<1>3. Joinable(words, x) \in [1 .. Len(words) -> Seq(T)] BY <1>1, <1>2 DEF Joinable
<1>4. Joinable(words, x) \in Seq(Seq(T)) /\ Len(Joinable(words, x)) = Len(words)
  BY <1>2, <1>3, SequenceOf, Zenon
<1> QED BY <1>2, <1>4 DEF Joinable

LEMMA JoinType ==
  ASSUME NEW T, NEW words \in Seq(Seq(T)), NEW x \in T
  PROVE  Join(words, x) \in Seq(T)
<1>1. Joinable(words, x) \in Seq(Seq(T)) BY JoinableType
<1> QED BY <1>1, JoinIs, FlattenType

LEMMA JoinOne ==
  ASSUME NEW T, NEW w \in Seq(T), NEW x
  PROVE  Join(<<w>>, x) = w
<1>1. Joinable(<<w>>, x) = <<w>> BY DEF Joinable
<1> QED BY <1>1, JoinIs, FlattenShort

\* A further word is joined with the separator before it.
LEMMA JoinMore ==
  ASSUME NEW T, NEW words \in Seq(Seq(T)), words # <<>>, NEW w \in Seq(T), NEW x \in T
  PROVE  Join(Append(words, w), x) = After(Join(words, x), x, w)
<1> USE DEF After
<1>1. PICK S, v, p, q, y : /\ S = Seq(T) /\ v = Append(words, w) /\ p = Joinable(words, x)
                           /\ q = Joinable(Append(words, w), x) /\ y = <<x>> \o w
  OBVIOUS
<1>2. words \in Seq(S) /\ w \in S BY <1>1
<1>3. /\ v \in Seq(S) /\ Len(v) = Len(words) + 1 /\ v[Len(words) + 1] = w
      /\ \A i \in 1 .. Len(words) : v[i] = words[i]
  BY ONLY <1>1, <1>2, Appended
<1>4. Len(words) \in Nat /\ Len(words) # 0 OBVIOUS
<1>5. /\ p \in Seq(S) /\ Len(p) = Len(words)
      /\ \A i \in 1 .. Len(words) : p[i] = IF i = 1 THEN words[i] ELSE <<x>> \o words[i]
  BY <1>1, JoinableType
<1>6. /\ q \in Seq(S) /\ Len(q) = Len(v)
      /\ \A i \in 1 .. Len(v) : q[i] = IF i = 1 THEN v[i] ELSE <<x>> \o v[i]
  <2>1. v \in Seq(Seq(T)) /\ q = Joinable(v, x) BY <1>1, <1>3
  <2>2. /\ Joinable(v, x) \in Seq(Seq(T)) /\ Len(Joinable(v, x)) = Len(v)
        /\ \A i \in 1 .. Len(v) :
             Joinable(v, x)[i] = IF i = 1 THEN v[i] ELSE <<x>> \o v[i]
    BY ONLY <2>1, x \in T, JoinableType
  <2> QED BY <1>1, <2>1, <2>2, Zenon
<1>7. y \in S BY <1>1
<1>8. PICK a : a = Append(p, y) OBVIOUS
<1>9. /\ a \in Seq(S) /\ Len(a) = Len(p) + 1 /\ a[Len(p) + 1] = y
      /\ \A i \in 1 .. Len(p) : a[i] = p[i]
  BY ONLY <1>5, <1>7, <1>8, Appended
<1>10. ASSUME NEW i \in 1 .. Len(q) PROVE q[i] = a[i]
  <2>1. CASE i = Len(words) + 1
    <3>1. i # 1 /\ i \in 1 .. Len(v) /\ v[i] = w BY <1>3, <1>4, <1>6, <2>1
    <3>2. q[i] = <<x>> \o w BY <1>6, <3>1
    <3> QED BY <1>1, <1>5, <1>9, <2>1, <3>2
  <2>2. CASE i # Len(words) + 1
    <3>1. i \in 1 .. Len(words) /\ i \in 1 .. Len(v) BY <1>3, <1>4, <1>6, <2>2
    <3>2. v[i] = words[i] BY <1>3, <3>1
    <3>3. q[i] = (IF i = 1 THEN words[i] ELSE <<x>> \o words[i]) BY <1>6, <3>1, <3>2
    <3> QED BY <1>5, <1>9, <3>1, <3>3
  <2> QED BY <2>1, <2>2
<1>11. q = a
  <2>1. Len(q) = Len(a) BY <1>3, <1>5, <1>6, <1>9
  <2> QED BY ONLY <1>6, <1>9, <1>10, <2>1, SameSeq
<1>12. FlattenSeq(a) = Then(FlattenSeq(p), y)
  <2>1. p \in Seq(Seq(T)) /\ y \in Seq(T) BY <1>1, <1>5, <1>7
  <2>2. FlattenSeq(Append(p, y)) = FlattenSeq(p) \o y BY ONLY <2>1, FlattenAppend
  <2> QED BY <1>8, <2>2, Zenon DEF Then
<1>13. Then(Then(FlattenSeq(p), <<x>>), w) = Then(FlattenSeq(p), y)
  <2>1. PICK z, u : z = <<x>> /\ u = FlattenSeq(p) OBVIOUS
  <2>2. z \in Seq(T) BY <2>1
  <2>3. u \in Seq(T) BY <1>1, <1>5, <2>1, FlattenType
  <2>4. Then(Then(u, z), w) = Then(u, Then(z, w)) BY ONLY <2>2, <2>3, w \in Seq(T), ThenTwice
  <2> QED BY <1>1, <2>1, <2>4, Zenon DEF Then
<1> QED BY <1>1, <1>11, <1>12, <1>13, JoinIs, Zenon

\* Text t after text s: where a token is.
LEMMA PositionsMore ==
  ASSUME NEW T, NEW s \in Seq(T), NEW x \in T, NEW w \in Seq(T), Positions(w, x) = {}
  PROVE  Positions(After(s, x, w), x) = Positions(s, x) \cup {Len(s) + 1}
<1> USE DEF After
<1>1. PICK r, u : r = Then(Then(s, <<x>>), w) /\ u = Then(s, <<x>>) OBVIOUS
<1>2. Len(s) \in Nat /\ Len(w) \in Nat OBVIOUS
<1>3. /\ u \in Seq(T) /\ Len(u) = Len(s) + 1 /\ u[Len(s) + 1] = x
      /\ \A i \in 1 .. Len(s) : u[i] = s[i]
  <2>1. s \o <<x>> = Append(s, x) OBVIOUS
  <2>2. u = Append(s, x) BY <1>1, <2>1, Zenon DEF Then
  <2> QED BY ONLY <2>2, s \in Seq(T), x \in T, Appended
<1>4. r = u \o w BY <1>1, Zenon DEF Then
<1>5. /\ r \in Seq(T) /\ Len(r) = Len(u) + Len(w)
      /\ \A i \in 1 .. Len(u) : r[i] = u[i]
      /\ \A i \in 1 .. Len(w) : r[Len(u) + i] = w[i]
  <2>1. u \in Seq(T) BY <1>3
  <2> QED BY ONLY <1>4, <2>1, w \in Seq(T), Joined
<1>6. DOMAIN s = 1 .. Len(s) /\ DOMAIN w = 1 .. Len(w) /\ DOMAIN r = 1 .. Len(r) BY <1>5
<1>7. ASSUME NEW i \in 1 .. Len(r)
      PROVE  r[i] = x <=> i = Len(s) + 1 \/ (i \in 1 .. Len(s) /\ s[i] = x)
  <2>1. CASE i \in 1 .. Len(s) BY <1>2, <1>3, <2>1, <1>5
  <2>2. CASE i = Len(s) + 1
    <3>1. i \in 1 .. Len(u) BY <1>2, <1>3, <2>2
    <3> QED BY <1>3, <1>5, <2>2, <3>1
  <2>3. CASE i \notin 1 .. Len(s) /\ i # Len(s) + 1
    <3>1. PICK j \in 1 .. Len(w) : i = Len(u) + j
      <4>1. i - Len(u) \in 1 .. Len(w) /\ i = Len(u) + (i - Len(u)) BY <1>2, <1>3, <1>5, <2>3
      <4> QED BY <4>1
    <3>2. w[j] # x BY <1>6 DEF Positions
    <3> QED BY <1>5, <2>3, <3>1, <3>2
  <2> QED BY <2>1, <2>2, <2>3
<1>8. Len(s) + 1 \in 1 .. Len(r) /\ \A i \in 1 .. Len(s) : i \in 1 .. Len(r) BY <1>2, <1>3, <1>5
<1> QED BY <1>1, <1>6, <1>7, <1>8 DEF Positions

LEMMA PositionsType ==
  ASSUME NEW T, NEW s \in Seq(T), NEW x
  PROVE  Positions(s, x) \in SUBSET (1 .. Len(s))
  BY DEF Positions

\* None of the words has the separator.
Separable(words, x) == \A i \in 1 .. Len(words) : Positions(words[i], x) = {}

\* Words without the separator come back from the text they are joined to.
LEMMA SplitJoin ==
  ASSUME NEW T, NEW x \in T, NEW words \in Seq(Seq(T)), words # <<>>, Separable(words, x)
  PROVE  Split(Join(words, x), x) = words
<1> DEFINE A == {v \in Seq(Seq(T)) :
                   v # <<>> /\ Separable(v, x) => Split(Join(v, x), x) = v}
<1>1. <<>> \in A OBVIOUS
<1>2. ASSUME NEW v \in Seq(Seq(T)), NEW w \in Seq(T), v \in A PROVE Append(v, w) \in A
  <2>1. PICK u, S : u = Append(v, w) /\ S = Seq(T) OBVIOUS
  <2>2. v \in Seq(S) /\ w \in S BY <2>1
  <2>3. /\ u \in Seq(S) /\ Len(u) = Len(v) + 1 /\ u[Len(v) + 1] = w
        /\ \A i \in 1 .. Len(v) : u[i] = v[i]
    BY ONLY <2>1, <2>2, Appended
  <2>4. Len(v) \in Nat OBVIOUS
  <2>5. SUFFICES ASSUME Separable(u, x) PROVE Split(Join(u, x), x) = u BY <2>1, <2>3
  <2>6. Positions(w, x) = {}
    <3>1. Len(v) + 1 \in 1 .. Len(u) BY <2>3, <2>4
    <3> QED BY <2>3, <2>5, <3>1 DEF Separable
  <2>7. Separable(v, x)
    <3>1. \A i \in 1 .. Len(v) : i \in 1 .. Len(u) BY <2>3, <2>4
    <3> QED BY <2>3, <2>5, <3>1 DEF Separable
  <2>8. CASE v = <<>>
    <3>1. u = <<w>> BY <2>1, <2>8
    <3>2. Join(u, x) = w BY <3>1, JoinOne
    <3>3. SplitAt(w, {}) = <<w>> BY SplitWhole
    <3> QED BY <2>6, <3>1, <3>2, <3>3, Zenon DEF Split
  <2>9. CASE v # <<>>
    <3>1. PICK s : s = Join(v, x) OBVIOUS
    <3>2. s \in Seq(T) BY <3>1, JoinType
    <3>3. Join(u, x) = After(s, x, w) BY <2>1, <2>9, <3>1, JoinMore
    <3>4. Positions(Join(u, x), x) = Positions(s, x) \cup {Len(s) + 1}
      BY ONLY <2>6, <3>2, <3>3, w \in Seq(T), x \in T, PositionsMore
    <3>5. SplitAt(After(s, x, w), Positions(s, x) \cup {Len(s) + 1})
            = Append(SplitAt(s, Positions(s, x)), w)
      <4>1. Positions(s, x) \in SUBSET (1 .. Len(s)) BY <3>2, PositionsType
      <4>2. PICK places : places = Positions(s, x) OBVIOUS
      <4>3. PlacesOf(s, places) BY <4>1, <4>2 DEF PlacesOf
      <4>4. SplitAt(After(s, x, w), PlaceAfter(s, places)) = Append(SplitAt(s, places), w)
        BY ONLY <3>2, <4>3, w \in Seq(T), x \in T, SplitMore
      <4> QED BY <4>2, <4>4, Zenon DEF PlaceAfter
    <3>6. SplitAt(s, Positions(s, x)) = v BY <1>2, <2>7, <2>9, <3>1 DEF Split
    <3> QED BY <2>1, <3>3, <3>4, <3>5, <3>6, Zenon DEF Split
  <2> QED BY <2>8, <2>9
<1>3. words \in A
  <2> HIDE DEF A
  <2>1. PICK S : S = Seq(T) OBVIOUS
  <2>2. ASSUME NEW v \in Seq(S), NEW w \in S, v \in A PROVE Append(v, w) \in A BY <1>2, <2>1, <2>2
  <2>3. words \in Seq(S) BY <2>1
  <2> QED BY ONLY <1>1, <2>2, <2>3, SeqInduction
<1> QED BY <1>3

--------
(* One step: only the actions of the codec change anything *)

LEMMA Steps ==
  ASSUME ConversionsNext
  PROVE  /\ UNCHANGED <<codec, source>>
         /\ text # NotYet => UNCHANGED text
         /\ codec = "address" => WriteAddress \/ ReadAddress
         /\ codec = "filter" => WriteFilter \/ ParseFilter
         /\ codec \in {"dn", "dnText"} => WriteDn \/ ParseName
         /\ codec = "controls" => MakeControls \/ DescribeControls
         /\ codec = "client" => Connect
         /\ codec = "search" => FirstSearch \/ NextPage
         /\ codec = "rename" => Rename \/ RenameEntry
         /\ codec = "message" => MakeMessage \/ CopyMessage
         /\ codec = "guidance" => InstallRelease \/ PrintGuidance
  BY DEF ConversionsNext, Writes, Reads, WriteAddress, ReadAddress, WriteFilter, ParseFilter,
         WriteDn, ParseName, MakeControls, DescribeControls, Connect, FirstSearch, NextPage,
         Rename, RenameEntry, MakeMessage, CopyMessage, InstallRelease, PrintGuidance

--------
(* Addresses *)

AddressInv ==
  codec = "address" =>
    /\ source \in Addresses
    /\ text # NotYet => text = AddressToString(source)
    /\ back # NotYet => text # NotYet /\ back = AddressFromString(text)

LEMMA AddressReturns ==
  ASSUME NEW lines \in Seq(Seq(Tokens)), lines # <<>>
  PROVE  AddressFromString(AddressToString(lines))
           = [i \in 1 .. Len(lines) |-> UnescapeLine(EscapeLine(lines[i]))]
<1>1. PICK words : words = [i \in DOMAIN lines |-> EscapeLine(lines[i])] OBVIOUS
<1>2. DOMAIN lines = 1 .. Len(lines) /\ Len(lines) \in Nat /\ Len(lines) # 0 OBVIOUS
<1>3. ASSUME NEW i \in 1 .. Len(lines)
      PROVE  words[i] = EscapeLine(lines[i]) /\ words[i] \in Seq(Tokens \ {"$"})
  <2>1. lines[i] \in Seq(Tokens) OBVIOUS
  <2> QED BY <1>1, <1>2, <2>1, EscapedLine
<1>4. words \in Seq(Seq(Tokens)) /\ Len(words) = Len(lines)
  <2>1. ASSUME NEW i \in 1 .. Len(lines) PROVE words[i] \in Seq(Tokens) BY <1>3
  <2>2. words = [i \in 1 .. Len(lines) |-> words[i]] BY <1>1, <1>2
  <2>3. words \in [1 .. Len(lines) -> Seq(Tokens)] BY <2>1, <2>2
  <2> QED BY <1>2, <2>3, SequenceOf, Zenon
<1>5. Separable(words, "$") /\ words # <<>> /\ "$" \in Tokens
  <2>1. ASSUME NEW i \in 1 .. Len(words) PROVE Positions(words[i], "$") = {}
    <3>1. PICK w : w = words[i] OBVIOUS
    <3>2. w \in Seq(Tokens \ {"$"}) BY <1>3, <1>4, <3>1
    <3>3. \A k \in DOMAIN w : w[k] # "$" BY <3>2
    <3> QED BY <3>1, <3>3 DEF Positions
  <2> QED BY <1>2, <1>4, <2>1, SpecialTokens DEF Separable
<1>6. Split(Join(words, "$"), "$") = words BY <1>4, <1>5, SplitJoin
<1>7. AddressToString(lines) = Join(words, "$") BY <1>1, Zenon DEF AddressToString
<1>8. AddressFromString(AddressToString(lines)) = [i \in DOMAIN words |-> UnescapeLine(words[i])]
  BY <1>6, <1>7, Zenon DEF AddressFromString
<1>9. DOMAIN words = 1 .. Len(lines) BY <1>1, <1>2
<1> QED BY <1>3, <1>8, <1>9

\* An address comes back from the text that PostalAddress writes for it, all its
\* lines in their order, unless a line has a backslash before the digits of an
\* escaped comma: fromString of toString, for any lines of any tokens.
THEOREM AddressesReturn == ConversionsSpec => []RoundTripUnlessCommaDigits
<1>1. ConversionsInit => AddressInv BY DEF ConversionsInit, AddressInv
<1>2. AddressInv /\ [ConversionsNext]_textVars => AddressInv'
  <2>1. SUFFICES ASSUME AddressInv, [ConversionsNext]_textVars, codec = "address" PROVE AddressInv'
    BY Steps DEF textVars, AddressInv
  <2>2. CASE UNCHANGED textVars BY <2>1, <2>2 DEF textVars, AddressInv
  <2>3. CASE WriteAddress BY <2>1, <2>3 DEF WriteAddress, Writes, AddressInv
  <2>4. CASE ReadAddress BY <2>1, <2>4 DEF ReadAddress, Reads, AddressInv
  <2> QED BY <2>1, <2>2, <2>3, <2>4, Steps
<1>3. AddressInv => RoundTripUnlessCommaDigits
  <2>1. SUFFICES ASSUME AddressInv, AddressReturned
                 PROVE  /\ Len(back) = Len(source)
                        /\ \A i \in DOMAIN source : HasCommaDigits(source[i]) \/ back[i] = source[i]
    BY DEF RoundTripUnlessCommaDigits
  <2>2. source \in Seq(Seq(Tokens)) /\ source # <<>>
    BY <2>1, AddressesAssumption DEF AddressInv, AddressReturned
  <2>3. back = AddressFromString(AddressToString(source)) BY <2>1 DEF AddressInv, AddressReturned
  <2>4. back = [i \in 1 .. Len(source) |-> UnescapeLine(EscapeLine(source[i]))]
    BY <2>2, <2>3, AddressReturns
  <2>5. Len(back) = Len(source) /\ DOMAIN source = 1 .. Len(source) BY <2>2, <2>4
  <2>6. ASSUME NEW i \in 1 .. Len(source), ~HasCommaDigits(source[i]) PROVE back[i] = source[i]
    <3>1. source[i] \in Seq(Tokens) BY <2>2
    <3>2. UnescapeLine(EscapeLine(source[i])) = source[i] BY <2>6, <3>1, LineReturns
    <3> QED BY <2>4, <3>2
  <2> QED BY <2>5, <2>6
<1> QED BY <1>1, <1>2, <1>3, PTL DEF ConversionsSpec

--------
(* Messages *)

MessageInv ==
  codec = "message" =>
    /\ source \in MessageCalls
    /\ text # NotYet => text = New(source.class, source.options)
    /\ back # NotYet => text # NotYet /\ back = New(source.class, text)

\* A message keeps fields of its options; those of free may be undefined.
Keeps(fields, free, options, message) ==
  /\ message = [f \in fields |-> message[f]]
  /\ \A f \in fields :
       IF f \in free THEN message[f] = Get(options, f)
       ELSE message[f] # Undefined /\ Get(options, f) \in {Undefined, message[f]}

LEMMA ExtendedKeeps ==
  ASSUME NEW F, NEW U, NEW G, NEW V, NEW options, NEW super, NEW own, F \cap G = {},
         U \subseteq F, V \subseteq G, Keeps(F, U, options, super), Keeps(G, V, options, own)
  PROVE  Keeps(F \cup G, U \cup V, options, Extended(super, own))
<1>1. DOMAIN super = F /\ DOMAIN own = G BY DEF Keeps
<1>2. PICK m : m = Extended(super, own) OBVIOUS
<1>3. m = [f \in F \cup G |-> IF f \in G THEN own[f] ELSE super[f]] BY <1>1, <1>2 DEF Extended
<1>4. m = [f \in F \cup G |-> m[f]] BY <1>3
<1>5. ASSUME NEW f \in F \cup G
      PROVE  IF f \in U \cup V THEN m[f] = Get(options, f)
             ELSE m[f] # Undefined /\ Get(options, f) \in {Undefined, m[f]}
  <2>1. CASE f \in G BY <1>3, <1>5, <2>1 DEF Keeps
  <2>2. CASE f \notin G BY <1>3, <1>5, <2>2 DEF Keeps
  <2> QED BY <2>1, <2>2
<1> QED BY <1>2, <1>4, <1>5 DEF Keeps

LEMMA DefaultsAre ==
  Undefined \notin {0, 10, <<>>, NoText, NoAttributes, "sub", "never"}
<1>1. Undefined \notin {NoText, NoAttributes, "sub", "never"} BY MessagesAssumption, Zenon
<1>2. <<>> \in Seq(STRING) /\ {0, 10} \subseteq Int OBVIOUS
<1>3. Undefined # 0 /\ Undefined # 10 /\ Undefined # <<>> BY <1>2, UndefinedAssumption
<1> QED BY <1>1, <1>3, Zenon

LEMMA FlagIs ==
  ASSUME NEW b \in Optional(BOOLEAN)
  PROVE  (b # FALSE) # Undefined /\ b \in {Undefined, b # FALSE}
<1>1. Undefined # TRUE /\ Undefined # FALSE BY MessagesAssumption, Zenon
<1>2. CASE b = TRUE BY <1>1, <1>2
<1>3. CASE b = FALSE BY <1>1, <1>3
<1>4. CASE b = Undefined BY <1>1, <1>4
<1> QED BY <1>2, <1>3, <1>4 DEF Optional

LEMMA GetOrIs ==
  ASSUME NEW options, NEW f, NEW d, d # Undefined
  PROVE  GetOr(options, f, d) # Undefined /\ Get(options, f) \in {Undefined, GetOr(options, f, d)}
  BY DEF GetOr, OrElse

LEMMA BasesKeep ==
  ASSUME NEW options
  PROVE  /\ Keeps(MessageOptions, {"controls"}, options, Message(options))
         /\ Keeps(MessageResponseOptions, {"controls"}, options, MessageResponse(options))
<1>1. Keeps(MessageOptions, {"controls"}, options, Message(options))
  BY DefaultsAre, GetOrIs DEF Keeps, Message, MessageOptions
<1>2. PICK own : own = [status |-> GetOr(options, "status", 0),
                        matchedDN |-> GetOr(options, "matchedDN", NoText),
                        errorMessage |-> GetOr(options, "errorMessage", NoText)]
  OBVIOUS
<1>3. Keeps({"status", "matchedDN", "errorMessage"}, {}, options, own)
  BY <1>2, DefaultsAre, GetOrIs DEF Keeps
<1> QED BY <1>1, <1>2, <1>3, ExtendedKeeps DEF MessageResponse, MessageOptions, MessageResponseOptions

IsOwn(class, G, V) ==
  /\ class \in DOMAIN OwnOptions /\ OwnOptions[class] = G /\ V \subseteq G
  /\ G \cap MessageResponseOptions = {} /\ MayBeUndefined(class) = {"controls"} \cup V

LEMMA OwnAre ==
  /\ IsOwn("AddRequest", {"entry"}, {})
  /\ IsOwn("BindRequest", {"dn", "password", "mechanism"}, {"mechanism"})
  /\ IsOwn("CompareRequest", {"dn", "attribute", "value"}, {})
  /\ IsOwn("DeleteRequest", {"dn"}, {})
  /\ IsOwn("ExtendedRequest", {"oid", "value"}, {"value"})
  /\ IsOwn("ModifyDNRequest", {"dn", "newDN"}, {})
  /\ IsOwn("ModifyRequest", {"dn", "changes"}, {})
  /\ IsOwn("SearchRequest", {"baseDN", "scope", "derefAliases", "sizeLimit", "timeLimit", "filter",
            "returnAttributeValues", "attributes", "explicitBufferAttributes"}, {"filter"})
  /\ IsOwn("SearchEntry", {"name", "attributes"}, {})
  /\ IsOwn("SearchReference", {"uris"}, {})
  /\ IsOwn("SearchResponse", {"searchEntries", "searchReferences"}, {})
  BY DEF IsOwn, OwnOptions, MessageOptions, MessageResponseOptions, MayBeUndefined

LEMMA OwnKeeps ==
  ASSUME NEW class, NEW G, NEW V, NEW options, NEW own, IsOwn(class, G, V), Keeps(G, V, options, own),
         New(class, options) =
           Extended(IF ExtendsResponse(class) THEN MessageResponse(options) ELSE Message(options), own)
  PROVE  Keeps(Declared(class), MayBeUndefined(class), options, New(class, options))
<1>1. /\ G \cap MessageOptions = {} /\ {"controls"} \subseteq MessageOptions /\ V \subseteq G
      /\ {"controls"} \subseteq MessageResponseOptions /\ G \cap MessageResponseOptions = {}
      /\ MayBeUndefined(class) = {"controls"} \cup V /\ class \in DOMAIN OwnOptions
      /\ OwnOptions[class] = G
  BY DEF MessageOptions, MessageResponseOptions, IsOwn
<1>2. CASE ExtendsResponse(class)
  <2>1. Declared(class) = MessageResponseOptions \cup G
    BY <1>1, <1>2 DEF Declared, MessageResponseOptions, MessageOptions
  <2> QED BY <1>1, <1>2, <2>1, BasesKeep, ExtendedKeeps
<1>3. CASE ~ExtendsResponse(class)
  <2>1. Declared(class) = MessageOptions \cup G BY <1>1, <1>3 DEF Declared, MessageOptions
  <2> QED BY <1>1, <1>3, <2>1, BasesKeep, ExtendedKeeps
<1> QED BY <1>2, <1>3

LEMMA NewKeeps ==
  ASSUME NEW class \in MessageClasses, NEW options,
         Get(options, "returnAttributeValues") \in Optional(BOOLEAN)
  PROVE  Keeps(Declared(class), MayBeUndefined(class), options, New(class, options))
<1>1. ASSUME class \notin DOMAIN OwnOptions
      PROVE  Keeps(Declared(class), MayBeUndefined(class), options, New(class, options))
  <2>1. MayBeUndefined(class) = {"controls"} BY <1>1 DEF MayBeUndefined, OwnOptions
  <2>2. CASE ExtendsResponse(class)
    <3>1. New(class, options) = MessageResponse(options) /\ Declared(class) = MessageResponseOptions
      BY <1>1, <2>2 DEF New, OwnOptions, ExtendsResponse, PlainRequests, PlainResponses, Declared,
                        MessageResponseOptions, MessageOptions
    <3> QED BY <2>1, <3>1, BasesKeep
  <2>3. CASE ~ExtendsResponse(class)
    <3>1. New(class, options) = Message(options) /\ Declared(class) = MessageOptions
      BY <1>1, <2>3 DEF New, OwnOptions, MessageClasses, ExtendsResponse, PlainRequests,
                        PlainResponses, Declared, MessageOptions
    <3> QED BY <2>1, <3>1, BasesKeep
  <2> QED BY <2>2, <2>3
<1>2. CASE class = "AddRequest"
  <2>1. PICK own : own = [entry |-> GetOr(options, "entry", NoAttributes)] OBVIOUS
  <2>2. Keeps({"entry"}, {}, options, own) BY <2>1, DefaultsAre, GetOrIs DEF Keeps
  <2> QED BY <1>2, <2>1, <2>2, OwnKeeps, OwnAre
    DEF AddRequest, New, PlainRequests, PlainResponses, ExtendsResponse
<1>3. CASE class = "BindRequest"
  <2>1. PICK own : own = [dn |-> GetOr(options, "dn", NoText),
                    password |-> GetOr(options, "password", NoText),
                    mechanism |-> Get(options, "mechanism")] OBVIOUS
  <2>2. Keeps({"dn", "password", "mechanism"}, {"mechanism"}, options, own)
    BY <2>1, DefaultsAre, GetOrIs DEF Keeps
  <2> QED BY <1>3, <2>1, <2>2, OwnKeeps, OwnAre
    DEF BindRequest, New, PlainRequests, PlainResponses, ExtendsResponse
<1>4. CASE class = "CompareRequest"
  <2>1. PICK own : own = [dn |-> GetOr(options, "dn", NoText),
                    attribute |-> GetOr(options, "attribute", NoText),
                    value |-> GetOr(options, "value", NoText)] OBVIOUS
  <2>2. Keeps({"dn", "attribute", "value"}, {}, options, own)
    BY <2>1, DefaultsAre, GetOrIs DEF Keeps
  <2> QED BY <1>4, <2>1, <2>2, OwnKeeps, OwnAre
    DEF CompareRequest, New, PlainRequests, PlainResponses, ExtendsResponse
<1>5. CASE class = "DeleteRequest"
  <2>1. PICK own : own = [dn |-> GetOr(options, "dn", NoText)] OBVIOUS
  <2>2. Keeps({"dn"}, {}, options, own) BY <2>1, DefaultsAre, GetOrIs DEF Keeps
  <2> QED BY <1>5, <2>1, <2>2, OwnKeeps, OwnAre
    DEF DeleteRequest, New, PlainRequests, PlainResponses, ExtendsResponse
<1>6. CASE class = "ExtendedRequest"
  <2>1. PICK own : own = [oid |-> GetOr(options, "oid", NoText), value |-> Get(options, "value")] OBVIOUS
  <2>2. Keeps({"oid", "value"}, {"value"}, options, own) BY <2>1, DefaultsAre, GetOrIs DEF Keeps
  <2> QED BY <1>6, <2>1, <2>2, OwnKeeps, OwnAre
    DEF ExtendedRequest, New, PlainRequests, PlainResponses, ExtendsResponse
<1>7. CASE class = "ModifyDNRequest"
  <2>1. PICK own : own = [dn |-> GetOr(options, "dn", NoText),
                    newDN |-> GetOr(options, "newDN", NoText)] OBVIOUS
  <2>2. Keeps({"dn", "newDN"}, {}, options, own) BY <2>1, DefaultsAre, GetOrIs DEF Keeps
  <2> QED BY <1>7, <2>1, <2>2, OwnKeeps, OwnAre
    DEF ModifyDNRequest, New, PlainRequests, PlainResponses, ExtendsResponse
<1>8. CASE class = "ModifyRequest"
  <2>1. PICK own : own = [dn |-> GetOr(options, "dn", NoText),
                    changes |-> GetOr(options, "changes", <<>>)] OBVIOUS
  <2>2. Keeps({"dn", "changes"}, {}, options, own) BY <2>1, DefaultsAre, GetOrIs DEF Keeps
  <2> QED BY <1>8, <2>1, <2>2, OwnKeeps, OwnAre
    DEF ModifyRequest, New, PlainRequests, PlainResponses, ExtendsResponse
<1>9. CASE class = "SearchRequest"
  <2>1. PICK own :
          own = [baseDN |-> GetOr(options, "baseDN", NoText),
                   scope |-> GetOr(options, "scope", "sub"),
                   derefAliases |-> GetOr(options, "derefAliases", "never"),
                   sizeLimit |-> GetOr(options, "sizeLimit", 0),
                   timeLimit |-> GetOr(options, "timeLimit", 10),
                   returnAttributeValues |-> Get(options, "returnAttributeValues") # FALSE,
                   filter |-> Get(options, "filter"),
                   attributes |-> GetOr(options, "attributes", <<>>),
                   explicitBufferAttributes |-> GetOr(options, "explicitBufferAttributes", <<>>)]
    OBVIOUS
  <2>2. IsOwn(class, OwnOptions[class], {"filter"}) BY <1>9, OwnAre DEF IsOwn
  <2>3. Keeps(OwnOptions[class], {"filter"}, options, own)
    <3>1. PICK b : b = Get(options, "returnAttributeValues") OBVIOUS
    <3>2. PICK flag : flag = (b # FALSE) OBVIOUS
    <3>3. own.returnAttributeValues = flag /\ flag # Undefined /\ b \in {Undefined, flag}
      BY <2>1, <3>1, <3>2, FlagIs
    <3>4. own = [f \in OwnOptions[class] |-> own[f]] BY <1>9, <2>1 DEF OwnOptions
    <3>5. ASSUME NEW f \in OwnOptions[class], f # "returnAttributeValues"
          PROVE  IF f = "filter" THEN own[f] = Get(options, f)
                 ELSE own[f] # Undefined /\ Get(options, f) \in {Undefined, own[f]}
      BY <1>9, <2>1, <3>5, DefaultsAre, GetOrIs DEF OwnOptions
    <3> QED BY <3>1, <3>3, <3>4, <3>5 DEF Keeps
  <2>4. New(class, options) = SearchRequest(options) /\ ~ExtendsResponse(class)
    BY <1>9 DEF New, PlainRequests, PlainResponses, ExtendsResponse
  <2>5. New(class, options) = Extended(Message(options), own) BY <2>1, <2>4 DEF SearchRequest
  <2> QED BY <2>2, <2>3, <2>4, <2>5, OwnKeeps
<1>10. CASE class = "SearchEntry"
  <2>1. PICK own : own = [name |-> GetOr(options, "name", NoText),
                    attributes |-> GetOr(options, "attributes", <<>>)] OBVIOUS
  <2>2. Keeps({"name", "attributes"}, {}, options, own) BY <2>1, DefaultsAre, GetOrIs DEF Keeps
  <2> QED BY <1>10, <2>1, <2>2, OwnKeeps, OwnAre
    DEF SearchEntry, New, PlainRequests, PlainResponses, ExtendsResponse
<1>11. CASE class = "SearchReference"
  <2>1. PICK own : own = [uris |-> GetOr(options, "uris", <<>>)] OBVIOUS
  <2>2. Keeps({"uris"}, {}, options, own) BY <2>1, DefaultsAre, GetOrIs DEF Keeps
  <2> QED BY <1>11, <2>1, <2>2, OwnKeeps, OwnAre
    DEF SearchReference, New, PlainRequests, PlainResponses, ExtendsResponse
<1>12. CASE class = "SearchResponse"
  <2>1. PICK own : own = [searchEntries |-> GetOr(options, "searchEntries", <<>>),
                    searchReferences |-> GetOr(options, "searchReferences", <<>>)] OBVIOUS
  <2>2. Keeps({"searchEntries", "searchReferences"}, {}, options, own)
    BY <2>1, DefaultsAre, GetOrIs DEF Keeps
  <2> QED BY <1>12, <2>1, <2>2, OwnKeeps, OwnAre
    DEF SearchResponse, New, PlainRequests, PlainResponses, ExtendsResponse
<1> QED BY <1>1, <1>2, <1>3, <1>4, <1>5, <1>6, <1>7, <1>8, <1>9, <1>10, <1>11, <1>12 DEF OwnOptions

\* The constructors of src/runtime.cjs keep what src/types/messages declares: a
\* message has each option of its class, its parents' included, as it was given,
\* and always those declared without a question mark; its copy is the same.
THEOREM MessagesKeep == ConversionsSpec => []MessagesKeepWhatIsGiven
<1>1. ConversionsInit => MessageInv BY DEF ConversionsInit, MessageInv
<1>2. MessageInv /\ [ConversionsNext]_textVars => MessageInv'
  <2>1. SUFFICES ASSUME MessageInv, [ConversionsNext]_textVars, codec = "message" PROVE MessageInv'
    BY Steps DEF textVars, MessageInv
  <2>2. CASE UNCHANGED textVars BY <2>1, <2>2 DEF textVars, MessageInv
  <2>3. CASE MakeMessage BY <2>1, <2>3 DEF MakeMessage, Writes, MessageInv
  <2>4. CASE CopyMessage BY <2>1, <2>4 DEF CopyMessage, Reads, MessageInv
  <2> QED BY <2>1, <2>2, <2>3, <2>4, Steps
<1>3. MessageInv => MessagesKeepWhatIsGiven
  <2>1. SUFFICES ASSUME MessageInv, codec = "message", text # NotYet PROVE MessagesKeepWhatIsGiven
    BY DEF MessagesKeepWhatIsGiven
  <2>2. PICK class, options, F, U :
          /\ class = source.class /\ options = source.options
          /\ F = Declared(class) /\ U = MayBeUndefined(class)
    OBVIOUS
  <2>3. class \in MessageClasses /\ Get(options, "returnAttributeValues") \in Optional(BOOLEAN)
    BY <2>1, <2>2, MessagesAssumption DEF MessageInv
  <2>4. Keeps(F, U, options, text) BY <2>1, <2>2, <2>3, NewKeeps DEF MessageInv
  <2>5. ASSUME back # NotYet PROVE back = text
    <3>1. back = New(class, text) BY <2>1, <2>2, <2>5 DEF MessageInv
    <3>2. DOMAIN text = F /\ \A f \in F : Get(text, f) = text[f] BY <2>4 DEF Keeps, Get
    <3>3. Get(text, "returnAttributeValues") \in Optional(BOOLEAN)
      <4>1. CASE "returnAttributeValues" \in F
        <5>1. class = "SearchRequest"
          BY <2>2, <4>1 DEF Declared, MessageOptions, MessageResponseOptions, OwnOptions
        <5>2. text = SearchRequest(options)
          BY <2>1, <2>2, <5>1 DEF MessageInv, New, PlainRequests, PlainResponses
        <5>3. text.returnAttributeValues = (Get(options, "returnAttributeValues") # FALSE)
          BY <5>2 DEF SearchRequest, Extended
        <5> QED BY <3>2, <4>1, <5>3 DEF Optional
      <4>2. CASE "returnAttributeValues" \notin F BY <3>2, <4>2 DEF Get, Optional
      <4> QED BY <4>1, <4>2
    <3>4. Keeps(F, U, text, back) BY <2>2, <2>3, <3>1, <3>3, NewKeeps
    <3>5. \A f \in F : back[f] = text[f] BY <2>4, <3>2, <3>4 DEF Keeps
    <3> QED BY <2>4, <3>4, <3>5, Zenon DEF Keeps
  <2>6. DOMAIN text = F BY <2>4 DEF Keeps
  <2>7. \A f \in F : Get(options, f) \in {Undefined, text[f]} /\ (f \in U \/ text[f] # Undefined)
    BY <2>4 DEF Keeps
  <2> QED BY <2>2, <2>5, <2>6, <2>7 DEF MessagesKeepWhatIsGiven
<1> QED BY <1>1, <1>2, <1>3, PTL DEF ConversionsSpec

--------
(* Controls *)

Made(list) ==
  [i \in DOMAIN list |-> IF list[i] = Undefined THEN Undefined ELSE Constructed(list[i])]

ControlsInv ==
  codec = "controls" =>
    /\ source \in OptionLists
    /\ text # NotYet => text = Made(source)
    /\ back # NotYet => text # NotYet /\ back = EncodeControls(text)

\* The place of an element among the kept ones.
LEMMA PlaceIs ==
  ASSUME NEW kept \in SUBSET Nat, IsFiniteSet(kept), \A i \in kept : i >= 1, NEW i \in kept
  PROVE  /\ Cardinality((1 .. i) \cap kept) = Rank(kept, i) + 1
         /\ Cardinality((1 .. i) \cap kept) \in 1 .. Cardinality(kept)
         /\ Nth(kept, Cardinality((1 .. i) \cap kept) - 1) = i
<1>1. PICK before : before = {d \in kept : d < i} OBVIOUS
<1>2. (1 .. i) \cap kept = before \cup {i} /\ i \notin before
  <2>1. i \in Nat /\ \A d \in kept : d \in Nat /\ d >= 1 OBVIOUS
  <2>2. \A d \in kept : d \in 1 .. i <=> d < i \/ d = i BY <2>1
  <2>3. ~(i < i) BY <2>1
  <2> QED BY <1>1, <2>2, <2>3
<1>3. IsFiniteSet(before) BY <1>1, FS_Subset, before \in SUBSET kept
<1>4. Cardinality(before \cup {i}) = Cardinality(before) + 1 BY <1>2, <1>3, FS_AddElement
<1>5. Rank(kept, i) = Cardinality(before) BY <1>1 DEF Rank
<1>6. Rank(kept, i) \in 0 .. Cardinality(kept) - 1 /\ Cardinality(kept) \in Nat
  BY RankType, FS_CardinalityType
<1>7. Nth(kept, Rank(kept, i)) = i BY NthIs
<1>8. (Rank(kept, i) + 1) - 1 = Rank(kept, i) /\ Rank(kept, i) + 1 \in 1 .. Cardinality(kept)
  BY <1>6
<1>9. Cardinality((1 .. i) \cap kept) = Rank(kept, i) + 1 BY <1>2, <1>4, <1>5
<1> QED BY <1>7, <1>8, <1>9, Zenon

LEMMA GivenIs ==
  ASSUME NEW n \in Nat, NEW list, DOMAIN list = 1 .. n,
         NEW kept, kept = {i \in DOMAIN list : list[i] # Undefined}
  PROVE  /\ Len(EncodeControls(list)) = Cardinality(kept)
         /\ \A i \in kept :
              EncodeControls(list)[Cardinality((1 .. i) \cap kept)] = EncodeControl(list[i])
<1>1. kept \in SUBSET (1 .. n) /\ kept \in SUBSET Nat /\ \A i \in kept : i >= 1 OBVIOUS
<1>2. IsFiniteSet(kept) /\ Cardinality(kept) \in Nat
  <2>1. IsFiniteSet(1 .. n) BY FS_Interval
  <2> QED BY <1>1, <2>1, FS_Subset, FS_CardinalityType
<1>3. PICK given, m : given = Given(list) /\ m = Cardinality(kept) OBVIOUS
<1>4. given = [k \in 1 .. m |-> list[Nth(kept, k - 1)]] BY <1>3 DEF Given, At
<1>5. EncodeControls(list) = [k \in 1 .. m |-> EncodeControl(given[k])]
  <2>1. DOMAIN given = 1 .. m BY <1>4
  <2> QED BY <1>3, <2>1, Zenon DEF EncodeControls
<1>6. ASSUME NEW i \in kept
      PROVE  EncodeControls(list)[Cardinality((1 .. i) \cap kept)] = EncodeControl(list[i])
  <2>1. PICK k : k = Cardinality((1 .. i) \cap kept) OBVIOUS
  <2>2. k \in 1 .. m /\ Nth(kept, k - 1) = i BY <1>1, <1>2, <1>3, <2>1, PlaceIs
  <2>3. given[k] = list[i] BY <1>4, <2>2
  <2> QED BY <1>5, <2>1, <2>2, <2>3
<1>7. Len(EncodeControls(list)) = m BY <1>2, <1>3, <1>5
<1> QED BY <1>3, <1>6, <1>7

\* The description of a control tells what it asks for.
LEMMA DescriptionTells ==
  ASSUME NEW one, NEW other,
         EncodeControl(Constructed(one)) = EncodeControl(Constructed(other))
  PROVE  AsksTheSame(Constructed(one), Constructed(other))
<1> DEFINE Shaped(control) ==
      \/ /\ control.class = "Paged" /\ control.type = Oids.Paged
         /\ control.value = [size |-> control.value.size, cookie |-> control.value.cookie]
      \/ control.class = "Sort" /\ control.type = Oids.Sort
      \/ control.class = "Control"
<1>1. ASSUME NEW options PROVE Shaped(Constructed(options))
  BY DEF Constructed, Control, PagedResultsControl, ServerSideSortingRequestControl
<1>2. PICK a, b : a = Constructed(one) /\ b = Constructed(other) OBVIOUS
<1>3. Shaped(a) /\ Shaped(b) /\ EncodeControl(a) = EncodeControl(b) BY <1>1, <1>2
<1>4. AsksTheSame(a, b) BY <1>3 DEF EncodeControl, AsksTheSame
<1> QED BY <1>2, <1>4

\* Each control that a request passes is described to the addon, in its place
\* among them, and its description fits no control that asks for something else:
\* encodeControls, of any lists.
THEOREM ControlsDescribed == ConversionsSpec => []DescribesEachControl
<1>1. ConversionsInit => ControlsInv BY DEF ConversionsInit, ControlsInv
<1>2. ControlsInv /\ [ConversionsNext]_textVars => ControlsInv'
  <2>1. SUFFICES ASSUME ControlsInv, [ConversionsNext]_textVars, codec = "controls" PROVE ControlsInv'
    BY Steps DEF textVars, ControlsInv
  <2>2. CASE UNCHANGED textVars BY <2>1, <2>2 DEF textVars, ControlsInv
  <2>3. CASE MakeControls BY <2>1, <2>3 DEF MakeControls, Writes, ControlsInv, Made
  <2>4. CASE DescribeControls BY <2>1, <2>4 DEF DescribeControls, Reads, ControlsInv
  <2> QED BY <2>1, <2>2, <2>3, <2>4, Steps
<1>3. ControlsInv => DescribesEachControl
  <2>1. SUFFICES ASSUME ControlsInv, codec = "controls", back # NotYet
                 PROVE  LET given == {i \in DOMAIN text : text[i] # Undefined}
                        IN /\ Len(back) = Cardinality(given)
                           /\ \A i \in given, options \in ControlOptions :
                                EncodeControl(Constructed(options)) = back[Cardinality((1 .. i) \cap given)] =>
                                  AsksTheSame(Constructed(options), text[i])
    BY DEF DescribesEachControl
  <2>2. PICK n \in Nat : DOMAIN source = 1 .. n
    BY <2>1, MaxControlsAssumption DEF ControlsInv, OptionLists, BoundedSeq, SeqOf
  <2>3. text = Made(source) /\ back = EncodeControls(text) BY <2>1 DEF ControlsInv
  <2>4. DOMAIN text = 1 .. n BY <2>2, <2>3 DEF Made
  <2>5. PICK given : given = {i \in DOMAIN text : text[i] # Undefined} OBVIOUS
  <2>6. /\ Len(back) = Cardinality(given)
        /\ \A i \in given : back[Cardinality((1 .. i) \cap given)] = EncodeControl(text[i])
    <3>1. PICK list : list = text OBVIOUS
    <3>2. DOMAIN list = 1 .. n /\ given = {i \in DOMAIN list : list[i] # Undefined}
      BY <2>4, <2>5, <3>1
    <3>3. /\ Len(EncodeControls(list)) = Cardinality(given)
          /\ \A i \in given :
               EncodeControls(list)[Cardinality((1 .. i) \cap given)] = EncodeControl(list[i])
      BY ONLY <3>2, n \in Nat, GivenIs
    <3> QED BY <2>3, <3>1, <3>3, Zenon
  <2>7. ASSUME NEW i \in given PROVE text[i] = Constructed(source[i])
    BY <2>2, <2>3, <2>4, <2>5 DEF Made
  <2> QED
    <3>1. ASSUME NEW i \in given, NEW options \in ControlOptions,
                 EncodeControl(Constructed(options)) = back[Cardinality((1 .. i) \cap given)]
          PROVE  AsksTheSame(Constructed(options), text[i])
      <4>1. EncodeControl(Constructed(options)) = EncodeControl(Constructed(source[i]))
        BY <2>6, <2>7, <3>1
      <4>2. AsksTheSame(Constructed(options), Constructed(source[i]))
        BY <4>1, DescriptionTells, Zenon
      <4> QED BY <2>7, <4>2
    <3> QED BY <2>5, <2>6, <3>1, Zenon
<1> QED BY <1>1, <1>2, <1>3, PTL DEF ConversionsSpec

--------
(* Arguments of the addon: a client *)

LEMMA PositivePart ==
  ASSUME NEW n \in Int
  PROVE  Max({0, n}) = IF n > 0 THEN n ELSE 0
<1>1. PICK m : m = IF n > 0 THEN n ELSE 0 OBVIOUS
<1>2. m \in {0, n} /\ \A y \in {0, n} : m >= y BY <1>1
<1>3. ASSUME NEW x \in {0, n}, \A y \in {0, n} : x >= y PROVE x = m BY <1>1, <1>3
<1>4. Max({0, n}) = m BY <1>2, <1>3 DEF Max
<1> QED BY <1>1, <1>4

\* A timeout or its text.
TimeoutNumber(timeout) == OrElse(NumberOnly(timeout), 0)

LEMMA TimevalTells ==
  ASSUME NEW one, NEW other, IsTimeout(one), IsTimeout(other),
         Timeval(NumberOnly(one)) = Timeval(NumberOnly(other))
  PROVE  Millis(one) = Millis(other)
<1>1. ASSUME NEW timeout, IsTimeout(timeout)
      PROVE  /\ Truncated(TimeoutNumber(timeout)) \in Int
             /\ Timeval(NumberOnly(timeout)) =
                  IF Truncated(TimeoutNumber(timeout)) <= 0 THEN Undefined
                  ELSE [sec  |-> Truncated(TimeoutNumber(timeout)) \div 1000,
                        usec |-> (Truncated(TimeoutNumber(timeout)) % 1000) * 1000]
  <2>1. ASSUME NEW n \in Int PROVE Truncated(n) \in Int BY DEF Truncated
  <2>2. Truncated(0) = 0 BY DEF Truncated
  <2>3. CASE NumberOnly(timeout) = Undefined
    <3>1. TimeoutNumber(timeout) = 0 BY <2>3 DEF TimeoutNumber, OrElse
    <3> QED BY <2>2, <2>3, <3>1 DEF Timeval, NotSet
  <2>4. CASE NumberOnly(timeout) # Undefined
    <3>1. NumberOnly(timeout) = timeout.number /\ timeout.number \in Int
      BY <1>1, <2>4 DEF NumberOnly, IsTimeout
    <3>2. TimeoutNumber(timeout) = timeout.number BY <2>4, <3>1 DEF TimeoutNumber, OrElse
    <3> QED BY <2>1, <2>4, <3>1, <3>2 DEF Timeval, NotSet
  <2> QED BY <2>3, <2>4
<1>2. PICK a, b : a = Truncated(TimeoutNumber(one)) /\ b = Truncated(TimeoutNumber(other)) OBVIOUS
<1>3. a \in Int /\ b \in Int BY <1>1, <1>2
<1>4. (IF a <= 0 THEN Undefined ELSE [sec |-> a \div 1000, usec |-> (a % 1000) * 1000])
        = (IF b <= 0 THEN Undefined ELSE [sec |-> b \div 1000, usec |-> (b % 1000) * 1000])
  BY <1>1, <1>2
<1>5. ASSUME NEW n \in Int, n > 0
      PROVE  [sec |-> n \div 1000, usec |-> (n % 1000) * 1000] # Undefined
  <2>1. n \div 1000 \in Nat /\ (n % 1000) * 1000 \in Nat BY <1>5
  <2> QED BY <2>1, UndefinedAssumption
<1>6. a > 0 /\ b > 0 => a = b
  <2>1. SUFFICES ASSUME a > 0, b > 0 PROVE a = b OBVIOUS
  <2>2. a \div 1000 = b \div 1000 /\ (a % 1000) * 1000 = (b % 1000) * 1000 BY <1>3, <1>4, <2>1
  <2> QED BY <1>3, <2>1, <2>2
<1>7. (a > 0 <=> b > 0) BY <1>3, <1>4, <1>5
<1>8. Millis(one) = Max({0, a}) /\ Millis(other) = Max({0, b}) BY <1>2 DEF Millis, TimeoutNumber
<1> QED BY <1>3, <1>6, <1>7, <1>8, PositivePart

LEMMA PlaceTells ==
  ASSUME NEW one, NEW other, IsClientOptions(one), IsClientOptions(other),
         one.platform = other.platform,
         BuildNativeConnectOptions(one) # UnsupportedUrl,
         BuildNativeConnectOptions(other) # UnsupportedUrl,
         BuildNativeConnectOptions(one).url = BuildNativeConnectOptions(other).url
  PROVE  Place(one.url) = Place(other.url)
<1>1. PICK u, v : u = one.url /\ v = other.url OBVIOUS
<1>2. CASE one.platform = "win32"
  <2>1. ParseWindowsLdapUrl(u) # UnsupportedUrl /\ ParseWindowsLdapUrl(v) # UnsupportedUrl
        /\ ParseWindowsLdapUrl(u) = ParseWindowsLdapUrl(v)
    BY <1>1, <1>2 DEF BuildNativeConnectOptions
  <2>2. u.scheme \in {"ldap", "ldaps"} /\ v.scheme \in {"ldap", "ldaps"}
    BY <2>1 DEF ParseWindowsLdapUrl
  <2>3. /\ u.host = v.host /\ OrElse(u.port, DefaultPort(u)) = OrElse(v.port, DefaultPort(v))
        /\ (u.scheme = "ldaps") = (v.scheme = "ldaps")
    BY <2>1, <2>2 DEF ParseWindowsLdapUrl
  <2>4. u.scheme = v.scheme BY <2>2, <2>3
  <2> QED BY <1>1, <2>3, <2>4 DEF Place
<1>3. CASE one.platform # "win32"
  <2>1. u = v BY <1>1, <1>3 DEF BuildNativeConnectOptions
  <2> QED BY <1>1, <2>1
<1> QED BY <1>2, <1>3

ClientInv ==
  codec = "client" =>
    /\ source \in ClientOptions
    /\ text # NotYet =>
         LET native == BuildNativeConnectOptions(source) IN
         text = IF native = UnsupportedUrl THEN UnsupportedUrl
                ELSE ConnectArguments(native, source.platform)

LEMMA ClientsToldApart ==
  ASSUME NEW options \in ClientOptions, NEW arguments,
         LET native == BuildNativeConnectOptions(options) IN
         arguments = IF native = UnsupportedUrl THEN UnsupportedUrl
                     ELSE ConnectArguments(native, options.platform)
  PROVE  TellsClientsApart(options, arguments)
<1>1. SUFFICES ASSUME arguments # UnsupportedUrl, NEW other \in ClientOptions,
                      other.platform = options.platform,
                      BuildNativeConnectOptions(other) # UnsupportedUrl,
                      ConnectArguments(BuildNativeConnectOptions(other), other.platform) = arguments
               PROVE  /\ Place(other.url) = Place(options.url)
                      /\ HasTimeouts(options.platform) =>
                           /\ Millis(other.timeout) = Millis(options.timeout)
                           /\ Millis(other.connectTimeout) = Millis(options.connectTimeout)
  BY DEF TellsClientsApart
<1>2. PICK one, two : one = BuildNativeConnectOptions(options) /\ two = BuildNativeConnectOptions(other)
  OBVIOUS
<1>3. /\ one # UnsupportedUrl /\ two # UnsupportedUrl
      /\ ConnectArguments(one, options.platform) = ConnectArguments(two, options.platform)
  BY <1>1, <1>2
<1>4. /\ one.url = two.url
      /\ HasTimeouts(options.platform) =>
           /\ Timeval(one.timeout) = Timeval(two.timeout)
           /\ Timeval(one.connectTimeout) = Timeval(two.connectTimeout)
  BY <1>3 DEF ConnectArguments
<1>5. IsClientOptions(options) /\ IsClientOptions(other) BY OptionsAssumption
<1>6. /\ one.timeout = NumberOnly(options.timeout) /\ two.timeout = NumberOnly(other.timeout)
      /\ one.connectTimeout = NumberOnly(options.connectTimeout)
      /\ two.connectTimeout = NumberOnly(other.connectTimeout)
  BY <1>2, <1>3 DEF BuildNativeConnectOptions
<1>7. Place(other.url) = Place(options.url) BY <1>1, <1>2, <1>3, <1>4, <1>5, PlaceTells
<1>8. /\ IsTimeout(options.timeout) /\ IsTimeout(other.timeout)
      /\ IsTimeout(options.connectTimeout) /\ IsTimeout(other.connectTimeout)
  BY <1>5 DEF IsClientOptions
<1> QED BY <1>4, <1>6, <1>7, <1>8, TimevalTells

--------
(* Arguments of the addon: a search *)

LEMMA Int32Is ==
  ASSUME NEW n \in Int, 0 <= n, n < IntRange
  PROVE  Int32(n) = n \div 2
<1>1. PICK low : low = n \div 2 OBVIOUS
<1>2. low \in Nat /\ low < IntRange \div 2 /\ low < IntRange /\ IntRange \in Nat
  BY <1>1, IntRangeAssumption
<1>3. low % IntRange = low BY <1>2
<1>4. Truncated(n) = low BY <1>1 DEF Truncated
<1> QED BY <1>1, <1>2, <1>3, <1>4 DEF Int32

LEMMA Int32Type ==
  ASSUME NEW n \in Int
  PROVE  Int32(n) \in Int
<1>1. Truncated(n) \in Int BY DEF Truncated
<1>2. Truncated(n) % IntRange \in Int BY <1>1, IntRangeAssumption
<1> QED BY <1>2, IntRangeAssumption DEF Int32

\* What a SearchRequest says of the options it is made of.
LEMMA RequestIs ==
  ASSUME NEW options, DOMAIN options = SearchFields
  PROVE  LET request == SearchRequest(options) IN
         /\ request.scope = OrElse(options.scope, "sub")
         /\ request.derefAliases = OrElse(options.derefAliases, "never")
         /\ request.returnAttributeValues = (options.returnAttributeValues # FALSE)
         /\ request.attributes = OrElse(options.attributes, <<>>)
         /\ request.sizeLimit = OrElse(options.sizeLimit, 0)
         /\ request.timeLimit = OrElse(options.timeLimit, 10)
         /\ request.filter = OrElse(options.filter, Undefined)
<1>1. \A f \in SearchFields : Get(options, f) = options[f] /\ \A d : GetOr(options, f, d) = OrElse(options[f], d)
  BY DEF Get, GetOr
<1> QED BY <1>1 DEF SearchRequest, Extended, SearchFields, OrElse

SearchInv ==
  codec = "search" =>
    /\ source \in SearchOptions
    /\ text # NotYet =>
         \/ ~IsPaged(source) /\ text = SearchArguments(ToNativeSearchOptions(source))
         \/ text = SearchArguments(BuildPagedSearchOptions(source, NoCookie))
    /\ back # NotYet =>
         /\ text # NotYet /\ text.page # NotSet
         /\ back = SearchArguments(BuildPagedSearchOptions(source, ServerCookie))

\* What libldap gets for options, whether of search() or of a page.
Asked(options, sent) ==
  /\ sent.scope = ScopeFromString(OrElse(options.scope, "sub"))
  /\ sent.filter = NormalizeFilter(options.filter)
  /\ sent.deref = MapDerefAliases(OrElse(options.derefAliases, "never"))
  /\ sent.attrsOnly = ~(options.returnAttributeValues # FALSE)
  /\ sent.attributes = OrElse(options.attributes, <<>>)
  /\ sent.sizeLimit = Int32(OrElse(options.sizeLimit, 0))
  /\ sent.timeout = IF Int32(OrElse(options.timeLimit, 0)) > 0
                    THEN Int32(OrElse(options.timeLimit, 0)) ELSE NotSet

LEMMA PageIsAsked ==
  ASSUME NEW options, NEW cookie
  PROVE  LET sent == SearchArguments(BuildPagedSearchOptions(options, cookie)) IN
         /\ Asked(options, sent)
         /\ sent.page = IF [size |-> PageSize(options.paged), cookie |-> cookie] = Undefined THEN NotSet
                        ELSE [size |-> Int32(PageSize(options.paged)), cookie |-> cookie]
  BY Zenon DEF SearchArguments, BuildPagedSearchOptions, ToNativeSearchOptions, Asked

LEMMA SearchIsAsked ==
  ASSUME NEW options, ~IsPaged(options)
  PROVE  LET sent == SearchArguments(ToNativeSearchOptions(options)) IN
         Asked(options, sent) /\ sent.page = NotSet
  BY Zenon DEF SearchArguments, ToNativeSearchOptions, Asked, IsPaged

LEMMA LimitsAsked ==
  ASSUME NEW options, IsSearchOptions(options), NEW sent, Asked(options, sent)
  PROVE  /\ IsLimit(options.timeLimit) => sent.timeout = options.timeLimit \div 2
         /\ IsNoLimit(options.timeLimit) => sent.timeout = NotSet
         /\ IsLimit(options.sizeLimit) => sent.sizeLimit = options.sizeLimit \div 2
<1>1. Undefined \notin Int /\ options.timeLimit \in Int \cup {Undefined}
      /\ options.sizeLimit \in Int \cup {Undefined}
  BY UndefinedAssumption DEF IsSearchOptions, Optional
<1>2. PICK time, size : time = options.timeLimit /\ size = options.sizeLimit OBVIOUS
<1>3. /\ sent.sizeLimit = Int32(OrElse(size, 0))
      /\ sent.timeout = IF Int32(OrElse(time, 0)) > 0 THEN Int32(OrElse(time, 0)) ELSE NotSet
  BY <1>2 DEF Asked
<1>4. IsLimit(time) => sent.timeout = time \div 2
  <2>1. SUFFICES ASSUME IsLimit(time) PROVE sent.timeout = time \div 2 OBVIOUS
  <2>2. time \in Int /\ time >= 2 /\ time < IntRange /\ OrElse(time, 0) = time
    BY <1>1, <1>2, <2>1 DEF IsLimit, OrElse
  <2>3. Int32(time) = time \div 2 /\ time \div 2 > 0 BY <2>2, Int32Is
  <2> QED BY <1>3, <2>2, <2>3
<1>5. IsNoLimit(time) => sent.timeout = NotSet
  <2>1. SUFFICES ASSUME IsNoLimit(time) PROVE sent.timeout = NotSet OBVIOUS
  <2>2. PICK n : n = OrElse(time, 0) OBVIOUS
  <2>3. n \in Int /\ 0 <= n /\ n < 2 /\ n < IntRange
    BY <1>1, <1>2, <2>1, <2>2, IntRangeAssumption DEF IsNoLimit, OrElse
  <2>4. Int32(n) = n \div 2 /\ n \div 2 = 0 BY <2>3, Int32Is
  <2> QED BY <1>3, <2>2, <2>4
<1>6. IsLimit(size) => sent.sizeLimit = size \div 2
  <2>1. SUFFICES ASSUME IsLimit(size) PROVE sent.sizeLimit = size \div 2 OBVIOUS
  <2>2. size \in Int /\ size >= 2 /\ size < IntRange /\ OrElse(size, 0) = size
    BY <1>1, <1>2, <2>1 DEF IsLimit, OrElse
  <2> QED BY <1>3, <2>2, Int32Is
<1> QED BY <1>2, <1>4, <1>5, <1>6

LEMMA RequestAsked ==
  ASSUME NEW options, IsSearchOptions(options), NEW sent, Asked(options, sent)
  PROVE  RequestSays(sent, options)
<1>1. PICK request : request = SearchRequest(options) OBVIOUS
<1>2. /\ request.scope = OrElse(options.scope, "sub")
      /\ request.derefAliases = OrElse(options.derefAliases, "never")
      /\ request.returnAttributeValues = (options.returnAttributeValues # FALSE)
      /\ request.attributes = OrElse(options.attributes, <<>>)
      /\ request.sizeLimit = OrElse(options.sizeLimit, 0)
      /\ request.timeLimit = OrElse(options.timeLimit, 10)
      /\ request.filter = OrElse(options.filter, Undefined)
  BY <1>1, RequestIs DEF IsSearchOptions
<1>3. sent.scope = ScopeFromString(request.scope) /\ (sent.scope = "SUBTREE" <=> request.scope = "sub")
  <2>1. request.scope \in Scopes BY <1>2 DEF IsSearchOptions, Optional, OrElse, Scopes
  <2>2. sent.scope = ScopeFromString(request.scope) BY <1>2 DEF Asked
  <2> QED BY <2>1, <2>2 DEF Scopes, ScopeFromString
<1>4. /\ sent.deref = MapDerefAliases(request.derefAliases)
      /\ (sent.deref = "NEVER" <=> request.derefAliases = "never")
  <2>1. request.derefAliases \in DerefAliases
    BY <1>2 DEF IsSearchOptions, Optional, OrElse, DerefAliases
  <2>2. sent.deref = MapDerefAliases(request.derefAliases) BY <1>2 DEF Asked
  <2> QED BY <2>1, <2>2 DEF DerefAliases, MapDerefAliases
<1>5. sent.attrsOnly = ~request.returnAttributeValues BY <1>2 DEF Asked
<1>6. sent.attributes = request.attributes /\ sent.sizeLimit = Int32(request.sizeLimit)
  BY <1>2 DEF Asked
<1>7. options.timeLimit # Undefined /\ request.timeLimit >= 2 /\ request.timeLimit < IntRange =>
        sent.timeout = Int32(request.timeLimit)
  <2>1. SUFFICES ASSUME options.timeLimit # Undefined, request.timeLimit >= 2, request.timeLimit < IntRange
                 PROVE  sent.timeout = Int32(request.timeLimit)
    OBVIOUS
  <2>2. PICK n : n = options.timeLimit OBVIOUS
  <2>3. n \in Int /\ request.timeLimit = n /\ OrElse(options.timeLimit, 0) = n
    BY <1>2, <2>1, <2>2 DEF IsSearchOptions, Optional, OrElse
  <2>4. Int32(n) = n \div 2 /\ n \div 2 > 0 BY <2>1, <2>3, Int32Is
  <2> QED BY <2>3, <2>4 DEF Asked
<1>8. options.filter # Undefined => sent.filter = NormalizeFilter(request.filter)
  BY <1>2 DEF Asked, OrElse
<1> QED BY <1>1, <1>3, <1>4, <1>5, <1>6, <1>7, <1>8 DEF RequestSays

\* What SentAsAsked says of a search.
SearchSent ==
  codec = "search" /\ text # NotYet =>
    /\ RequestSays(text, source)
    /\ IsLimit(source.timeLimit) => text.timeout = source.timeLimit \div 2
    /\ IsNoLimit(source.timeLimit) => text.timeout = NotSet
    /\ IsLimit(source.sizeLimit) => text.sizeLimit = source.sizeLimit \div 2
    /\ IsPaged(source) => text.page # NotSet /\ text.page.cookie = NoCookie
    /\ back # NotYet => back = [text EXCEPT !.page.cookie = ServerCookie]

LEMMA PageSizeType ==
  ASSUME NEW options, IsSearchOptions(options), NEW cookie \in {NoCookie, ServerCookie}
  PROVE  [size |-> PageSize(options.paged), cookie |-> cookie] # Undefined
         /\ [size |-> Int32(PageSize(options.paged)), cookie |-> cookie] # Undefined
<1>1. PageSize(options.paged) \in Int BY DEF IsSearchOptions, IsPageOptions, PageSize, Optional
<1>2. Int32(PageSize(options.paged)) \in Int BY <1>1, Int32Type
<1> QED BY <1>1, <1>2, UndefinedAssumption

\* Pages are of one search, and differ in the cookie alone.
LEMMA PagesDiffer ==
  ASSUME NEW options, IsSearchOptions(options)
  PROVE  SearchArguments(BuildPagedSearchOptions(options, ServerCookie))
           = [SearchArguments(BuildPagedSearchOptions(options, NoCookie))
                EXCEPT !.page.cookie = ServerCookie]
<1>1. PICK size : size = PageSize(options.paged) OBVIOUS
<1>2. [size |-> size, cookie |-> NoCookie] # Undefined /\ [size |-> size, cookie |-> ServerCookie] # Undefined
  BY <1>1, PageSizeType
<1>3. PICK native : native = ToNativeSearchOptions(options) OBVIOUS
<1>4. PICK a, b, c, d, e, f, g :
        /\ a = ScopeFromString(native.scope) /\ b = native.filter
        /\ c = MapDerefAliases(native.derefAliases) /\ d = ~native.returnAttributeValues
        /\ e = native.attributes /\ f = Int32(native.sizeLimit)
        /\ g = IF Int32(native.timeLimit) > 0 THEN Int32(native.timeLimit) ELSE NotSet
  OBVIOUS
<1>5. ASSUME NEW cookie \in {NoCookie, ServerCookie}
      PROVE  SearchArguments(BuildPagedSearchOptions(options, cookie))
               = [scope |-> a, filter |-> b, deref |-> c, attrsOnly |-> d, attributes |-> e,
                  sizeLimit |-> f, timeout |-> g,
                  page |-> [size |-> Int32(size), cookie |-> cookie]]
  <2>1. PICK paged : paged = BuildPagedSearchOptions(options, cookie) OBVIOUS
  <2>2. /\ paged.scope = native.scope /\ paged.filter = native.filter
        /\ paged.derefAliases = native.derefAliases
        /\ paged.returnAttributeValues = native.returnAttributeValues
        /\ paged.attributes = native.attributes /\ paged.sizeLimit = native.sizeLimit
        /\ paged.timeLimit = native.timeLimit
        /\ paged.paged = [size |-> size, cookie |-> cookie]
    BY <1>1, <1>3, <2>1 DEF BuildPagedSearchOptions, ToNativeSearchOptions
  <2>3. paged.paged # Undefined /\ paged.paged.size = size /\ paged.paged.cookie = cookie
    BY <1>2, <2>2
  <2> QED BY <1>4, <2>1, <2>2, <2>3 DEF SearchArguments
<1> QED BY <1>5

LEMMA SearchIsSent ==
  ASSUME SearchInv
  PROVE  SearchSent
<1>1. SUFFICES ASSUME codec = "search", text # NotYet PROVE SearchSent BY DEF SearchSent
<1>2. IsSearchOptions(source) BY <1>1, OptionsAssumption DEF SearchInv
<1>3. \/ ~IsPaged(source) /\ text = SearchArguments(ToNativeSearchOptions(source)) /\ text.page = NotSet
      \/ /\ text = SearchArguments(BuildPagedSearchOptions(source, NoCookie))
         /\ text.page = [size |-> Int32(PageSize(source.paged)), cookie |-> NoCookie]
         /\ text.page # NotSet
  BY <1>1, <1>2, PageIsAsked, SearchIsAsked, PageSizeType DEF SearchInv, NotSet
<1>4. Asked(source, text) BY <1>3, PageIsAsked, SearchIsAsked
<1>5. IsPaged(source) => text.page # NotSet /\ text.page.cookie = NoCookie BY <1>3
<1>6. back # NotYet => back = [text EXCEPT !.page.cookie = ServerCookie]
  BY <1>1, <1>2, <1>3, PagesDiffer DEF SearchInv
<1> QED BY <1>2, <1>4, <1>5, <1>6, RequestAsked, LimitsAsked DEF SearchSent

--------
(* Arguments of the addon: a rename *)

LEMMA LeastIs ==
  ASSUME NEW S \in SUBSET Nat, IsFiniteSet(S), S # {}
  PROVE  Min(S) \in S /\ \A y \in S : Min(S) <= y
<1>1. Cardinality(S) \in Nat /\ Cardinality(S) # 0 BY FS_CardinalityType, FS_EmptySet
<1>2. PICK e \in S : Rank(S, e) = 0 BY <1>1, RankOnto
<1>3. {d \in S : d < e} = {}
  <2>1. {d \in S : d < e} \in SUBSET S OBVIOUS
  <2> QED BY <1>2, <2>1, FS_Subset, FS_EmptySet DEF Rank
<1>4. \A y \in S : e <= y BY <1>3
<1> QED BY <1>4 DEF Min

LEMMA LeastTells ==
  ASSUME NEW S \in SUBSET Nat, NEW e \in S, \A y \in S : e <= y
  PROVE  Min(S) = e
<1>1. Min(S) \in S /\ \A y \in S : Min(S) <= y BY DEF Min
<1>2. Min(S) <= e /\ e <= Min(S) /\ e \in Nat /\ Min(S) \in Nat BY <1>1
<1> QED BY <1>2

LEMMA EndsType ==
  ASSUME NEW T, NEW name \in Seq(T), NEW S \in SUBSET DOMAIN name
  PROVE  S \cup {Len(name) + 1} \in SUBSET (1 .. Len(name) + 1)
         /\ IsFiniteSet(S \cup {Len(name) + 1}) /\ S \cup {Len(name) + 1} # {}
<1>1. S \cup {Len(name) + 1} \in SUBSET (1 .. Len(name) + 1) OBVIOUS
<1>2. IsFiniteSet(1 .. Len(name) + 1) BY FS_Interval
<1> QED BY <1>1, <1>2, FS_Subset

LEMMA FirstCommaIs ==
  ASSUME NEW T, NEW name \in Seq(T)
  PROVE  LET c == FirstComma(name) IN
         /\ c \in 1 .. Len(name) + 1
         /\ c <= Len(name) => c \in Positions(name, Comma)
         /\ \A i \in Positions(name, Comma) : c <= i
<1>1. PICK S : S = Positions(name, Comma) OBVIOUS
<1>2. S \in SUBSET DOMAIN name BY <1>1 DEF Positions
<1>3. /\ S \cup {Len(name) + 1} \in SUBSET (1 .. Len(name) + 1)
      /\ IsFiniteSet(S \cup {Len(name) + 1}) /\ S \cup {Len(name) + 1} # {}
  BY <1>2, EndsType
<1>4. S \cup {Len(name) + 1} \in SUBSET Nat BY <1>3
<1>5. FirstComma(name) \in S \cup {Len(name) + 1}
      /\ \A y \in S \cup {Len(name) + 1} : FirstComma(name) <= y
  BY <1>1, <1>3, <1>4, LeastIs DEF FirstComma
<1> QED BY <1>1, <1>3, <1>5

\* A first comma that is not escaped is where the parent starts.
LEMMA ParentIsAfter ==
  ASSUME NEW T, NEW name \in Seq(T), ~IsEscaped(name, FirstComma(name))
  PROVE  Parent(name) = AfterComma(name)
<1>1. PICK S : S = {i \in Positions(name, Comma) : ~IsEscaped(name, i)} OBVIOUS
<1>2. PICK c : c = FirstComma(name) OBVIOUS
<1>3. /\ c \in 1 .. Len(name) + 1 /\ (c <= Len(name) => c \in Positions(name, Comma))
      /\ \A i \in Positions(name, Comma) : c <= i
  BY <1>2, FirstCommaIs
<1>4. S \in SUBSET DOMAIN name BY <1>1 DEF Positions
<1>5. S \cup {Len(name) + 1} \in SUBSET (1 .. Len(name) + 1) BY <1>4, EndsType
<1>6. c \in S \cup {Len(name) + 1} BY <1>1, <1>2, <1>3
<1>7. \A y \in S \cup {Len(name) + 1} : c <= y BY <1>1, <1>3
<1>8. Min(S \cup {Len(name) + 1}) = c BY <1>5, <1>6, <1>7, LeastTells
<1> QED BY <1>1, <1>2, <1>8 DEF Parent, AfterComma

\* A name is what comes before its first comma, under what comes after it.
LEMMA CutName ==
  ASSUME NEW T, NEW name \in Seq(T), IsCut(name)
  PROVE  /\ BeforeComma(name) \in Seq(T) /\ AfterComma(name) \in Seq(T)
         /\ name = Under(BeforeComma(name), AfterComma(name))
         /\ Parent(name) = AfterComma(name)
         /\ AfterComma(name) = <<>> => FirstComma(name) = Len(name) + 1 /\ BeforeComma(name) = name
<1>1. PICK c : c = FirstComma(name) OBVIOUS
<1>2. c \in 1 .. Len(name) + 1 /\ (c <= Len(name) => c \in Positions(name, Comma)) /\ Len(name) \in Nat
  BY <1>1, FirstCommaIs
<1>3. BeforeComma(name) = SubSeq(name, 1, c - 1) /\ AfterComma(name) = SubSeq(name, c + 1, Len(name))
  BY <1>1 DEF BeforeComma, AfterComma
<1>4. BeforeComma(name) \in Seq(T) /\ AfterComma(name) \in Seq(T) BY <1>2, <1>3, SubType
<1>5. Parent(name) = AfterComma(name) BY ParentIsAfter DEF IsCut
<1>6. CASE c = Len(name) + 1
  <2>1. AfterComma(name) = <<>> BY <1>2, <1>3, <1>6, SubSeqEmpty
  <2>2. BeforeComma(name) = name BY <1>2, <1>3, <1>6, SubAll
  <2> QED BY <1>1, <1>4, <1>5, <1>6, <2>1, <2>2 DEF Under
<1>7. CASE c <= Len(name)
  <2>1. AfterComma(name) # <<>> BY <1>1, <1>7 DEF IsCut
  <2>2. name[c] = Comma /\ c \in 1 .. Len(name) BY <1>2, <1>7 DEF Positions
  <2>3. name = SubSeq(name, 1, c - 1) \o <<name[c]>> \o SubSeq(name, c + 1, Len(name))
    <3>1. name = SubSeq(name, 1, c) \o SubSeq(name, c + 1, Len(name))
      BY <1>2, <2>2, SubAll, ConcatAdjacentSubSeq
    <3>2. SubSeq(name, 1, c) = SubSeq(name, 1, c - 1) \o <<name[c]>>
      BY <1>2, <2>2, SubSeqRecursiveSecond
    <3> QED BY <3>1, <3>2
  <2> QED BY <1>3, <1>4, <1>5, <2>1, <2>2, <2>3 DEF Under
<1> QED BY <1>2, <1>6, <1>7

\* A comma is escaped by what comes before it.
LEMMA EscapedAlike ==
  ASSUME NEW T, NEW s \in Seq(T), NEW t \in Seq(T)
  PROVE  IsEscaped(s \o t, Len(s) + 1) = IsEscaped(s, Len(s) + 1)
<1>1. PICK i : i = Len(s) + 1 OBVIOUS
<1>2. i - 1 = Len(s) /\ Len(s) \in Nat /\ \A k \in 1 .. Len(s) : (s \o t)[k] = s[k] BY <1>1, Joined
<1>3. {j \in 0 .. i - 1 : \A k \in j + 1 .. i - 1 : (s \o t)[k] = "\\"}
        = {j \in 0 .. i - 1 : \A k \in j + 1 .. i - 1 : s[k] = "\\"}
  BY <1>2
<1> QED BY <1>1, <1>3 DEF IsEscaped

\* An RDN under a parent has that parent.
LEMMA ParentOfUnder ==
  ASSUME NEW T, Comma \in T, NEW rdn \in Seq(T), NEW parent \in Seq(T),
         FirstComma(rdn) = Len(rdn) + 1, ~IsEscaped(rdn, Len(rdn) + 1)
  PROVE  Parent(Under(rdn, parent)) = parent
<1>1. CASE parent = <<>> BY ParentIsAfter, <1>1, SubSeqEmpty DEF AfterComma, Under
<1>2. CASE parent # <<>>
  <2>1. PICK rest, name : rest = <<Comma>> \o parent /\ name = rdn \o rest OBVIOUS
  <2>2. rest \in Seq(T) /\ Len(rest) = Len(parent) + 1 /\ rest[1] = Comma
        /\ SubSeq(rest, 2, Len(rest)) = parent
    BY <2>1
  <2>3. name \in Seq(T) /\ Len(name) = Len(rdn) + Len(rest)
        /\ (\A i \in 1 .. Len(rdn) : name[i] = rdn[i]) /\ name[Len(rdn) + 1] = Comma
    BY <2>1, <2>2, Joined
  <2>4. Under(rdn, parent) = name BY <1>2, <2>1, ConcatAssociative DEF Under
  <2>5. \A i \in 1 .. Len(rdn) : rdn[i] # Comma
    <3>1. ASSUME NEW i \in 1 .. Len(rdn), rdn[i] = Comma PROVE FALSE
      <4>1. i \in Positions(rdn, Comma) BY <3>1 DEF Positions
      <4> QED BY <4>1, FirstCommaIs
    <3> QED BY <3>1
  <2>6. FirstComma(name) = Len(rdn) + 1
    <3>1. Len(rdn) + 1 \in Positions(name, Comma) BY <2>2, <2>3 DEF Positions
    <3>2. \A i \in Positions(name, Comma) : Len(rdn) + 1 <= i BY <2>3, <2>5 DEF Positions
    <3>3. Positions(name, Comma) \cup {Len(name) + 1} \in SUBSET Nat BY <2>3 DEF Positions
    <3>4. \A i \in Positions(name, Comma) \cup {Len(name) + 1} : Len(rdn) + 1 <= i
      BY <2>2, <2>3, <3>2
    <3> QED BY <3>1, <3>3, <3>4, LeastTells DEF FirstComma
  <2>7. ~IsEscaped(name, FirstComma(name)) BY <2>1, <2>2, <2>6, EscapedAlike
  <2>8. Parent(name) = SubSeq(name, Len(rdn) + 2, Len(name))
    <3>1. Parent(name) = AfterComma(name) BY <2>3, <2>7, ParentIsAfter
    <3>2. Len(rdn) + 1 + 1 = Len(rdn) + 2 OBVIOUS
    <3> QED BY <2>6, <3>1, <3>2 DEF AfterComma
  <2>9. SubSeq(name, Len(rdn) + 2, Len(name)) = parent BY <2>1, <2>2
  <2> QED BY <2>4, <2>8, <2>9
<1> QED BY <1>1, <1>2

RenameInv ==
  codec = "rename" =>
    /\ source \in [dn : EntryNames, newDN : EntryNames]
    /\ text # NotYet => text = RenameArguments(source.dn, source.newDN)
    /\ back # NotYet => text # NotYet /\ back = Renamed(text)

LEMMA RenamedAsAsked ==
  ASSUME NEW dn \in Seq(STRING), NEW newDN \in Seq(STRING), IsCut(dn), IsCut(newDN)
  PROVE  LET asked == IF Parent(newDN) # <<>> THEN newDN ELSE Under(newDN, Parent(dn))
             sent == RenameArguments(dn, newDN)
         IN /\ Renamed(sent) = asked
            /\ sent.newParent # NotSet <=> Parent(asked) # Parent(dn)
<1>1. PICK T : T = STRING \cup {Comma} OBVIOUS
<1>2. dn \in Seq(T) /\ newDN \in Seq(T) /\ Comma \in T BY <1>1, SeqMonotonic
<1>3. PICK p, rdn, a : p = Parent(dn) /\ rdn = BeforeComma(newDN) /\ a = AfterComma(newDN) OBVIOUS
<1>4. p = AfterComma(dn) /\ p \in Seq(T) BY <1>2, <1>3, CutName
<1>5. rdn \in Seq(T) /\ newDN = Under(rdn, a) /\ Parent(newDN) = a
      /\ (a = <<>> => FirstComma(newDN) = Len(newDN) + 1 /\ rdn = newDN)
  BY <1>2, <1>3, CutName
<1>6. a # NotSet
  <2>1. SubSeq(newDN, FirstComma(newDN) + 1, Len(newDN)) \in Seq(STRING)
    <3>1. FirstComma(newDN) \in 1 .. Len(newDN) + 1 BY FirstCommaIs
    <3> QED BY <3>1, SubType
  <2> QED BY <1>3, <2>1, UndefinedAssumption DEF AfterComma, NotSet
<1>7. PICK sent : sent = RenameArguments(dn, newDN) OBVIOUS
<1>8. sent.newParent = (IF a = <<>> \/ a = p THEN NotSet ELSE a)
  BY <1>3, <1>4, <1>7 DEF RenameArguments
<1>9. Renamed(sent) = Under(rdn, IF sent.newParent = NotSet THEN p ELSE sent.newParent)
  BY <1>3, <1>7 DEF RenameArguments, Renamed
<1>10. CASE a = <<>>
  <2>1. ~IsEscaped(newDN, Len(newDN) + 1) BY <1>5, <1>10 DEF IsCut
  <2>2. Parent(Under(newDN, p)) = p BY <1>2, <1>4, <1>5, <1>10, <2>1, ParentOfUnder
  <2> QED BY <1>3, <1>5, <1>7, <1>8, <1>9, <1>10, <2>2
<1>11. CASE a # <<>> BY <1>3, <1>5, <1>6, <1>7, <1>8, <1>9, <1>11
<1> QED BY <1>10, <1>11

\* What libldap gets says what was asked: of a client, of a search and its
\* pages, and of a rename.
THEOREM SentIsAsked == ConversionsSpec => []SentAsAsked
<1> DEFINE SentInv == ClientInv /\ SearchInv /\ RenameInv
<1>1. ConversionsInit => SentInv BY DEF ConversionsInit, ClientInv, SearchInv, RenameInv
<1>2. SentInv /\ [ConversionsNext]_textVars => SentInv'
  <2>1. SUFFICES ASSUME SentInv, [ConversionsNext]_textVars PROVE SentInv' OBVIOUS
  <2>2. ClientInv'
    <3>1. CASE UNCHANGED textVars BY <2>1, <3>1 DEF textVars, ClientInv
    <3>2. CASE ConversionsNext /\ codec = "client"
      BY <2>1, <3>2, Steps DEF Connect, Writes, ClientInv
    <3>3. CASE ConversionsNext /\ codec # "client" BY <3>3, Steps DEF ClientInv
    <3> QED BY <2>1, <3>1, <3>2, <3>3
  <2>3. SearchInv'
    <3>1. CASE UNCHANGED textVars BY <2>1, <3>1 DEF textVars, SearchInv
    <3>2. CASE FirstSearch BY <2>1, <3>2 DEF FirstSearch, Writes, SearchInv
    <3>3. CASE NextPage BY <2>1, <3>3 DEF NextPage, Reads, SearchInv
    <3>4. CASE ConversionsNext /\ codec # "search" BY <3>4, Steps DEF SearchInv
    <3> QED BY <2>1, <3>1, <3>2, <3>3, <3>4, Steps
  <2>4. RenameInv'
    <3>1. CASE UNCHANGED textVars BY <2>1, <3>1 DEF textVars, RenameInv
    <3>2. CASE Rename BY <2>1, <3>2 DEF Rename, Writes, RenameInv
    <3>3. CASE RenameEntry BY <2>1, <3>3 DEF RenameEntry, Reads, RenameInv
    <3>4. CASE ConversionsNext /\ codec # "rename" BY <3>4, Steps DEF RenameInv
    <3> QED BY <2>1, <3>1, <3>2, <3>3, <3>4, Steps
  <2> QED BY <2>2, <2>3, <2>4
<1>3. SentInv => SentAsAsked
  <2>1. SUFFICES ASSUME ClientInv, SearchInv, RenameInv PROVE SentAsAsked OBVIOUS
  <2>2. codec = "client" /\ text # NotYet => TellsClientsApart(source, text)
    BY <2>1, ClientsToldApart DEF ClientInv
  <2>3. SearchSent BY <2>1, SearchIsSent
  <2>4. codec = "rename" /\ back # NotYet /\ IsCut(source.dn) /\ IsCut(source.newDN) =>
          LET asked == IF Parent(source.newDN) # <<>> THEN source.newDN
                       ELSE Under(source.newDN, Parent(source.dn))
          IN /\ back = asked
             /\ text.newParent # NotSet <=> Parent(asked) # Parent(source.dn)
    <3>1. SUFFICES ASSUME codec = "rename", back # NotYet, IsCut(source.dn), IsCut(source.newDN)
                   PROVE  LET asked == IF Parent(source.newDN) # <<>> THEN source.newDN
                                       ELSE Under(source.newDN, Parent(source.dn))
                          IN /\ back = asked
                             /\ text.newParent # NotSet <=> Parent(asked) # Parent(source.dn)
      OBVIOUS
    <3>2. source.dn \in Seq(STRING) /\ source.newDN \in Seq(STRING)
      BY <2>1, <3>1, NamesAssumption DEF RenameInv
    <3>3. text = RenameArguments(source.dn, source.newDN) /\ back = Renamed(text)
      BY <2>1, <3>1 DEF RenameInv
    <3> QED BY <3>1, <3>2, <3>3, RenamedAsAsked
  <2> QED BY <2>2, <2>3, <2>4 DEF SentAsAsked, SearchSent
<1> QED BY <1>1, <1>2, <1>3, PTL DEF ConversionsSpec

--------
(* Texts that trim() leaves alone *)

LEMMA GreatestIs ==
  ASSUME NEW S \in SUBSET Nat, IsFiniteSet(S), S # {}
  PROVE  Max(S) \in S /\ \A y \in S : Max(S) >= y
<1>1. Cardinality(S) \in Nat /\ Cardinality(S) # 0 BY FS_CardinalityType, FS_EmptySet
<1>2. PICK e \in S : Rank(S, e) = Cardinality(S) - 1
  <2>1. Cardinality(S) - 1 \in 0 .. Cardinality(S) - 1 BY <1>1
  <2> QED BY <2>1, RankOnto
<1>3. \A y \in S : e >= y
  <2>1. SUFFICES ASSUME NEW y \in S, e < y PROVE FALSE OBVIOUS
  <2>2. Rank(S, e) < Rank(S, y) /\ Rank(S, y) \in 0 .. Cardinality(S) - 1
    BY <2>1, RankGrows, RankType
  <2> QED BY <1>1, <1>2, <2>2
<1> QED BY <1>3 DEF Max

LEMMA GreatestTells ==
  ASSUME NEW S \in SUBSET Nat, NEW e \in S, \A y \in S : e >= y
  PROVE  Max(S) = e
<1>1. Max(S) \in S /\ \A y \in S : Max(S) >= y BY DEF Max
<1>2. Max(S) >= e /\ e >= Max(S) /\ e \in Nat /\ Max(S) \in Nat BY <1>1
<1> QED BY <1>2

\* A text without a blank at either end.
Tight(s) == s = <<>> \/ (s[1] # Blank /\ s[Len(s)] # Blank)

LEMMA TrimTight ==
  ASSUME NEW T, NEW s \in Seq(T), Tight(s)
  PROVE  Trim(s) = s
<1>1. PICK kept : kept = DOMAIN s \ Positions(s, Blank) OBVIOUS
<1>2. \A i \in kept : i \in 1 .. Len(s) /\ s[i] # Blank BY <1>1 DEF Positions
<1>3. CASE s = <<>>
  <2>1. kept = {} BY <1>2, <1>3
  <2> QED BY <1>1, <1>3, <2>1 DEF Trim
<1>4. CASE s # <<>>
  <2>1. Len(s) \in Nat /\ Len(s) # 0 /\ DOMAIN s = 1 .. Len(s) BY <1>4
  <2>2. 1 \in kept /\ Len(s) \in kept BY <1>1, <1>4, <2>1 DEF Tight, Positions
  <2>3. kept \in SUBSET Nat BY <1>2
  <2>4. Min(kept) = 1 /\ Max(kept) = Len(s) BY <1>2, <2>1, <2>2, <2>3, LeastTells, GreatestTells
  <2> QED BY <1>1, <2>2, <2>4, SubAll DEF Trim
<1> QED BY <1>3, <1>4

\* What trim() leaves of a text.
LEMMA TrimIs ==
  ASSUME NEW T, NEW s \in Seq(T)
  PROVE  \/ Trim(s) = <<>>
         \/ \E a \in 1 .. Len(s), b \in 1 .. Len(s) :
              /\ a <= b /\ Trim(s) = SubSeq(s, a, b) /\ s[a] # Blank /\ s[b] # Blank
              /\ \A i \in 1 .. Len(s) : i < a \/ b < i => s[i] = Blank
<1>1. PICK kept : kept = DOMAIN s \ Positions(s, Blank) OBVIOUS
<1>2. \A i : i \in kept <=> i \in 1 .. Len(s) /\ s[i] # Blank BY <1>1 DEF Positions
<1>3. CASE kept = {} BY <1>1, <1>3 DEF Trim
<1>4. CASE kept # {}
  <2>1. kept \in SUBSET (1 .. Len(s)) /\ IsFiniteSet(1 .. Len(s)) BY <1>2, FS_Interval
  <2>2. IsFiniteSet(kept) /\ kept \in SUBSET Nat
    <3>1. IsFiniteSet(kept) BY ONLY <2>1, FS_Subset
    <3> QED BY <1>2, <3>1
  <2>3. PICK a, b : a = Min(kept) /\ b = Max(kept) OBVIOUS
  <2>4. /\ a \in kept /\ b \in kept
        /\ \A y \in kept : a <= y /\ y <= b
    BY <1>4, <2>2, <2>3, LeastIs, GreatestIs
  <2>5. Trim(s) = SubSeq(s, a, b) BY <1>1, <1>4, <2>3 DEF Trim
  <2>6. /\ a \in 1 .. Len(s) /\ b \in 1 .. Len(s) /\ s[a] # Blank /\ s[b] # Blank BY <1>2, <2>4
  <2>7. \A i \in 1 .. Len(s) : i < a \/ b < i => s[i] = Blank BY <1>2, <2>4, <2>6
  <2> QED BY <2>4, <2>5, <2>6, <2>7
<1> QED BY <1>3, <1>4

LEMMA TrimType ==
  ASSUME NEW T, NEW s \in Seq(T)
  PROVE  /\ Trim(s) \in Seq(T) /\ Tight(Trim(s))
         /\ \A x : Positions(s, x) = {} => Positions(Trim(s), x) = {}
<1>1. CASE Trim(s) = <<>> BY <1>1 DEF Tight, Positions
<1>2. CASE Trim(s) # <<>>
  <2>1. PICK a \in 1 .. Len(s), b \in 1 .. Len(s) :
           a <= b /\ Trim(s) = SubSeq(s, a, b) /\ s[a] # Blank /\ s[b] # Blank
    BY <1>2, TrimIs
  <2>2. PICK t : t = Trim(s) OBVIOUS
  <2>3. /\ t \in Seq(T) /\ Len(t) = b - a + 1
        /\ \A i \in 1 .. Len(t) : t[i] = s[a + i - 1] /\ a + i - 1 \in 1 .. Len(s)
    BY <2>1, <2>2
  <2>4. t[1] = s[a] /\ t[Len(t)] = s[b] BY <2>1, <2>3
  <2>5. ASSUME NEW x, Positions(s, x) = {} PROVE Positions(t, x) = {}
    <3>1. \A i \in 1 .. Len(s) : s[i] # x BY <2>5 DEF Positions
    <3>2. \A i \in 1 .. Len(t) : t[i] # x BY <2>3, <3>1
    <3>3. DOMAIN t = 1 .. Len(t) BY <2>3
    <3> QED BY <3>2, <3>3 DEF Positions
  <2> QED BY <2>1, <2>2, <2>3, <2>4, <2>5 DEF Tight
<1> QED BY <1>1, <1>2

LEMMA TightIs ==
  ASSUME NEW T, NEW s \in Seq(T)
  PROVE  Trim(s) = s <=> Tight(s)
  BY TrimTight, TrimType

--------
(* The backslashes a text ends in *)

Backslashes(s) == Len(s) - Max((DOMAIN s \ Positions(s, "\\")) \cup {0})

LEMMA DanglingIs ==
  ASSUME NEW s
  PROVE  Dangling(s) <=> Backslashes(s) % 2 = 1
  BY DEF Dangling, Backslashes

\* All after the first m tokens, the last of which is another.
EndsAfter(s, m) ==
  /\ m \in 0 .. Len(s) /\ (m # 0 => s[m] # "\\")
  /\ \A i \in m + 1 .. Len(s) : s[i] = "\\"

LEMMA BackslashesAre ==
  ASSUME NEW T, NEW s \in Seq(T)
  PROVE  \E m \in 0 .. Len(s) : EndsAfter(s, m) /\ Backslashes(s) = Len(s) - m
<1>1. PICK others, m : others = (DOMAIN s \ Positions(s, "\\")) \cup {0} /\ m = Max(others) OBVIOUS
<1>2. DOMAIN s = 1 .. Len(s) /\ Len(s) \in Nat OBVIOUS
<1>3. \A i : i \in others <=> i = 0 \/ (i \in 1 .. Len(s) /\ s[i] # "\\")
  BY <1>1, <1>2 DEF Positions
<1>4. others \in SUBSET (0 .. Len(s)) /\ 0 \in others /\ IsFiniteSet(0 .. Len(s))
  BY <1>2, <1>3, FS_Interval
<1>5. IsFiniteSet(others) /\ others \in SUBSET Nat /\ others # {}
  <2>1. IsFiniteSet(others) BY ONLY <1>4, FS_Subset
  <2> QED BY <1>2, <1>3, <1>4, <2>1
<1>6. m \in others /\ \A y \in others : y <= m BY <1>1, <1>5, GreatestIs
<1>7. EndsAfter(s, m) BY <1>2, <1>3, <1>4, <1>6 DEF EndsAfter
<1> QED BY <1>1, <1>4, <1>6, <1>7 DEF Backslashes

LEMMA BackslashesTell ==
  ASSUME NEW T, NEW s \in Seq(T), NEW m, EndsAfter(s, m)
  PROVE  Backslashes(s) = Len(s) - m
<1>1. PICK k \in 0 .. Len(s) : EndsAfter(s, k) /\ Backslashes(s) = Len(s) - k BY BackslashesAre
<1>2. m = k BY <1>1 DEF EndsAfter
<1> QED BY <1>1, <1>2

\* r is s, then x, then w.
Reaches(r, s, x, w) ==
  /\ Len(r) = Len(s) + 1 + Len(w)
  /\ \A i \in 1 .. Len(s) : r[i] = s[i]
  /\ r[Len(s) + 1] = x
  /\ \A i \in 1 .. Len(w) : r[Len(s) + 1 + i] = w[i]

LEMMA AfterIs ==
  ASSUME NEW T, NEW s \in Seq(T), NEW x \in T, NEW w \in Seq(T)
  PROVE  After(s, x, w) \in Seq(T) /\ Reaches(After(s, x, w), s, x, w)
<1>1. PICK u : u = Append(s, x) OBVIOUS
<1>2. /\ u \in Seq(T) /\ Len(u) = Len(s) + 1 /\ u[Len(s) + 1] = x
      /\ \A i \in 1 .. Len(s) : u[i] = s[i]
  BY <1>1, Appended
<1>3. s \o <<x>> = u BY <1>1, JoinedLast
<1>4. PICK r : r = u \o w /\ r = After(s, x, w) BY <1>3, Zenon DEF After, Then
<1>5. /\ r \in Seq(T) /\ Len(r) = Len(u) + Len(w)
      /\ \A i \in 1 .. Len(u) : r[i] = u[i]
      /\ \A i \in 1 .. Len(w) : r[Len(u) + i] = w[i]
  <2>1. u \in Seq(T) /\ r = u \o w BY <1>2, <1>4
  <2> QED BY ONLY <2>1, w \in Seq(T), Joined
<1> QED BY <1>2, <1>4, <1>5 DEF Reaches

\* Another token before a text changes nothing about its end.
LEMMA BackslashesAfter ==
  ASSUME NEW T, NEW s \in Seq(T), NEW x \in T, NEW w \in Seq(T), x # "\\"
  PROVE  Backslashes(After(s, x, w)) = Backslashes(w)
<1>1. PICK r : r = After(s, x, w) OBVIOUS
<1>2. /\ r \in Seq(T) /\ Len(r) = Len(s) + 1 + Len(w) /\ r[Len(s) + 1] = x
      /\ \A i \in 1 .. Len(w) : r[Len(s) + 1 + i] = w[i]
  <2>1. r \in Seq(T) /\ Reaches(r, s, x, w) BY <1>1, AfterIs
  <2> QED BY <2>1 DEF Reaches
<1>3. PICK m \in 0 .. Len(w) : EndsAfter(w, m) /\ Backslashes(w) = Len(w) - m BY BackslashesAre
<1>4. Len(s) \in Nat /\ Len(w) \in Nat OBVIOUS
<1>5. EndsAfter(r, Len(s) + 1 + m)
  <2>1. Len(s) + 1 + m \in 0 .. Len(r) BY <1>2, <1>4
  <2>2. r[Len(s) + 1 + m] # "\\"
    <3>1. CASE m = 0 BY <1>2, <1>4, <3>1
    <3>2. CASE m # 0 BY <1>2, <1>3, <1>4, <3>2 DEF EndsAfter
    <3> QED BY <3>1, <3>2
  <2>3. ASSUME NEW i \in Len(s) + 1 + m + 1 .. Len(r) PROVE r[i] = "\\"
    <3>1. PICK j \in m + 1 .. Len(w) : i = Len(s) + 1 + j
      <4>1. i - Len(s) - 1 \in m + 1 .. Len(w) /\ i = Len(s) + 1 + (i - Len(s) - 1) BY <1>2, <1>4
      <4> QED BY <4>1
    <3>2. w[j] = "\\" /\ j \in 1 .. Len(w) BY <1>3, <1>4, <3>1 DEF EndsAfter
    <3> QED BY <1>2, <3>1, <3>2
  <2> QED BY <2>1, <2>2, <2>3 DEF EndsAfter
<1>6. Backslashes(r) = Len(r) - (Len(s) + 1 + m) BY <1>2, <1>5, BackslashesTell
<1> QED BY <1>1, <1>2, <1>3, <1>4, <1>6

\* A text around one of its tokens.
LEMMA Around ==
  ASSUME NEW T, NEW s \in Seq(T), NEW i \in 1 .. Len(s)
  PROVE  /\ s = After(SubSeq(s, 1, i - 1), s[i], SubSeq(s, i + 1, Len(s)))
         /\ SubSeq(s, 1, i - 1) \in Seq(T) /\ SubSeq(s, i + 1, Len(s)) \in Seq(T) /\ s[i] \in T
         /\ Len(SubSeq(s, 1, i - 1)) = i - 1
<1>1. SubSeq(s, 1, i - 1) \in Seq(T) /\ SubSeq(s, i + 1, Len(s)) \in Seq(T) /\ s[i] \in T
      /\ Len(SubSeq(s, 1, i - 1)) = i - 1
  OBVIOUS
<1>2. s = SubSeq(s, 1, i) \o SubSeq(s, i + 1, Len(s)) BY SubAll, ConcatAdjacentSubSeq
<1>3. SubSeq(s, 1, i) = SubSeq(s, 1, i - 1) \o <<s[i]>> BY SubSeqRecursiveSecond
<1> QED BY <1>1, <1>2, <1>3, Zenon DEF After, Then

LEMMA Marks ==
  /\ Comma # "+" /\ Comma # "=" /\ Comma # "\\" /\ Comma # Blank
  /\ Blank # "+" /\ Blank # "=" /\ Blank # "\\"
  /\ "\\" # "+" /\ "\\" # "=" /\ "+" # "="
  BY Zenon DEF Comma, Blank

\* All commas of a text separate or none does.
LEMMA SeparatorsAre ==
  ASSUME NEW T, NEW s \in Seq(T)
  PROVE  Separators(s) = IF Dangling(s) THEN {} ELSE Positions(s, Comma)
<1>1. ASSUME NEW i \in Positions(s, Comma)
      PROVE  Dangling(SubSeq(s, i + 1, Len(s))) <=> Dangling(s)
  <2>1. i \in 1 .. Len(s) /\ s[i] = Comma BY <1>1 DEF Positions
  <2>2. PICK p, w : p = SubSeq(s, 1, i - 1) /\ w = SubSeq(s, i + 1, Len(s)) OBVIOUS
  <2>3. s = After(p, Comma, w) /\ p \in Seq(T) /\ w \in Seq(T) /\ Comma \in T BY <2>1, <2>2, Around
  <2>4. Backslashes(s) = Backslashes(w) BY <2>3, Marks, BackslashesAfter
  <2> QED BY <2>2, <2>4, DanglingIs
<1> QED BY <1>1 DEF Separators

--------
(* What joined and split texts have in common with their parts *)

LEMMA JoinEmpty == \A x : Join(<<>>, x) = <<>>
<1>1. \A x : Joinable(<<>>, x) = <<>> BY DEF Joinable
<1> QED BY <1>1, JoinIs, FlattenEmpty

LEMMA AfterLacks ==
  ASSUME NEW T, NEW s \in Seq(T), NEW x \in T, NEW w \in Seq(T), NEW y, x # y,
         Positions(s, y) = {}, Positions(w, y) = {}
  PROVE  Positions(After(s, x, w), y) = {}
<1>1. PICK r : r = After(s, x, w) OBVIOUS
<1>2. /\ r \in Seq(T) /\ Len(r) = Len(s) + 1 + Len(w) /\ r[Len(s) + 1] = x
      /\ \A i \in 1 .. Len(s) : r[i] = s[i]
      /\ \A i \in 1 .. Len(w) : r[Len(s) + 1 + i] = w[i]
  <2>1. r \in Seq(T) /\ Reaches(r, s, x, w) BY <1>1, AfterIs
  <2> QED BY <2>1 DEF Reaches
<1>3. (\A i \in 1 .. Len(s) : s[i] # y) /\ (\A i \in 1 .. Len(w) : w[i] # y) BY DEF Positions
<1>4. ASSUME NEW i \in 1 .. Len(r) PROVE r[i] # y
  <2>1. i \in 1 .. Len(s) \/ i = Len(s) + 1 \/ i - Len(s) - 1 \in 1 .. Len(w)
    <3>1. Len(s) \in Nat /\ Len(w) \in Nat OBVIOUS
    <3> QED BY <1>2, <3>1
  <2>2. CASE i - Len(s) - 1 \in 1 .. Len(w)
    <3>1. PICK j \in 1 .. Len(w) : i = Len(s) + 1 + j
      <4>1. i = Len(s) + 1 + (i - Len(s) - 1) BY <1>2
      <4> QED BY <2>2, <4>1
    <3> QED BY <1>2, <1>3, <3>1
  <2> QED BY <1>2, <1>3, <2>1, <2>2
<1>5. DOMAIN r = 1 .. Len(r) BY <1>2
<1> QED BY <1>1, <1>4, <1>5 DEF Positions

Proper(s) == s # <<>> /\ Tight(s)

LEMMA AfterProper ==
  ASSUME NEW T, NEW s \in Seq(T), NEW x \in T, NEW w \in Seq(T), Proper(s), Proper(w)
  PROVE  Proper(After(s, x, w))
<1>1. PICK r : r = After(s, x, w) OBVIOUS
<1>2. /\ r \in Seq(T) /\ Len(r) = Len(s) + 1 + Len(w)
      /\ \A i \in 1 .. Len(s) : r[i] = s[i]
      /\ \A i \in 1 .. Len(w) : r[Len(s) + 1 + i] = w[i]
  <2>1. r \in Seq(T) /\ Reaches(r, s, x, w) BY <1>1, AfterIs
  <2> QED BY <2>1 DEF Reaches
<1>3. /\ Len(s) \in Nat /\ Len(s) # 0 /\ Len(w) \in Nat /\ Len(w) # 0
      /\ s[1] # Blank /\ w[Len(w)] # Blank
  BY DEF Proper, Tight
<1>4. r[1] = s[1] /\ r[Len(r)] = w[Len(w)] BY <1>2, <1>3
<1>5. r # <<>> BY <1>2, <1>3
<1> QED BY <1>1, <1>3, <1>4, <1>5 DEF Proper, Tight

\* A joined text has no token that is neither the separator nor in a word.
LEMMA JoinLacks ==
  ASSUME NEW T, NEW words \in Seq(Seq(T)), NEW x \in T, NEW y, x # y, Separable(words, y)
  PROVE  Positions(Join(words, x), y) = {}
<1> DEFINE A == {v \in Seq(Seq(T)) : Separable(v, y) => Positions(Join(v, x), y) = {}}
<1>1. <<>> \in A BY JoinEmpty DEF Positions
<1>2. ASSUME NEW v \in Seq(Seq(T)), NEW w \in Seq(T), v \in A PROVE Append(v, w) \in A
  <2>1. PICK u, S : u = Append(v, w) /\ S = Seq(T) OBVIOUS
  <2>2. v \in Seq(S) /\ w \in S BY <2>1
  <2>3. /\ u \in Seq(S) /\ Len(u) = Len(v) + 1 /\ u[Len(v) + 1] = w
        /\ \A i \in 1 .. Len(v) : u[i] = v[i]
    BY ONLY <2>1, <2>2, Appended
  <2>4. Len(v) \in Nat OBVIOUS
  <2>5. SUFFICES ASSUME Separable(u, y) PROVE Positions(Join(u, x), y) = {} BY <2>1, <2>3
  <2>6. Positions(w, y) = {}
    <3>1. Len(v) + 1 \in 1 .. Len(u) BY <2>3, <2>4
    <3> QED BY <2>3, <2>5, <3>1 DEF Separable
  <2>7. Separable(v, y)
    <3>1. \A i \in 1 .. Len(v) : i \in 1 .. Len(u) BY <2>3, <2>4
    <3> QED BY <2>3, <2>5, <3>1 DEF Separable
  <2>8. CASE v = <<>>
    <3>1. u = <<w>> BY <2>1, <2>8
    <3> QED BY <2>6, <3>1, JoinOne
  <2>9. CASE v # <<>>
    <3>1. PICK s : s = Join(v, x) OBVIOUS
    <3>2. s \in Seq(T) BY <3>1, JoinType
    <3>3. Join(u, x) = After(s, x, w) BY <2>1, <2>9, <3>1, JoinMore
    <3>4. Positions(s, y) = {} BY <1>2, <2>7, <3>1
    <3> QED BY <2>6, <3>2, <3>3, <3>4, AfterLacks
  <2> QED BY <2>8, <2>9
<1>3. words \in A
  <2> HIDE DEF A
  <2>1. PICK S : S = Seq(T) OBVIOUS
  <2>2. ASSUME NEW v \in Seq(S), NEW w \in S, v \in A PROVE Append(v, w) \in A BY <1>2, <2>1, <2>2
  <2>3. words \in Seq(S) BY <2>1
  <2> QED BY ONLY <1>1, <2>2, <2>3, SeqInduction
<1> QED BY <1>3

AllProper(words) == \A i \in 1 .. Len(words) : Proper(words[i])

LEMMA JoinProper ==
  ASSUME NEW T, NEW words \in Seq(Seq(T)), NEW x \in T, words # <<>>, AllProper(words)
  PROVE  Proper(Join(words, x))
<1> DEFINE A == {v \in Seq(Seq(T)) : v # <<>> /\ AllProper(v) => Proper(Join(v, x))}
<1>1. <<>> \in A OBVIOUS
<1>2. ASSUME NEW v \in Seq(Seq(T)), NEW w \in Seq(T), v \in A PROVE Append(v, w) \in A
  <2>1. PICK u, S : u = Append(v, w) /\ S = Seq(T) OBVIOUS
  <2>2. v \in Seq(S) /\ w \in S BY <2>1
  <2>3. /\ u \in Seq(S) /\ Len(u) = Len(v) + 1 /\ u[Len(v) + 1] = w
        /\ \A i \in 1 .. Len(v) : u[i] = v[i]
    BY ONLY <2>1, <2>2, Appended
  <2>4. Len(v) \in Nat OBVIOUS
  <2>5. SUFFICES ASSUME AllProper(u) PROVE Proper(Join(u, x)) BY <2>1, <2>3
  <2>6. Proper(w)
    <3>1. Len(v) + 1 \in 1 .. Len(u) BY <2>3, <2>4
    <3> QED BY <2>3, <2>5, <3>1 DEF AllProper
  <2>7. AllProper(v)
    <3>1. \A i \in 1 .. Len(v) : i \in 1 .. Len(u) BY <2>3, <2>4
    <3> QED BY <2>3, <2>5, <3>1 DEF AllProper
  <2>8. CASE v = <<>>
    <3>1. u = <<w>> BY <2>1, <2>8
    <3> QED BY <2>6, <3>1, JoinOne
  <2>9. CASE v # <<>>
    <3>1. PICK s : s = Join(v, x) OBVIOUS
    <3>2. s \in Seq(T) BY <3>1, JoinType
    <3>3. Join(u, x) = After(s, x, w) BY <2>1, <2>9, <3>1, JoinMore
    <3>4. Proper(s) BY <1>2, <2>7, <2>9, <3>1
    <3> QED BY <2>6, <3>2, <3>3, <3>4, AfterProper
  <2> QED BY <2>8, <2>9
<1>3. words \in A
  <2> HIDE DEF A
  <2>1. PICK S : S = Seq(T) OBVIOUS
  <2>2. ASSUME NEW v \in Seq(S), NEW w \in S, v \in A PROVE Append(v, w) \in A BY <1>2, <2>1, <2>2
  <2>3. words \in Seq(S) BY <2>1
  <2> QED BY ONLY <1>1, <2>2, <2>3, SeqInduction
<1> QED BY <1>3

\* A joined text ends as its last word does.
LEMMA JoinEnds ==
  ASSUME NEW T, NEW words \in Seq(Seq(T)), NEW x \in T, words # <<>>, x # "\\"
  PROVE  Backslashes(Join(words, x)) = Backslashes(words[Len(words)])
<1>1. PICK S, n : S = Seq(T) /\ n = Len(words) - 1 OBVIOUS
<1>2. words \in Seq(S) /\ n \in Nat /\ Len(words) = n + 1 BY <1>1
<1>3. PICK v, w : v = SubSeq(words, 1, n) /\ w = words[n + 1] OBVIOUS
<1>4. v \in Seq(S) /\ w \in S /\ words = Append(v, w) BY ONLY <1>2, <1>3, LastApart
<1>5. CASE v = <<>>
  <2>1. words = <<w>> BY <1>4, <1>5
  <2>2. Join(words, x) = w BY <1>1, <1>4, <2>1, JoinOne
  <2> QED BY <1>2, <1>3, <2>2
<1>6. CASE v # <<>>
  <2>1. v \in Seq(Seq(T)) /\ w \in Seq(T) BY <1>1, <1>4
  <2>2. Join(v, x) \in Seq(T) BY <2>1, JoinType
  <2>3. Join(words, x) = After(Join(v, x), x, w) BY <1>4, <1>6, <2>1, JoinMore
  <2>4. Backslashes(After(Join(v, x), x, w)) = Backslashes(w) BY <2>1, <2>2, BackslashesAfter
  <2> QED BY <1>2, <1>3, <2>3, <2>4
<1> QED BY <1>5, <1>6

\* A piece lies between two cuts that have none between them, and the last one
\* before the end.
LEMMA PieceIs ==
  ASSUME NEW T, NEW s \in Seq(T), NEW places \in SUBSET (1 .. Len(s)),
         NEW k \in 1 .. Len(SplitAt(s, places))
  PROVE  \E a \in 0 .. Len(s), b \in 1 .. Len(s) + 1 :
           /\ a < b /\ SplitAt(s, places)[k] = SubSeq(s, a + 1, b - 1)
           /\ a = 0 \/ a \in places
           /\ \A e \in places : ~(a < e /\ e < b)
           /\ k = Len(SplitAt(s, places)) => b = Len(s) + 1
<1>1. PICK c, n : c = Cuts(s, places) /\ n = Cardinality(Cuts(s, places)) - 1 OBVIOUS
<1>2. c \in SUBSET (0 .. Len(s) + 1) /\ c \in SUBSET Nat /\ IsFiniteSet(c) /\ n \in Nat
      /\ n = Cardinality(c) - 1
  BY <1>1, CutsType
<1>3. k \in 1 .. n /\ Len(SplitAt(s, places)) = n BY <1>1, SplitAtType
<1>4. k - 1 \in 0 .. Cardinality(c) - 1 /\ k \in 0 .. Cardinality(c) - 1 BY <1>2, <1>3
<1>5. PICK a, b : a = Nth(c, k - 1) /\ b = Nth(c, k) OBVIOUS
<1>6. a \in c /\ b \in c /\ Rank(c, a) = k - 1 /\ Rank(c, b) = k BY <1>2, <1>4, <1>5, NthType
<1>7. \A e \in c, f \in c : Rank(c, e) < Rank(c, f) => e < f
  <2>1. SUFFICES ASSUME NEW e \in c, NEW f \in c, Rank(c, e) < Rank(c, f), f <= e PROVE FALSE
    BY <1>2
  <2>2. Rank(c, e) \in Int /\ Rank(c, f) \in Int BY <1>2, RankType
  <2>3. CASE f = e BY <2>1, <2>2, <2>3
  <2>4. CASE f < e
    <3>1. Rank(c, f) < Rank(c, e) BY <1>2, <2>4, RankGrows
    <3> QED BY <2>1, <2>2, <3>1
  <2> QED BY <1>2, <2>1, <2>3, <2>4
<1>8. a < b BY <1>3, <1>6, <1>7
<1>9. ASSUME NEW e \in c, a < e, e < b PROVE FALSE
  <2>1. Rank(c, a) < Rank(c, e) /\ Rank(c, e) < Rank(c, b) /\ Rank(c, e) \in Int
    BY <1>2, <1>6, <1>9, RankGrows, RankType
  <2> QED BY <1>3, <1>6, <2>1
<1>10. ASSUME k = n, b # Len(s) + 1 PROVE FALSE
  <2>1. Len(s) + 1 \in c /\ b < Len(s) + 1 BY <1>1, <1>2, <1>6, <1>10 DEF Cuts
  <2>2. Rank(c, b) < Rank(c, Len(s) + 1) /\ Rank(c, Len(s) + 1) \in 0 .. Cardinality(c) - 1
    BY <1>2, <1>6, <2>1, RankGrows, RankType
  <2> QED BY <1>2, <1>3, <1>6, <1>10, <2>2
<1>11. SplitAt(s, places)[k] = SubSeq(s, a + 1, b - 1)
  <2>1. SplitAt(s, places) = [j \in 1 .. n |-> SubSeq(s, Nth(c, j - 1) + 1, Nth(c, j) - 1)]
    BY <1>1, SplitAtIs, Zenon
  <2> QED BY <1>3, <1>5, <2>1
<1>12. a \in 0 .. Len(s) /\ b \in 1 .. Len(s) + 1 /\ (a = 0 \/ a \in places) /\ places \in SUBSET c
  BY <1>1, <1>2, <1>6, <1>8 DEF Cuts
<1> QED BY <1>3, <1>8, <1>9, <1>10, <1>11, <1>12

LEMMA SplitIsAt == \A s, x : Split(s, x) = SplitAt(s, Positions(s, x))
  BY DEF Split

LEMMA SubLacks ==
  ASSUME NEW T, NEW s \in Seq(T), NEW a \in 0 .. Len(s), NEW b \in 1 .. Len(s) + 1, a < b, NEW x,
         \A e \in Positions(s, x) : ~(a < e /\ e < b)
  PROVE  Positions(SubSeq(s, a + 1, b - 1), x) = {}
<1>1. PICK p : p = SubSeq(s, a + 1, b - 1) OBVIOUS
<1>2. p \in Seq(T) /\ Len(p) = b - 1 - a /\ \A i \in 1 .. Len(p) : p[i] = s[a + i]
  <2>1. PICK m, n : m = a + 1 /\ n = b - 1 OBVIOUS
  <2>2. /\ m \in 1 .. Len(s) + 1 /\ n \in 0 .. Len(s) /\ m - 1 <= n
        /\ \A i \in m .. n : s[i] \in T
    BY <2>1
  <2>3. /\ SubSeq(s, m, n) \in Seq(T) /\ Len(SubSeq(s, m, n)) = IF m <= n THEN n - m + 1 ELSE 0
        /\ \A i \in 1 .. n - m + 1 : SubSeq(s, m, n)[i] = s[m + i - 1]
    BY <2>2, SubSeqProperties
  <2>4. p = SubSeq(s, m, n) /\ Len(p) = n - m + 1 /\ n - m + 1 = b - 1 - a BY <1>1, <2>1, <2>2, <2>3
  <2>5. \A i \in 1 .. Len(p) : m + i - 1 = a + i BY <2>1, <2>4
  <2> QED BY <2>3, <2>4, <2>5
<1>3. ASSUME NEW i \in 1 .. Len(p), p[i] = x PROVE FALSE
  <2>1. a + i \in Positions(s, x) /\ a < a + i /\ a + i < b BY <1>2, <1>3 DEF Positions
  <2> QED BY <2>1
<1>4. DOMAIN p = 1 .. Len(p) BY <1>2
<1> QED BY <1>1, <1>3, <1>4 DEF Positions

\* Pieces have no separator, and no token that the text does not have.
LEMMA SplitLacks ==
  ASSUME NEW T, NEW s \in Seq(T), NEW x
  PROVE  /\ Split(s, x) \in Seq(Seq(T)) /\ Split(s, x) # <<>>
         /\ Separable(Split(s, x), x)
         /\ \A y : Positions(s, y) = {} => Separable(Split(s, x), y)
<1>1. PICK places, pieces : places = Positions(s, x) /\ pieces = Split(s, x) OBVIOUS
<1>2. places \in SUBSET (1 .. Len(s)) /\ pieces = SplitAt(s, places)
  BY <1>1, PositionsType, SplitIsAt
<1>3. pieces \in Seq(Seq(T)) /\ Len(pieces) = Cardinality(Cuts(s, places)) - 1 BY <1>2, SplitAtType
<1>4. ASSUME NEW k \in 1 .. Len(pieces)
      PROVE  /\ Positions(pieces[k], x) = {}
             /\ \A y : Positions(s, y) = {} => Positions(pieces[k], y) = {}
  <2>1. k \in 1 .. Len(SplitAt(s, places)) BY <1>2
  <2>2. PICK a \in 0 .. Len(s), b \in 1 .. Len(s) + 1 :
           /\ a < b /\ SplitAt(s, places)[k] = SubSeq(s, a + 1, b - 1)
           /\ \A e \in places : ~(a < e /\ e < b)
    BY <1>2, <2>1, PieceIs
  <2>3. Positions(SubSeq(s, a + 1, b - 1), x) = {} BY <1>1, <2>2, SubLacks
  <2>4. ASSUME NEW y, Positions(s, y) = {} PROVE Positions(SubSeq(s, a + 1, b - 1), y) = {}
    BY <2>2, <2>4, SubLacks
  <2> QED BY <1>2, <2>2, <2>3, <2>4
<1>5. pieces # <<>>
  <2>1. PICK c, e : c = Cuts(s, places) /\ e = {0, Len(s) + 1} OBVIOUS
  <2>2. e \in SUBSET c /\ IsFiniteSet(c) BY <1>2, <2>1, CutsType DEF Cuts
  <2>3. Cardinality(e) = 2
    <3>1. IsFiniteSet({0}) /\ Cardinality({0}) = 1 /\ Len(s) + 1 \notin {0}
      <4>1. Len(s) + 1 # 0 OBVIOUS
      <4> QED BY <4>1, FS_Singleton
    <3>2. Cardinality({0} \cup {Len(s) + 1}) = Cardinality({0}) + 1 BY <3>1, FS_AddElement
    <3>3. e = {0} \cup {Len(s) + 1} BY <2>1
    <3> QED BY <3>1, <3>2, <3>3
  <2>4. Cardinality(e) <= Cardinality(c) /\ Cardinality(c) \in Nat
    BY ONLY <2>2, FS_Subset, FS_CardinalityType
  <2>5. Len(pieces) # 0 BY <1>3, <2>1, <2>3, <2>4
  <2> QED BY <2>5
<1> QED BY <1>1, <1>3, <1>4, <1>5 DEF Separable

\* The last piece ends as the text does.
LEMMA SplitEnds ==
  ASSUME NEW T, NEW s \in Seq(T), NEW x \in T, x # "\\"
  PROVE  Backslashes(Split(s, x)[Len(Split(s, x))]) = Backslashes(s)
<1>1. PICK places, pieces : places = Positions(s, x) /\ pieces = Split(s, x) OBVIOUS
<1>2. places \in SUBSET (1 .. Len(s)) /\ pieces = SplitAt(s, places)
  BY <1>1, PositionsType, SplitIsAt
<1>3. PICK k : k = Len(pieces) OBVIOUS
<1>4. k \in 1 .. Len(SplitAt(s, places)) /\ k = Len(SplitAt(s, places)) /\ Len(s) \in Nat
  <2>1. pieces \in Seq(Seq(T)) /\ pieces # <<>> BY <1>1, SplitLacks
  <2>2. Len(pieces) \in Nat /\ Len(pieces) # 0 BY <2>1
  <2> QED BY <1>2, <1>3, <2>2
<1>5. PICK a \in 0 .. Len(s) : pieces[k] = SubSeq(s, a + 1, Len(s)) /\ (a = 0 \/ a \in places)
  <2>1. PICK a \in 0 .. Len(s), b \in 1 .. Len(s) + 1 :
           /\ a < b /\ SplitAt(s, places)[k] = SubSeq(s, a + 1, b - 1)
           /\ a = 0 \/ a \in places
           /\ k = Len(SplitAt(s, places)) => b = Len(s) + 1
    BY <1>2, <1>4, PieceIs, Zenon
  <2>2. b - 1 = Len(s) BY <1>4, <2>1
  <2> QED BY <1>2, <2>1, <2>2
<1>7. CASE a = 0
  <2>1. pieces[k] = s BY <1>5, <1>7, SubAll
  <2> QED BY <1>1, <1>3, <2>1
<1>6. CASE a # 0
  <2>1. a \in 1 .. Len(s) /\ s[a] = x BY <1>1, <1>2, <1>5, <1>6 DEF Positions
  <2>2. PICK p, w : p = SubSeq(s, 1, a - 1) /\ w = SubSeq(s, a + 1, Len(s)) OBVIOUS
  <2>3. s = After(p, x, w) /\ p \in Seq(T) /\ w \in Seq(T) BY <2>1, <2>2, Around
  <2>4. Backslashes(After(p, x, w)) = Backslashes(w) BY <2>3, BackslashesAfter
  <2> QED BY <1>1, <1>3, <1>5, <2>2, <2>3, <2>4
<1> QED BY <1>6, <1>7

\* What filter(Boolean) leaves.
LEMMA NonEmptyIs ==
  ASSUME NEW T, NEW words \in Seq(Seq(T))
  PROVE  /\ NonEmpty(words) \in Seq(Seq(T))
         /\ \A k \in 1 .. Len(NonEmpty(words)) :
              /\ NonEmpty(words)[k] # <<>>
              /\ \E i \in 1 .. Len(words) : NonEmpty(words)[k] = words[i]
<1>1. PICK kept, n : kept = {i \in DOMAIN words : words[i] # <<>>} /\ n = Cardinality(kept) OBVIOUS
<1>2. kept \in SUBSET (1 .. Len(words)) /\ IsFiniteSet(1 .. Len(words)) BY <1>1, FS_Interval
<1>3. IsFiniteSet(kept) /\ kept \in SUBSET Nat /\ n \in Nat
  <2>1. IsFiniteSet(kept) BY ONLY <1>2, FS_Subset
  <2>2. kept \in SUBSET Nat BY <1>2
  <2> QED BY <1>1, <2>1, <2>2, FS_CardinalityType
<1>4. NonEmpty(words) = [k \in 1 .. n |-> words[Nth(kept, k - 1)]] BY <1>1 DEF NonEmpty, At
<1>5. ASSUME NEW k \in 1 .. n PROVE Nth(kept, k - 1) \in kept
  <2>1. k - 1 \in 0 .. Cardinality(kept) - 1 BY <1>1, <1>3
  <2> QED BY <1>3, <2>1, NthType
<1>6. \A i \in kept : words[i] \in Seq(T) /\ words[i] # <<>> /\ i \in 1 .. Len(words) BY <1>1, <1>2
<1>7. NonEmpty(words) \in [1 .. n -> Seq(T)] BY <1>4, <1>5, <1>6
<1>8. NonEmpty(words) \in Seq(Seq(T)) /\ Len(NonEmpty(words)) = n BY <1>3, <1>7, SequenceOf, Zenon
<1> QED BY <1>4, <1>5, <1>6, <1>8

LEMMA UpTo ==
  ASSUME NEW n \in Nat
  PROVE  IsFiniteSet(1 .. n) /\ Cardinality(1 .. n) = n /\ (1 .. n) \in SUBSET Nat
<1>1. IsFiniteSet(1 .. n) /\ Cardinality(1 .. n) = IF 1 > n THEN 0 ELSE n - 1 + 1 BY FS_Interval
<1> QED BY <1>1

LEMMA NonEmptyAll ==
  ASSUME NEW T, NEW words \in Seq(Seq(T)), \A i \in 1 .. Len(words) : words[i] # <<>>
  PROVE  NonEmpty(words) = words
<1>1. PICK kept, n : kept = {i \in DOMAIN words : words[i] # <<>>} /\ n = Len(words) OBVIOUS
<1>2. kept = 1 .. n /\ n \in Nat /\ words = [k \in 1 .. n |-> words[k]] BY <1>1
<1>3. IsFiniteSet(1 .. n) /\ Cardinality(1 .. n) = n /\ (1 .. n) \in SUBSET Nat BY <1>2, UpTo
<1>4. ASSUME NEW k \in 1 .. n PROVE Nth(1 .. n, k - 1) = k
  <2>1. {d \in 1 .. n : d < k} = 1 .. k - 1 BY <1>2
  <2>2. Cardinality(1 .. k - 1) = k - 1
    <3>1. k - 1 \in Nat BY <1>2
    <3> QED BY <3>1, UpTo
  <2>3. Rank(1 .. n, k) = k - 1 BY <2>1, <2>2 DEF Rank
  <2> QED BY <1>3, <2>3, NthIs
<1>5. NonEmpty(words) = [k \in 1 .. n |-> words[Nth(1 .. n, k - 1)]]
  BY <1>1, <1>2, <1>3 DEF NonEmpty, At
<1> QED BY <1>2, <1>4, <1>5

--------
(* Names that need no escape *)

Letters == STRING \cup {Comma, "+", "=", "cn"}
Attributes == [name : Seq(Letters), value : Seq(Letters)]

LEMMA LettersAre == Comma \in Letters /\ "+" \in Letters /\ "=" \in Letters /\ "cn" \in Letters
  BY DEF Letters

LEMMA AfterTight ==
  ASSUME NEW T, NEW s \in Seq(T), NEW x \in T, NEW w \in Seq(T), Tight(s), Tight(w), x # Blank
  PROVE  Proper(After(s, x, w))
<1>1. PICK r : r = After(s, x, w) OBVIOUS
<1>2. r \in Seq(T) /\ Reaches(r, s, x, w) BY <1>1, AfterIs
<1>3. Len(s) \in Nat /\ Len(w) \in Nat /\ Len(r) = Len(s) + 1 + Len(w) /\ r[Len(s) + 1] = x
  BY <1>2 DEF Reaches
<1>4. r # <<>> BY <1>3
<1>5. r[1] # Blank
  <2>1. CASE s = <<>> BY <1>3, <2>1
  <2>2. CASE s # <<>>
    <3>1. 1 \in 1 .. Len(s) BY <1>3, <2>2
    <3> QED BY <1>2, <2>2, <3>1 DEF Reaches, Tight
  <2> QED BY <2>1, <2>2
<1>6. r[Len(r)] # Blank
  <2>1. CASE w = <<>> BY <1>3, <2>1
  <2>2. CASE w # <<>>
    <3>1. Len(w) \in 1 .. Len(w) BY <1>3, <2>2
    <3> QED BY <1>2, <1>3, <2>2, <3>1 DEF Reaches, Tight
  <2> QED BY <2>1, <2>2
<1> QED BY <1>1, <1>4, <1>5, <1>6 DEF Proper, Tight

LEMMA AfterParts ==
  ASSUME NEW T, NEW s \in Seq(T), NEW x \in T, NEW w \in Seq(T)
  PROVE  /\ SubSeq(After(s, x, w), 1, Len(s)) = s
         /\ SubSeq(After(s, x, w), Len(s) + 2, Len(After(s, x, w))) = w
<1> PICK r : r = After(s, x, w) OBVIOUS
<1>1. r \in Seq(T) /\ Reaches(r, s, x, w) BY AfterIs
<1>2. Len(s) \in Nat /\ Len(w) \in Nat /\ Len(r) = Len(s) + 1 + Len(w) BY <1>1 DEF Reaches
<1>3. SubSeq(r, 1, Len(s)) = s
  <2>1. \A i \in 1 .. Len(s) : r[i] \in T BY <1>1, <1>2
  <2>2. PICK p : p = SubSeq(r, 1, Len(s)) OBVIOUS
  <2>3. p \in Seq(T) /\ Len(p) = Len(s) /\ \A i \in 1 .. Len(p) : p[i] = r[i] BY <1>1, <1>2, <2>2
  <2>4. \A i \in 1 .. Len(p) : p[i] = s[i] BY <1>1, <2>3 DEF Reaches
  <2> QED BY <2>2, <2>3, <2>4, SameSeq
<1>4. SubSeq(r, Len(s) + 2, Len(r)) = w
  <2>1. PICK m, n : m = Len(s) + 2 /\ n = Len(r) OBVIOUS
  <2>2. m \in Int /\ n \in Int /\ (\A i \in m .. n : r[i] \in T) /\ n - m + 1 = Len(w)
    BY <1>1, <1>2, <2>1
  <2>3. PICK p : p = SubSeq(r, m, n) OBVIOUS
  <2>4. p \in Seq(T) /\ Len(p) = (IF m <= n THEN n - m + 1 ELSE 0)
        /\ \A i \in 1 .. n - m + 1 : p[i] = r[m + i - 1]
    BY <2>2, <2>3, SubSeqProperties
  <2>5. Len(p) = Len(w) BY <1>2, <2>2, <2>4
  <2>6. ASSUME NEW i \in 1 .. Len(p) PROVE p[i] = w[i]
    <3>1. m + i - 1 = Len(s) + 1 + i /\ i \in 1 .. Len(w) /\ i \in 1 .. n - m + 1
      BY <1>2, <2>1, <2>2, <2>5
    <3>2. r[Len(s) + 1 + i] = w[i] BY <1>1, <3>1 DEF Reaches
    <3> QED BY <2>4, <3>1, <3>2
  <2> QED BY <2>1, <2>3, <2>4, <2>5, <2>6, SameSeq
<1> QED BY <1>3, <1>4

LEMMA LacksIs ==
  ASSUME NEW T, NEW s \in Seq(T), NEW x
  PROVE  Positions(s, x) = {} <=> x \notin Range(s)
  BY DEF Positions, Range

LEMMA PlainIs ==
  ASSUME NEW T, NEW s \in Seq(T)
  PROVE  Plain(s) <=> Tight(s) /\ Positions(s, Comma) = {} /\ Positions(s, "+") = {}
<1>1. Trim(s) = s <=> Tight(s) BY TightIs
<1>2. Positions(s, Comma) = {} <=> Comma \notin Range(s) BY LacksIs
<1>3. Positions(s, "+") = {} <=> "+" \notin Range(s) BY LacksIs
<1> QED BY <1>1, <1>2, <1>3 DEF Plain

\* An attribute that is written and read without an escape.
PlainAttribute(attribute) ==
  /\ attribute \in Attributes
  /\ Tight(attribute.name) /\ Tight(attribute.value)
  /\ Positions(attribute.name, "=") = {}
  /\ \A x \in {Comma, "+"} : Positions(attribute.name, x) = {} /\ Positions(attribute.value, x) = {}

LEMMA AttributeWritten ==
  ASSUME NEW attribute, PlainAttribute(attribute)
  PROVE  /\ AttributeToString(attribute) \in Seq(Letters) /\ Proper(AttributeToString(attribute))
         /\ Positions(AttributeToString(attribute), "=") # {}
         /\ \A x \in {Comma, "+"} : Positions(AttributeToString(attribute), x) = {}
         /\ ParseAttribute(AttributeToString(attribute)) = attribute
<1>1. PICK n, v, r : n = attribute.name /\ v = attribute.value /\ r = AttributeToString(attribute)
  OBVIOUS
<1>2. n \in Seq(Letters) /\ v \in Seq(Letters) /\ "=" \in Letters /\ attribute = Attribute(n, v)
  BY <1>1, LettersAre DEF PlainAttribute, Attributes, Attribute
<1>3. r = After(n, "=", v) BY <1>1, Zenon DEF AttributeToString, After, Then
<1>4. r \in Seq(Letters) /\ Reaches(r, n, "=", v) BY <1>2, <1>3, AfterIs
<1>5. Proper(r) BY <1>1, <1>2, <1>3, AfterTight, Marks DEF PlainAttribute
<1>6. ASSUME NEW x \in {Comma, "+"} PROVE Positions(r, x) = {}
  <2>1. "=" # x BY Marks
  <2>2. Positions(n, x) = {} /\ Positions(v, x) = {} BY <1>1 DEF PlainAttribute
  <2> QED BY <1>2, <1>3, <2>1, <2>2, AfterLacks
<1>7. PICK e : e = Len(n) + 1 OBVIOUS
<1>8. Len(n) \in Nat /\ Len(v) \in Nat /\ Len(r) = Len(n) + 1 + Len(v) /\ DOMAIN r = 1 .. Len(r)
      /\ e \in 1 .. Len(r) /\ r[e] = "="
  BY <1>2, <1>4, <1>7 DEF Reaches
<1>9. e \in Positions(r, "=") BY <1>8 DEF Positions
<1>10. Min(Positions(r, "=")) = e
  <2>1. \A i \in 1 .. Len(n) : n[i] # "=" BY <1>1, <1>2 DEF PlainAttribute, Positions
  <2>2. \A i \in 1 .. Len(n) : r[i] # "=" BY <1>4, <2>1 DEF Reaches
  <2>3. \A i \in Positions(r, "=") : i \in 1 .. Len(r) /\ r[i] = "=" BY <1>8 DEF Positions
  <2>4. \A i \in Positions(r, "=") : e <= i BY <1>7, <1>8, <2>2, <2>3
  <2>5. Positions(r, "=") \in SUBSET Nat BY <2>3
  <2> QED BY <1>9, <2>4, <2>5, LeastTells
<1>11. SubSeq(r, 1, e - 1) = n /\ SubSeq(r, e + 1, Len(r)) = v
  <2>1. e - 1 = Len(n) /\ e + 1 = Len(n) + 2 BY <1>7, <1>8
  <2> QED
    <3>1. SubSeq(r, 1, Len(n)) = n /\ SubSeq(r, Len(n) + 2, Len(r)) = v
      <4>1. n \in Seq(Letters) /\ v \in Seq(Letters) /\ "=" \in Letters BY <1>2
      <4>2. /\ SubSeq(After(n, "=", v), 1, Len(n)) = n
            /\ SubSeq(After(n, "=", v), Len(n) + 2, Len(After(n, "=", v))) = v
        BY ONLY <4>1, AfterParts
      <4> QED BY ONLY <1>3, <4>2
    <3> QED BY <2>1, <3>1
<1>12. Trim(n) = n /\ Trim(v) = v BY <1>1, <1>2, TrimTight DEF PlainAttribute
<1>13. ParseAttribute(r) = attribute BY <1>2, <1>10, <1>11, <1>12 DEF ParseAttribute
<1> QED BY <1>1, <1>4, <1>5, <1>6, <1>9, <1>13

\* The texts of the attributes of an RDN.
WrittenOf(rdn) == [i \in DOMAIN rdn |-> AttributeToString(rdn[i])]

LEMMA RdnToStringIs == \A rdn : RdnToString(rdn) = Join(WrittenOf(rdn), "+")
  BY DEF RdnToString, Mapped, WrittenOf

LEMMA RdnPartsIs ==
  ASSUME NEW s
  PROVE  /\ RdnParts(s) = [i \in DOMAIN Split(s, "+") |-> Trim(Split(s, "+")[i])]
         /\ ParseRdn(s) = [i \in DOMAIN RdnParts(s) |-> ParseAttribute(RdnParts(s)[i])]
<1>1. RdnParts(s) = [i \in DOMAIN Split(s, "+") |-> Trim(Split(s, "+")[i])] BY DEF RdnParts, Mapped
<1>2. ParseRdn(s) = [i \in DOMAIN RdnParts(s) |-> ParseAttribute(RdnParts(s)[i])]
  BY DEF ParseRdn, Mapped
<1> QED BY <1>1, <1>2

PlainRdn(rdn) == rdn \in Seq(Attributes) /\ rdn # <<>> /\ \A i \in 1 .. Len(rdn) : PlainAttribute(rdn[i])

\* All texts are left alone by trim().
LEMMA TrimEach ==
  ASSUME NEW T, NEW words \in Seq(Seq(T)), AllProper(words)
  PROVE  [i \in DOMAIN words |-> Trim(words[i])] = words
<1>1. DOMAIN words = 1 .. Len(words) /\ words = [i \in DOMAIN words |-> words[i]] OBVIOUS
<1>2. ASSUME NEW i \in 1 .. Len(words) PROVE Trim(words[i]) = words[i]
  <2>1. PICK w : w = words[i] OBVIOUS
  <2>2. w \in Seq(T) /\ Tight(w) BY <2>1 DEF AllProper, Proper
  <2> QED BY <2>1, <2>2, TrimTight
<1> QED BY <1>1, <1>2

LEMMA RdnWritten ==
  ASSUME NEW rdn, PlainRdn(rdn)
  PROVE  /\ RdnToString(rdn) \in Seq(Letters) /\ Proper(RdnToString(rdn))
         /\ Positions(RdnToString(rdn), Comma) = {}
         /\ \A part \in Range(RdnParts(RdnToString(rdn))) : Positions(part, "=") # {}
         /\ ParseRdn(RdnToString(rdn)) = rdn
<1>1. PICK words, r, n : words = WrittenOf(rdn) /\ r = RdnToString(rdn) /\ n = Len(rdn) OBVIOUS
<1>2. rdn \in Seq(Attributes) /\ DOMAIN rdn = 1 .. n /\ n \in Nat /\ n # 0 BY <1>1 DEF PlainRdn
<1>3. ASSUME NEW i \in 1 .. n
      PROVE  /\ words[i] \in Seq(Letters) /\ Proper(words[i]) /\ Positions(words[i], "=") # {}
             /\ Positions(words[i], Comma) = {} /\ Positions(words[i], "+") = {}
             /\ ParseAttribute(words[i]) = rdn[i]
  <2>1. PICK a : a = rdn[i] OBVIOUS
  <2>2. PlainAttribute(a) /\ words[i] = AttributeToString(a)
    BY <1>1, <1>2, <2>1 DEF PlainRdn, WrittenOf
  <2> QED BY <2>1, <2>2, AttributeWritten
<1>4. words \in Seq(Seq(Letters)) /\ Len(words) = n
  <2>1. words = [i \in 1 .. n |-> words[i]] BY <1>1, <1>2 DEF WrittenOf
  <2>2. words \in [1 .. n -> Seq(Letters)] BY <1>3, <2>1
  <2> QED BY <1>2, <2>2, SequenceOf, Zenon
<1>5. words # <<>> /\ AllProper(words) /\ Separable(words, "+") /\ Separable(words, Comma)
  BY <1>2, <1>3, <1>4 DEF AllProper, Separable
<1>6. r = Join(words, "+") BY <1>1, RdnToStringIs
<1>7. r \in Seq(Letters) /\ Proper(r) BY <1>4, <1>5, <1>6, LettersAre, JoinType, JoinProper
<1>8. Positions(r, Comma) = {} BY <1>4, <1>5, <1>6, LettersAre, Marks, JoinLacks
<1>9. Split(r, "+") = words BY <1>4, <1>5, <1>6, LettersAre, SplitJoin
<1>10. RdnParts(r) = words BY <1>4, <1>5, <1>9, RdnPartsIs, TrimEach
<1>11. ParseRdn(r) = rdn
  <2>1. ParseRdn(r) = [i \in DOMAIN words |-> ParseAttribute(words[i])] BY <1>10, RdnPartsIs
  <2>2. DOMAIN words = 1 .. n /\ rdn = [i \in 1 .. n |-> rdn[i]] BY <1>2, <1>4
  <2> QED BY <1>3, <2>1, <2>2
<1>12. \A part \in Range(words) : Positions(part, "=") # {}
  <2>1. DOMAIN words = 1 .. n BY <1>4
  <2> QED BY <1>3, <2>1 DEF Range
<1> QED BY <1>1, <1>7, <1>8, <1>10, <1>11, <1>12

\* The texts of the RDNs of a name.
RdnsWritten(rdns) == [i \in DOMAIN rdns |-> RdnToString(rdns[i])]

LEMMA DnToStringIs == \A rdns : DnToString(Dn(rdns)) = Join(RdnsWritten(rdns), Comma)
<1>1. \A rdns : Dn(rdns).rdns = rdns BY DEF Dn
<1> QED BY <1>1 DEF DnToString, Mapped, RdnsWritten

\* The parts of a text that become RDNs.
DnParts(s) == NonEmpty([i \in DOMAIN SplitAt(s, Separators(s)) |-> Trim(SplitAt(s, Separators(s))[i])])

LEMMA ParseDnIs ==
  ASSUME NEW s
  PROVE  ParseDn(s) =
           IF \E i \in DOMAIN DnParts(s) :
                \E part \in Range(RdnParts(DnParts(s)[i])) : Positions(part, "=") = {}
           THEN InvalidRdn
           ELSE Dn([i \in DOMAIN DnParts(s) |-> ParseRdn(DnParts(s)[i])])
  BY DEF ParseDn, DnParts, Mapped

PlainRdns(rdns) == rdns \in Seq(Seq(Attributes)) /\ \A i \in 1 .. Len(rdns) : PlainRdn(rdns[i])

\* A name that needs no escape comes back from its text.
LEMMA NameReturns ==
  ASSUME NEW rdns, PlainRdns(rdns), ~Dangling(DnToString(Dn(rdns)))
  PROVE  ParseDn(DnToString(Dn(rdns))) = Dn(rdns)
<1>1. PICK words, r, n : words = RdnsWritten(rdns) /\ r = DnToString(Dn(rdns)) /\ n = Len(rdns)
  OBVIOUS
<1>2. rdns \in Seq(Seq(Attributes)) /\ DOMAIN rdns = 1 .. n /\ n \in Nat
      /\ rdns = [i \in 1 .. n |-> rdns[i]]
  BY <1>1 DEF PlainRdns
<1>3. ASSUME NEW i \in 1 .. n
      PROVE  /\ words[i] \in Seq(Letters) /\ Proper(words[i]) /\ Positions(words[i], Comma) = {}
             /\ \A part \in Range(RdnParts(words[i])) : Positions(part, "=") # {}
             /\ ParseRdn(words[i]) = rdns[i]
  <2>1. PICK a : a = rdns[i] OBVIOUS
  <2>2. PlainRdn(a) /\ words[i] = RdnToString(a) BY <1>1, <1>2, <2>1 DEF PlainRdns, RdnsWritten
  <2> QED BY <2>1, <2>2, RdnWritten
<1>4. words \in Seq(Seq(Letters)) /\ Len(words) = n /\ DOMAIN words = 1 .. n
  <2>1. words = [i \in 1 .. n |-> words[i]] BY <1>1, <1>2 DEF RdnsWritten
  <2>2. words \in [1 .. n -> Seq(Letters)] BY <1>3, <2>1
  <2> QED BY <1>2, <2>1, <2>2, SequenceOf, Zenon
<1>5. AllProper(words) /\ Separable(words, Comma) BY <1>3, <1>4 DEF AllProper, Separable
<1>6. r = Join(words, Comma) /\ ~Dangling(r) BY <1>1, DnToStringIs
<1>7. r \in Seq(Letters) BY <1>4, <1>6, LettersAre, JoinType
<1>8. SplitAt(r, Separators(r)) = Split(r, Comma) BY <1>6, <1>7, SeparatorsAre, SplitIsAt
<1>9. DnParts(r) = words
  <2>1. CASE words = <<>>
    <3>1. r = <<>> BY <1>6, <2>1, JoinEmpty
    <3>2. Split(r, Comma) = <<r>>
      <4>1. Positions(r, Comma) = {} BY <3>1 DEF Positions
      <4> QED BY <1>7, <4>1, SplitIsAt, SplitWhole
    <3>3. Trim(r) = <<>> BY <1>7, <3>1, TrimTight DEF Tight
    <3>4. [i \in DOMAIN <<r>> |-> Trim(<<r>>[i])] = <<<<>>>> BY <3>3
    <3>5. DnParts(r) = NonEmpty(<<<<>>>>) BY <1>8, <3>2, <3>4 DEF DnParts
    <3>6. NonEmpty(<<<<>>>>) = <<>>
      <4>1. PICK w : w = <<<<>>>> OBVIOUS
      <4>2. w \in Seq(Seq(Letters)) /\ \A i \in 1 .. Len(w) : w[i] = <<>> BY <4>1
      <4>3. NonEmpty(w) \in Seq(Seq(Letters)) /\ ~(\E k \in 1 .. Len(NonEmpty(w)) : TRUE)
        BY <4>2, NonEmptyIs
      <4> QED BY <4>1, <4>3
    <3> QED BY <2>1, <3>5, <3>6
  <2>2. CASE words # <<>>
    <3>1. Split(r, Comma) = words BY <1>4, <1>5, <1>6, <2>2, LettersAre, SplitJoin
    <3>2. [i \in DOMAIN words |-> Trim(words[i])] = words BY <1>4, <1>5, TrimEach
    <3>3. NonEmpty(words) = words
      <4>1. \A i \in 1 .. Len(words) : words[i] # <<>> BY <1>5 DEF AllProper, Proper
      <4> QED BY <1>4, <4>1, NonEmptyAll
    <3> QED BY <1>8, <3>1, <3>2, <3>3 DEF DnParts
  <2> QED BY <2>1, <2>2
<1>10. ParseDn(r) = Dn([i \in 1 .. n |-> ParseRdn(words[i])])
  <2>1. ~(\E i \in DOMAIN words : \E part \in Range(RdnParts(words[i])) : Positions(part, "=") = {})
    BY <1>3, <1>4
  <2> QED BY <1>4, <1>9, <2>1, ParseDnIs
<1>11. [i \in 1 .. n |-> ParseRdn(words[i])] = rdns BY <1>2, <1>3
<1> QED BY <1>1, <1>10, <1>11

--------
(* Names that were parsed *)

LEMMA PartCut ==
  ASSUME NEW T, NEW part \in Seq(T), NEW e, e = Min(Positions(part, "=")), Positions(part, "=") # {}
  PROVE  /\ e \in 1 .. Len(part) /\ part[e] = "="
         /\ SubSeq(part, 1, e - 1) \in Seq(T) /\ SubSeq(part, e + 1, Len(part)) \in Seq(T)
         /\ Positions(SubSeq(part, 1, e - 1), "=") = {}
         /\ \A x : Positions(part, x) = {} =>
              /\ Positions(SubSeq(part, 1, e - 1), x) = {}
              /\ Positions(SubSeq(part, e + 1, Len(part)), x) = {}
         /\ part = After(SubSeq(part, 1, e - 1), "=", SubSeq(part, e + 1, Len(part)))
<1>1. PICK S : S = Positions(part, "=") OBVIOUS
<1>2. S \in SUBSET (1 .. Len(part)) /\ IsFiniteSet(1 .. Len(part)) /\ Len(part) \in Nat
  BY <1>1, PositionsType, FS_Interval
<1>3. IsFiniteSet(S) /\ S \in SUBSET Nat
  <2>1. IsFiniteSet(S) BY ONLY <1>2, FS_Subset
  <2> QED BY <1>2, <2>1
<1>4. e \in S /\ \A y \in S : e <= y BY <1>1, <1>3, LeastIs
<1>5. e \in 1 .. Len(part) /\ part[e] = "=" BY <1>1, <1>2, <1>4 DEF Positions
<1>6. PICK n, v : n = SubSeq(part, 1, e - 1) /\ v = SubSeq(part, e + 1, Len(part)) OBVIOUS
<1>7. part = After(n, "=", v) /\ n \in Seq(T) /\ v \in Seq(T) BY <1>5, <1>6, Around
<1>8. ASSUME NEW x, \A y \in Positions(part, x) : ~(0 < y /\ y < e) PROVE Positions(n, x) = {}
  <2>1. Positions(SubSeq(part, 0 + 1, e - 1), x) = {} BY <1>2, <1>5, <1>8, SubLacks
  <2> QED BY <1>6, <2>1
<1>9. Positions(n, "=") = {}
  <2>1. \A y \in Positions(part, "=") : ~(0 < y /\ y < e) BY <1>1, <1>2, <1>4
  <2> QED BY <1>8, <2>1
<1>10. ASSUME NEW x, Positions(part, x) = {} PROVE Positions(n, x) = {} /\ Positions(v, x) = {}
  <2>1. Positions(n, x) = {} BY <1>8, <1>10
  <2>2. \A i \in 1 .. Len(part) : part[i] # x BY <1>10 DEF Positions
  <2>3. Len(v) = Len(part) - e /\ (\A i \in 1 .. Len(v) : v[i] = part[e + i]) /\ DOMAIN v = 1 .. Len(v)
    <3>1. Reaches(part, n, "=", v) BY <1>5, <1>7, AfterIs
    <3>2. Len(n) = e - 1 BY <1>5, <1>6, Around
    <3> QED
      <4>1. Len(part) = e - 1 + 1 + Len(v) BY <3>1, <3>2 DEF Reaches
      <4>2. Len(n) + 1 = e BY <1>2, <1>5, <3>2
      <4>3. \A i \in 1 .. Len(v) : part[Len(n) + 1 + i] = v[i] BY <3>1 DEF Reaches
      <4>4. DOMAIN v = 1 .. Len(v) /\ Len(v) \in Nat BY <1>7
      <4>5. Len(v) = Len(part) - e BY <1>2, <1>5, <4>1, <4>4
      <4>6. \A i \in 1 .. Len(v) : v[i] = part[e + i] BY <4>2, <4>3
      <4> QED BY <4>4, <4>5, <4>6
  <2>4. \A i \in 1 .. Len(v) : e + i \in 1 .. Len(part) BY <1>2, <1>5, <2>3
  <2>5. Positions(v, x) = {} BY <2>2, <2>3, <2>4 DEF Positions
  <2> QED BY <2>1, <2>5
<1> QED BY <1>5, <1>6, <1>7, <1>9, <1>10

\* A part of an RDN that has an "=".
LEMMA AttributeParsed ==
  ASSUME NEW part \in Seq(Letters), Tight(part), Positions(part, "=") # {}, Positions(part, "+") = {}
  PROVE  /\ ParseAttribute(part) \in Attributes
         /\ Positions(part, Comma) = {} => PlainAttribute(ParseAttribute(part))
<1>1. PICK e, n, v : /\ e = Min(Positions(part, "=")) /\ n = SubSeq(part, 1, e - 1)
                     /\ v = SubSeq(part, e + 1, Len(part))
  OBVIOUS
<1>2. /\ n \in Seq(Letters) /\ v \in Seq(Letters) /\ Positions(n, "=") = {}
      /\ \A x : Positions(part, x) = {} => Positions(n, x) = {} /\ Positions(v, x) = {}
  BY <1>1, PartCut
<1>3. PICK a : a = ParseAttribute(part) OBVIOUS
<1>4. a.name = Trim(n) /\ a.value = Trim(v) /\ a = [name |-> Trim(n), value |-> Trim(v)]
  BY <1>1, <1>3 DEF ParseAttribute, Attribute
<1>5. /\ Trim(n) \in Seq(Letters) /\ Tight(Trim(n)) /\ Trim(v) \in Seq(Letters) /\ Tight(Trim(v))
      /\ \A x : Positions(n, x) = {} => Positions(Trim(n), x) = {}
      /\ \A x : Positions(v, x) = {} => Positions(Trim(v), x) = {}
  BY <1>2, TrimType
<1>6. a \in Attributes BY <1>4, <1>5 DEF Attributes
<1>7. ASSUME Positions(part, Comma) = {} PROVE PlainAttribute(a)
  BY <1>2, <1>4, <1>5, <1>6, <1>7 DEF PlainAttribute
<1> QED BY <1>3, <1>6, <1>7

\* All parts of a text of RDNs have an "=".
Parsable(s) == \A part \in Range(RdnParts(s)) : Positions(part, "=") # {}

LEMMA PartsAre ==
  ASSUME NEW s \in Seq(Letters)
  PROVE  /\ RdnParts(s) \in Seq(Seq(Letters)) /\ RdnParts(s) # <<>>
         /\ Len(RdnParts(s)) = Len(Split(s, "+"))
         /\ \A i \in 1 .. Len(RdnParts(s)) :
              /\ RdnParts(s)[i] = Trim(Split(s, "+")[i]) /\ Split(s, "+")[i] \in Seq(Letters)
              /\ Tight(RdnParts(s)[i]) /\ Positions(RdnParts(s)[i], "+") = {}
              /\ \A x : Positions(s, x) = {} => Positions(RdnParts(s)[i], x) = {}
<1>1. PICK pieces, parts, n : pieces = Split(s, "+") /\ parts = RdnParts(s) /\ n = Len(Split(s, "+"))
  OBVIOUS
<1>2. /\ pieces \in Seq(Seq(Letters)) /\ pieces # <<>> /\ Separable(pieces, "+")
      /\ \A x : Positions(s, x) = {} => Separable(pieces, x)
  BY <1>1, SplitLacks
<1>3. DOMAIN pieces = 1 .. n /\ n \in Nat /\ n # 0 /\ Len(pieces) = n BY <1>1, <1>2
<1>4. parts = [i \in 1 .. n |-> Trim(pieces[i])] BY <1>1, <1>3, RdnPartsIs
<1>5. ASSUME NEW i \in 1 .. n
      PROVE  /\ parts[i] = Trim(pieces[i]) /\ pieces[i] \in Seq(Letters) /\ parts[i] \in Seq(Letters)
             /\ Tight(parts[i]) /\ Positions(parts[i], "+") = {}
             /\ \A x : Positions(s, x) = {} => Positions(parts[i], x) = {}
  <2>1. PICK p : p = pieces[i] OBVIOUS
  <2>2. /\ p \in Seq(Letters) /\ Positions(p, "+") = {}
        /\ \A x : Positions(s, x) = {} => Positions(p, x) = {}
    <3>1. p \in Seq(Letters) /\ i \in 1 .. Len(pieces) BY <1>2, <1>3, <2>1
    <3>2. ASSUME NEW x, Separable(pieces, x) PROVE Positions(p, x) = {}
      BY <2>1, <3>1, <3>2 DEF Separable
    <3> QED BY <1>2, <3>1, <3>2
  <2>3. /\ Trim(p) \in Seq(Letters) /\ Tight(Trim(p))
        /\ \A x : Positions(p, x) = {} => Positions(Trim(p), x) = {}
    BY <2>2, TrimType
  <2>4. parts[i] = Trim(p) BY <1>4, <2>1
  <2> QED BY <2>1, <2>2, <2>3, <2>4
<1>6. parts \in Seq(Seq(Letters)) /\ Len(parts) = n
  <2>1. parts \in [1 .. n -> Seq(Letters)] BY <1>4, <1>5
  <2> QED BY <1>3, <2>1, SequenceOf, Zenon
<1>7. parts # <<>> BY <1>3, <1>6
<1> QED BY <1>1, <1>5, <1>6, <1>7

LEMMA RdnParsed ==
  ASSUME NEW s \in Seq(Letters), Parsable(s)
  PROVE  /\ ParseRdn(s) \in Seq(Attributes) /\ ParseRdn(s) # <<>>
         /\ Positions(s, Comma) = {} => PlainRdn(ParseRdn(s))
<1>1. PICK parts, n, rdn : parts = RdnParts(s) /\ n = Len(RdnParts(s)) /\ rdn = ParseRdn(s) OBVIOUS
<1>2. /\ parts \in Seq(Seq(Letters)) /\ parts # <<>>
      /\ \A i \in 1 .. Len(parts) :
           /\ Tight(parts[i]) /\ Positions(parts[i], "+") = {}
           /\ \A x : Positions(s, x) = {} => Positions(parts[i], x) = {}
  BY <1>1, PartsAre
<1>3. DOMAIN parts = 1 .. n /\ n \in Nat /\ n # 0 /\ Len(parts) = n BY <1>1, <1>2
<1>4. rdn = [i \in 1 .. n |-> ParseAttribute(parts[i])] BY <1>1, <1>3, RdnPartsIs
<1>5. ASSUME NEW i \in 1 .. n
      PROVE  rdn[i] \in Attributes /\ (Positions(s, Comma) = {} => PlainAttribute(rdn[i]))
  <2>1. PICK p : p = parts[i] OBVIOUS
  <2>2. /\ p \in Seq(Letters) /\ Tight(p) /\ Positions(p, "+") = {}
        /\ Positions(s, Comma) = {} => Positions(p, Comma) = {}
    BY <1>2, <1>3, <2>1
  <2>3. Positions(p, "=") # {}
    <3>1. p \in Range(parts) BY <1>3, <2>1 DEF Range
    <3> QED BY <1>1, <3>1 DEF Parsable
  <2>4. rdn[i] = ParseAttribute(p) BY <1>4, <2>1
  <2> QED BY <2>2, <2>3, <2>4, AttributeParsed
<1>6. rdn \in Seq(Attributes) /\ Len(rdn) = n
  <2>1. rdn \in [1 .. n -> Attributes] BY <1>4, <1>5
  <2> QED BY <1>3, <2>1, SequenceOf, Zenon
<1>7. rdn # <<>> BY <1>3, <1>6
<1>8. Positions(s, Comma) = {} => PlainRdn(rdn) BY <1>5, <1>6, <1>7 DEF PlainRdn
<1> QED BY <1>1, <1>6, <1>7, <1>8

LEMMA DnPartsAre ==
  ASSUME NEW s \in Seq(Letters)
  PROVE  /\ DnParts(s) \in Seq(Seq(Letters))
         /\ ~Dangling(s) => Separable(DnParts(s), Comma)
<1>1. PICK pieces, words, n : /\ pieces = SplitAt(s, Separators(s)) /\ n = Len(SplitAt(s, Separators(s)))
                              /\ words = [i \in DOMAIN SplitAt(s, Separators(s)) |->
                                            Trim(SplitAt(s, Separators(s))[i])]
  OBVIOUS
<1>2. pieces \in Seq(Seq(Letters)) /\ (~Dangling(s) => Separable(pieces, Comma))
  <2>1. CASE Dangling(s)
    <3>1. Separators(s) \in SUBSET (1 .. Len(s)) BY <2>1, SeparatorsAre
    <3> QED BY <1>1, <2>1, <3>1, SplitAtType
  <2>2. CASE ~Dangling(s)
    <3>1. pieces = Split(s, Comma) BY <1>1, <2>2, SeparatorsAre, SplitIsAt
    <3> QED BY <3>1, SplitLacks
  <2> QED BY <2>1, <2>2
<1>3. DOMAIN pieces = 1 .. n /\ n \in Nat /\ Len(pieces) = n BY <1>1, <1>2
<1>4. words = [i \in 1 .. n |-> Trim(pieces[i])] BY <1>1, <1>3
<1>5. ASSUME NEW i \in 1 .. n
      PROVE  words[i] \in Seq(Letters) /\ (~Dangling(s) => Positions(words[i], Comma) = {})
  <2>1. PICK p : p = pieces[i] OBVIOUS
  <2>2. p \in Seq(Letters) /\ (~Dangling(s) => Positions(p, Comma) = {})
    BY <1>2, <1>3, <2>1 DEF Separable
  <2>3. Trim(p) \in Seq(Letters) /\ \A x : Positions(p, x) = {} => Positions(Trim(p), x) = {}
    BY <2>2, TrimType
  <2> QED BY <1>4, <2>1, <2>2, <2>3
<1>6. words \in Seq(Seq(Letters)) /\ Len(words) = n
  <2>1. words \in [1 .. n -> Seq(Letters)] BY <1>4, <1>5
  <2> QED BY <1>3, <2>1, SequenceOf, Zenon
<1>7. PICK parts : parts = NonEmpty(words) OBVIOUS
<1>8. /\ parts \in Seq(Seq(Letters))
      /\ \A k \in 1 .. Len(parts) : \E i \in 1 .. Len(words) : parts[k] = words[i]
  BY <1>6, <1>7, NonEmptyIs
<1>9. DnParts(s) = parts BY <1>1, <1>7 DEF DnParts
<1> QED BY <1>5, <1>6, <1>8, <1>9 DEF Separable

\* A name that was parsed needs no escape, if its text does not end in a lone
\* backslash.
LEMMA NameParsed ==
  ASSUME NEW s \in Seq(Letters), ParseDn(s) # InvalidRdn
  PROVE  \E rdns \in Seq(Seq(Attributes)) :
           ParseDn(s) = Dn(rdns) /\ (~Dangling(s) => PlainRdns(rdns))
<1>1. PICK parts, n, rdns : /\ parts = DnParts(s) /\ n = Len(DnParts(s))
                            /\ rdns = [i \in DOMAIN DnParts(s) |-> ParseRdn(DnParts(s)[i])]
  OBVIOUS
<1>2. parts \in Seq(Seq(Letters)) /\ (~Dangling(s) => Separable(parts, Comma)) BY <1>1, DnPartsAre
<1>3. DOMAIN parts = 1 .. n /\ n \in Nat /\ Len(parts) = n BY <1>1, <1>2
<1>4. ParseDn(s) = Dn(rdns) /\ \A i \in 1 .. n : Parsable(parts[i])
  BY <1>1, <1>3, ParseDnIs DEF Parsable
<1>5. rdns = [i \in 1 .. n |-> ParseRdn(parts[i])] BY <1>1, <1>3
<1>6. ASSUME NEW i \in 1 .. n
      PROVE  rdns[i] \in Seq(Attributes) /\ (~Dangling(s) => PlainRdn(rdns[i]))
  <2>1. PICK p : p = parts[i] OBVIOUS
  <2>2. p \in Seq(Letters) /\ Parsable(p) /\ (~Dangling(s) => Positions(p, Comma) = {})
    BY <1>2, <1>3, <1>4, <2>1 DEF Separable
  <2> QED BY <1>5, <2>1, <2>2, RdnParsed
<1>7. rdns \in Seq(Seq(Attributes)) /\ Len(rdns) = n
  <2>1. rdns \in [1 .. n -> Seq(Attributes)] BY <1>5, <1>6
  <2> QED BY <1>3, <2>1, SequenceOf, Zenon
<1>8. ~Dangling(s) => PlainRdns(rdns) BY <1>6, <1>7 DEF PlainRdns
<1> QED BY <1>4, <1>7, <1>8

\* trim() keeps the backslashes a text ends in.
LEMMA TrimEnds ==
  ASSUME NEW T, NEW s \in Seq(T), Dangling(s)
  PROVE  Backslashes(Trim(s)) = Backslashes(s) /\ Trim(s) # <<>>
<1>1. PICK m \in 0 .. Len(s) : EndsAfter(s, m) /\ Backslashes(s) = Len(s) - m BY BackslashesAre
<1>2. Len(s) \in Nat /\ m < Len(s) /\ s[Len(s)] = "\\" /\ "\\" # Blank
  <2>1. Backslashes(s) % 2 = 1 BY DanglingIs
  <2>2. m # Len(s) BY <1>1, <2>1
  <2>3. m < Len(s) /\ Len(s) \in m + 1 .. Len(s) BY <1>1, <2>2
  <2> QED BY <1>1, <2>3, Marks DEF EndsAfter
<1>3. Trim(s) # <<>>
  <2>1. Len(s) \in DOMAIN s \ Positions(s, Blank) BY <1>2 DEF Positions
  <2>2. PICK kept : kept = DOMAIN s \ Positions(s, Blank) OBVIOUS
  <2>3. kept \in SUBSET (1 .. Len(s)) /\ IsFiniteSet(1 .. Len(s)) /\ kept # {}
    <3>1. Len(s) \in Nat OBVIOUS
    <3> QED BY <2>1, <2>2, <3>1, UpTo
  <2>4. IsFiniteSet(kept) /\ kept \in SUBSET Nat
    <3>1. IsFiniteSet(kept) BY ONLY <2>3, FS_Subset
    <3> QED BY <2>3, <3>1
  <2>5. PICK a, b : a = Min(kept) /\ b = Max(kept) OBVIOUS
  <2>6. a \in 1 .. Len(s) /\ b \in 1 .. Len(s) /\ a <= b BY <2>3, <2>4, <2>5, LeastIs, GreatestIs
  <2>7. Trim(s) = SubSeq(s, a, b) BY <2>2, <2>3, <2>5 DEF Trim
  <2>8. Len(SubSeq(s, a, b)) = b - a + 1 BY <2>6
  <2> QED BY <2>6, <2>7, <2>8
<1>4. PICK a \in 1 .. Len(s), b \in 1 .. Len(s) :
        /\ a <= b /\ Trim(s) = SubSeq(s, a, b)
        /\ \A i \in 1 .. Len(s) : i < a \/ b < i => s[i] = Blank
  BY <1>3, TrimIs
<1>5. b = Len(s) BY <1>2, <1>4
<1>6. CASE a = 1 BY <1>3, <1>4, <1>5, <1>6, SubAll
<1>7. CASE a # 1
  <2>1. PICK i, p, w : i = a - 1 /\ p = SubSeq(s, 1, i - 1) /\ w = SubSeq(s, i + 1, Len(s)) OBVIOUS
  <2>2. i \in 1 .. Len(s) /\ s[i] = Blank /\ i + 1 = a BY <1>2, <1>4, <1>7, <2>1
  <2>3. s = After(p, Blank, w) /\ p \in Seq(T) /\ w \in Seq(T) /\ Blank \in T BY <2>1, <2>2, Around
  <2>4. Backslashes(After(p, Blank, w)) = Backslashes(w) BY <2>3, Marks, BackslashesAfter
  <2>5. Trim(s) = w BY <1>4, <1>5, <2>1, <2>2
  <2> QED BY <1>3, <2>3, <2>4, <2>5
<1> QED BY <1>6, <1>7

LEMMA DanglingTrim ==
  ASSUME NEW T, NEW s \in Seq(T), Dangling(s)
  PROVE  Dangling(Trim(s)) /\ Trim(s) \in Seq(T) /\ Trim(s) # <<>>
<1>1. Backslashes(Trim(s)) = Backslashes(s) /\ Trim(s) # <<>> BY TrimEnds
<1> QED BY <1>1, DanglingIs, TrimType

\* Texts of attributes, RDNs and names.
LEMMA PartsWritten ==
  ASSUME NEW rdn \in Seq(Attributes)
  PROVE  WrittenOf(rdn) \in Seq(Seq(Letters)) /\ Len(WrittenOf(rdn)) = Len(rdn)
<1>1. PICK n, words : n = Len(rdn) /\ words = WrittenOf(rdn) OBVIOUS
<1>2. DOMAIN rdn = 1 .. n /\ n \in Nat BY <1>1
<1>3. words = [i \in 1 .. n |-> AttributeToString(rdn[i])] BY <1>1, <1>2 DEF WrittenOf
<1>4. ASSUME NEW i \in 1 .. n PROVE AttributeToString(rdn[i]) \in Seq(Letters)
  <2>1. PICK b : b = rdn[i] OBVIOUS
  <2>2. b.name \in Seq(Letters) /\ b.value \in Seq(Letters) /\ <<"=">> \in Seq(Letters)
    <3>1. b \in Attributes BY <1>2, <2>1
    <3>2. "=" \in Letters BY LettersAre
    <3> QED BY <3>1, <3>2 DEF Attributes
  <2>3. b.name \o <<"=">> \in Seq(Letters) BY <2>2
  <2>4. b.name \o <<"=">> \o b.value \in Seq(Letters) BY <2>2, <2>3
  <2> QED BY <2>1, <2>4 DEF AttributeToString
<1>5. words \in [1 .. n -> Seq(Letters)] BY <1>3, <1>4
<1>6. words \in Seq(Seq(Letters)) /\ Len(words) = n BY <1>2, <1>5, SequenceOf, Zenon
<1> QED BY <1>1, <1>6

LEMMA RdnToStringType ==
  ASSUME NEW rdn \in Seq(Attributes)
  PROVE  RdnToString(rdn) \in Seq(Letters)
  BY PartsWritten, RdnToStringIs, LettersAre, JoinType

LEMMA DnToStringType ==
  ASSUME NEW rdns \in Seq(Seq(Attributes))
  PROVE  RdnsWritten(rdns) \in Seq(Seq(Letters)) /\ DnToString(Dn(rdns)) \in Seq(Letters)
<1>1. PICK n, words : n = Len(rdns) /\ words = RdnsWritten(rdns) OBVIOUS
<1>2. DOMAIN rdns = 1 .. n /\ n \in Nat BY <1>1
<1>3. words = [i \in 1 .. n |-> RdnToString(rdns[i])] BY <1>1, <1>2 DEF RdnsWritten
<1>4. ASSUME NEW i \in 1 .. n PROVE RdnToString(rdns[i]) \in Seq(Letters) BY <1>2, RdnToStringType
<1>5. words \in [1 .. n -> Seq(Letters)] BY <1>3, <1>4
<1>6. words \in Seq(Seq(Letters)) BY <1>2, <1>5, SequenceOf, Zenon
<1>7. Join(words, Comma) \in Seq(Letters) BY <1>6, LettersAre, JoinType
<1> QED BY <1>1, <1>6, <1>7, DnToStringIs

\* The text of an RDN that was parsed from a text with a lone backslash at its
\* end has one, too.
LEMMA RdnDangling ==
  ASSUME NEW s \in Seq(Letters), Parsable(s), Dangling(s)
  PROVE  Dangling(RdnToString(ParseRdn(s)))
<1>1. PICK pieces, parts, rdn, n :
        pieces = Split(s, "+") /\ parts = RdnParts(s) /\ rdn = ParseRdn(s) /\ n = Len(RdnParts(s))
  OBVIOUS
<1>2. /\ parts \in Seq(Seq(Letters)) /\ parts # <<>> /\ n \in Nat /\ n # 0 /\ n = Len(pieces)
      /\ DOMAIN parts = 1 .. n /\ n \in 1 .. n
  <2>1. parts \in Seq(Seq(Letters)) /\ parts # <<>> /\ n = Len(pieces) /\ n = Len(parts)
    BY <1>1, PartsAre
  <2> QED BY <2>1
<1>3. PICK last, part, e, v :
        /\ last = pieces[n] /\ part = parts[n] /\ e = Min(Positions(part, "="))
        /\ v = SubSeq(part, e + 1, Len(part))
  OBVIOUS
<1>4. /\ part = Trim(last) /\ last \in Seq(Letters) /\ part \in Seq(Letters)
      /\ Positions(part, "=") # {}
  <2>1. part = Trim(last) /\ last \in Seq(Letters) BY <1>1, <1>2, <1>3, PartsAre
  <2>2. part \in Seq(Letters) BY <1>2, <1>3
  <2>3. part \in Range(parts) BY <1>2, <1>3 DEF Range
  <2> QED BY <1>1, <2>1, <2>2, <2>3 DEF Parsable
<1>5. Dangling(part)
  <2>1. Backslashes(last) = Backslashes(s) BY <1>1, <1>2, <1>3, LettersAre, Marks, SplitEnds
  <2>2. Dangling(last) BY <2>1, DanglingIs
  <2> QED BY <1>4, <2>2, DanglingTrim
<1>6. v \in Seq(Letters) /\ part = After(SubSeq(part, 1, e - 1), "=", v)
      /\ SubSeq(part, 1, e - 1) \in Seq(Letters)
  BY <1>3, <1>4, PartCut
<1>7. Dangling(v)
  <2>1. PICK p : p = SubSeq(part, 1, e - 1) OBVIOUS
  <2>2. Backslashes(After(p, "=", v)) = Backslashes(v)
    BY <1>6, <2>1, LettersAre, Marks, BackslashesAfter
  <2> QED BY <1>5, <1>6, <2>1, <2>2, DanglingIs
<1>8. PICK a, t : a = rdn[n] /\ t = AttributeToString(a) OBVIOUS
<1>9. /\ rdn = [i \in 1 .. n |-> ParseAttribute(parts[i])] /\ a = ParseAttribute(part)
      /\ a.value = Trim(v)
  <2>1. rdn = [i \in 1 .. n |-> ParseAttribute(parts[i])] BY <1>1, <1>2, RdnPartsIs
  <2>2. a = ParseAttribute(part) BY <1>2, <1>3, <1>8, <2>1
  <2> QED BY <1>3, <2>1, <2>2 DEF ParseAttribute, Attribute
<1>10. rdn \in Seq(Attributes) /\ Len(rdn) = n /\ DOMAIN rdn = 1 .. n
  <2>1. rdn \in Seq(Attributes) BY <1>1, RdnParsed
  <2> QED BY <1>2, <1>9, <2>1
<1>11. Backslashes(t) % 2 = 1
  <2>1. a \in Attributes BY <1>2, <1>8, <1>10
  <2>2. PICK m, w : m = a.name /\ w = a.value OBVIOUS
  <2>3. m \in Seq(Letters) /\ w \in Seq(Letters) /\ w = Trim(v) BY <1>9, <2>1, <2>2 DEF Attributes
  <2>4. t = After(m, "=", w) BY <1>8, <2>2, Zenon DEF AttributeToString, After, Then
  <2>5. Backslashes(After(m, "=", w)) = Backslashes(w) BY <2>3, LettersAre, Marks, BackslashesAfter
  <2>6. Dangling(w) BY <1>6, <1>7, <2>3, DanglingTrim
  <2> QED BY <2>4, <2>5, <2>6, DanglingIs
<1>12. PICK words : words = WrittenOf(rdn) OBVIOUS
<1>13. words \in Seq(Seq(Letters)) /\ Len(words) = n /\ words[n] = t /\ words # <<>>
  <2>1. words \in Seq(Seq(Letters)) /\ Len(words) = n BY <1>10, <1>12, PartsWritten
  <2>2. words[n] = t BY <1>2, <1>8, <1>10, <1>12 DEF WrittenOf
  <2> QED BY <1>2, <2>1, <2>2
<1>14. Backslashes(Join(words, "+")) = Backslashes(t) BY <1>13, LettersAre, Marks, JoinEnds
<1> QED BY <1>1, <1>11, <1>12, <1>14, DanglingIs, RdnToStringIs

LEMMA NameDangling ==
  ASSUME NEW s \in Seq(Letters), ParseDn(s) # InvalidRdn, Dangling(s)
  PROVE  Dangling(DnToString(ParseDn(s)))
<1>1. PICK t : t = Trim(s) OBVIOUS
<1>2. t \in Seq(Letters) /\ Dangling(t) /\ t # <<>> BY <1>1, DanglingTrim
<1>3. SplitAt(s, Separators(s)) = <<s>> BY SeparatorsAre, SplitWhole
<1>4. DnParts(s) = <<t>>
  <2>1. PICK w : w = <<t>> OBVIOUS
  <2>2. [i \in DOMAIN <<s>> |-> Trim(<<s>>[i])] = w BY <1>1, <2>1
  <2>3. w \in Seq(Seq(Letters)) /\ \A i \in 1 .. Len(w) : w[i] # <<>> BY <1>2, <2>1
  <2>4. NonEmpty(w) = w BY <2>3, NonEmptyAll
  <2> QED BY <1>3, <2>1, <2>2, <2>4 DEF DnParts
<1>5. Parsable(t) /\ ParseDn(s) = Dn(<<ParseRdn(t)>>)
  <2>1. DOMAIN <<t>> = {1} /\ <<t>>[1] = t OBVIOUS
  <2>2. [i \in DOMAIN <<t>> |-> ParseRdn(<<t>>[i])] = <<ParseRdn(t)>> OBVIOUS
  <2> QED BY <1>4, <2>1, <2>2, ParseDnIs DEF Parsable
<1>6. DnToString(Dn(<<ParseRdn(t)>>)) = RdnToString(ParseRdn(t))
  <2>1. PICK r : r = ParseRdn(t) OBVIOUS
  <2>2. RdnsWritten(<<r>>) = <<RdnToString(r)>> BY DEF RdnsWritten
  <2>3. RdnToString(r) \in Seq(Letters)
    <3>1. r \in Seq(Attributes) BY <1>2, <1>5, <2>1, RdnParsed
    <3> QED BY <3>1, RdnToStringType
  <2>4. Join(<<RdnToString(r)>>, Comma) = RdnToString(r) BY <2>3, JoinOne
  <2> QED BY <2>1, <2>2, <2>4, DnToStringIs
<1>7. Dangling(RdnToString(ParseRdn(t))) BY <1>2, <1>5, RdnDangling
<1> QED BY <1>5, <1>6, <1>7

--------
(* Names, case aside *)

LowerLetter(c) == IF c = "CN" THEN "cn" ELSE c

LEMMA LowerType ==
  ASSUME NEW s \in Seq(Letters)
  PROVE  /\ Lower(s) \in Seq(Letters) /\ Len(Lower(s)) = Len(s) /\ DOMAIN Lower(s) = DOMAIN s
         /\ \A i \in 1 .. Len(s) : Lower(s)[i] = LowerLetter(s[i])
<1>1. PICK n, r : n = Len(s) /\ r = Lower(s) OBVIOUS
<1>2. n \in Nat /\ DOMAIN s = 1 .. n /\ \A i \in 1 .. n : s[i] \in Letters BY <1>1
<1>3. r = [i \in 1 .. n |-> LowerLetter(s[i])] BY <1>1, <1>2 DEF Lower, LowerLetter
<1>4. \A i \in 1 .. n : LowerLetter(s[i]) \in Letters BY <1>2, LettersAre DEF LowerLetter
<1>5. r \in [1 .. n -> Letters] BY <1>3, <1>4
<1>6. r \in Seq(Letters) /\ Len(r) = n BY <1>2, <1>5, SequenceOf, Zenon
<1> QED BY <1>1, <1>2, <1>3, <1>6

LEMMA LowerLetterTells ==
  ASSUME NEW x, x # "CN", x # "cn"
  PROVE  \A c : LowerLetter(c) = x <=> c = x
  BY DEF LowerLetter

LEMMA LowerMarks ==
  \A x \in {Comma, "+", "=", "\\", Blank} : x # "CN" /\ x # "cn"
  BY Zenon DEF Comma, Blank

LEMMA LowerKeeps ==
  ASSUME NEW s \in Seq(Letters)
  PROVE  /\ \A x \in {Comma, "+", "=", "\\", Blank} : Positions(Lower(s), x) = Positions(s, x)
         /\ Tight(Lower(s)) <=> Tight(s)
         /\ Dangling(Lower(s)) <=> Dangling(s)
<1>1. PICK r, n : r = Lower(s) /\ n = Len(s) OBVIOUS
<1>2. /\ r \in Seq(Letters) /\ Len(r) = n /\ DOMAIN r = 1 .. n /\ DOMAIN s = 1 .. n /\ n \in Nat
      /\ \A i \in 1 .. n : r[i] = LowerLetter(s[i])
  BY <1>1, LowerType
<1>3. ASSUME NEW x \in {Comma, "+", "=", "\\", Blank}
      PROVE  \A i \in 1 .. n : r[i] = x <=> s[i] = x
  <2>1. x # "CN" /\ x # "cn" BY LowerMarks
  <2> QED BY <1>2, <2>1, LowerLetterTells
<1>4. \A x \in {Comma, "+", "=", "\\", Blank} : Positions(r, x) = Positions(s, x)
  BY <1>2, <1>3 DEF Positions
<1>5. Tight(r) <=> Tight(s)
  <2>1. r = <<>> <=> s = <<>> BY <1>2
  <2>2. CASE s = <<>> BY <2>1, <2>2 DEF Tight
  <2>3. CASE s # <<>>
    <3>1. 1 \in 1 .. n /\ n \in 1 .. n /\ n = Len(s) /\ n = Len(r) BY <1>1, <1>2, <2>3
    <3>2. (r[1] = Blank <=> s[1] = Blank) /\ (r[n] = Blank <=> s[n] = Blank) BY <1>3, <3>1
    <3> QED BY <2>1, <2>3, <3>1, <3>2 DEF Tight
  <2> QED BY <2>2, <2>3
<1>6. Dangling(r) <=> Dangling(s)
  <2>1. Positions(r, "\\") = Positions(s, "\\") BY <1>4
  <2>2. DOMAIN r = DOMAIN s /\ Len(r) = Len(s) BY <1>1, <1>2
  <2> QED BY <2>1, <2>2 DEF Dangling
<1> QED BY <1>1, <1>4, <1>5, <1>6

LEMMA LowerAfter ==
  ASSUME NEW s \in Seq(Letters), NEW x \in Letters, NEW w \in Seq(Letters), x # "CN"
  PROVE  Lower(After(s, x, w)) = After(Lower(s), x, Lower(w))
<1>1. PICK r, p, v, q, l : /\ r = After(s, x, w) /\ p = Lower(s) /\ v = Lower(w)
                           /\ q = After(p, x, v) /\ l = Lower(r)
  OBVIOUS
<1>2. p \in Seq(Letters) /\ v \in Seq(Letters) /\ Len(p) = Len(s) /\ Len(v) = Len(w)
      /\ (\A i \in 1 .. Len(s) : p[i] = LowerLetter(s[i]))
      /\ (\A i \in 1 .. Len(w) : v[i] = LowerLetter(w[i]))
  BY <1>1, LowerType
<1>3. r \in Seq(Letters) /\ Reaches(r, s, x, w) BY <1>1, AfterIs
<1>4. q \in Seq(Letters) /\ Reaches(q, p, x, v) BY <1>1, <1>2, AfterIs
<1>5. l \in Seq(Letters) /\ Len(l) = Len(r) /\ \A i \in 1 .. Len(r) : l[i] = LowerLetter(r[i])
  BY <1>1, <1>3, LowerType
<1>6. Len(s) \in Nat /\ Len(w) \in Nat /\ Len(r) = Len(s) + 1 + Len(w) /\ Len(q) = Len(r)
  BY <1>2, <1>3, <1>4 DEF Reaches
<1>7. ASSUME NEW i \in 1 .. Len(l) PROVE l[i] = q[i]
  <2>1. l[i] = LowerLetter(r[i]) BY <1>5
  <2>2. CASE i \in 1 .. Len(s)
    <3>1. r[i] = s[i] /\ q[i] = p[i] BY <1>2, <1>3, <1>4, <2>2 DEF Reaches
    <3> QED BY <1>2, <2>1, <2>2, <3>1
  <2>3. CASE i = Len(s) + 1
    <3>1. r[i] = x /\ q[i] = x BY <1>2, <1>3, <1>4, <2>3 DEF Reaches
    <3> QED BY <2>1, <3>1 DEF LowerLetter
  <2>4. CASE i \notin 1 .. Len(s) /\ i # Len(s) + 1
    <3>1. PICK j \in 1 .. Len(w) : i = Len(s) + 1 + j
      <4>1. i - Len(s) - 1 \in 1 .. Len(w) /\ i = Len(s) + 1 + (i - Len(s) - 1) BY <1>5, <1>6, <2>4
      <4> QED BY <4>1
    <3>2. r[Len(s) + 1 + j] = w[j] BY <1>3 DEF Reaches
    <3>3. q[Len(p) + 1 + j] = v[j] BY <1>2, <1>4 DEF Reaches
    <3> QED BY <1>2, <2>1, <3>1, <3>2, <3>3
  <2> QED BY <2>2, <2>3, <2>4
<1>8. l = q
  <2>1. Len(l) = Len(q) BY <1>5, <1>6
  <2> QED BY ONLY <1>4, <1>5, <1>7, <2>1, SameSeq
<1> QED BY <1>1, <1>8

LowerEach(words) == [i \in DOMAIN words |-> Lower(words[i])]

LEMMA LowerEachType ==
  ASSUME NEW words \in Seq(Seq(Letters))
  PROVE  /\ LowerEach(words) \in Seq(Seq(Letters)) /\ Len(LowerEach(words)) = Len(words)
         /\ \A i \in 1 .. Len(words) : LowerEach(words)[i] = Lower(words[i])
<1>1. PICK n, r : n = Len(words) /\ r = LowerEach(words) OBVIOUS
<1>2. n \in Nat /\ DOMAIN words = 1 .. n /\ \A i \in 1 .. n : words[i] \in Seq(Letters) BY <1>1
<1>3. r = [i \in 1 .. n |-> Lower(words[i])] BY <1>1, <1>2 DEF LowerEach
<1>4. \A i \in 1 .. n : Lower(words[i]) \in Seq(Letters) BY <1>2, LowerType
<1>5. r \in [1 .. n -> Seq(Letters)] BY <1>3, <1>4
<1>6. r \in Seq(Seq(Letters)) /\ Len(r) = n BY <1>2, <1>5, SequenceOf, Zenon
<1> QED BY <1>1, <1>3, <1>6

LEMMA LowerEachMore ==
  ASSUME NEW words \in Seq(Seq(Letters)), NEW w \in Seq(Letters)
  PROVE  LowerEach(Append(words, w)) = Append(LowerEach(words), Lower(w))
<1>1. PICK S, u, p, q, a, v : /\ S = Seq(Letters) /\ u = Append(words, w) /\ p = LowerEach(words)
                              /\ q = LowerEach(u) /\ v = Lower(w) /\ a = Append(p, v)
  OBVIOUS
<1>2. words \in Seq(S) /\ w \in S /\ v \in S /\ Len(words) \in Nat BY <1>1, LowerType
<1>3. /\ u \in Seq(S) /\ Len(u) = Len(words) + 1 /\ u[Len(words) + 1] = w
      /\ \A i \in 1 .. Len(words) : u[i] = words[i]
  BY ONLY <1>1, <1>2, Appended
<1>4. /\ p \in Seq(S) /\ Len(p) = Len(words)
      /\ \A i \in 1 .. Len(words) : p[i] = Lower(words[i])
  BY <1>1, LowerEachType
<1>5. /\ q \in Seq(S) /\ Len(q) = Len(u)
      /\ \A i \in 1 .. Len(u) : q[i] = Lower(u[i])
  BY <1>1, <1>3, LowerEachType
<1>6. /\ a \in Seq(S) /\ Len(a) = Len(p) + 1 /\ a[Len(p) + 1] = v
      /\ \A i \in 1 .. Len(p) : a[i] = p[i]
  BY ONLY <1>1, <1>2, <1>4, Appended
<1>7. ASSUME NEW i \in 1 .. Len(q) PROVE q[i] = a[i]
  <2>1. CASE i = Len(words) + 1
    <3>1. i \in 1 .. Len(u) /\ i = Len(p) + 1 BY <1>4, <1>5, <2>1
    <3>2. q[i] = Lower(u[i]) /\ a[i] = v BY <1>5, <1>6, <3>1, Zenon
    <3>3. u[i] = w BY <1>3, <2>1, Zenon
    <3> QED BY <1>1, <3>2, <3>3, Zenon
  <2>2. CASE i # Len(words) + 1
    <3>1. i \in 1 .. Len(words) /\ i \in 1 .. Len(u) /\ i \in 1 .. Len(p)
      BY <1>2, <1>3, <1>4, <1>5, <2>2
    <3>2. q[i] = Lower(u[i]) /\ u[i] = words[i] BY <1>3, <1>5, <3>1, Zenon
    <3>3. a[i] = p[i] /\ p[i] = Lower(words[i]) BY <1>4, <1>6, <3>1, Zenon
    <3> QED BY <3>2, <3>3, Zenon
  <2> QED BY <2>1, <2>2
<1>8. q = a
  <2>1. Len(q) = Len(a) BY <1>3, <1>4, <1>5, <1>6
  <2> QED BY ONLY <1>5, <1>6, <1>7, <2>1, SameSeq
<1> QED BY <1>1, <1>8

LEMMA LowerJoin ==
  ASSUME NEW words \in Seq(Seq(Letters)), NEW x \in Letters, x # "CN"
  PROVE  Lower(Join(words, x)) = Join(LowerEach(words), x)
<1> DEFINE A == {v \in Seq(Seq(Letters)) : Lower(Join(v, x)) = Join(LowerEach(v), x)}
<1>1. <<>> \in A
  <2>1. LowerEach(<<>>) = <<>> /\ Lower(<<>>) = <<>> BY DEF LowerEach, Lower
  <2> QED BY <2>1, JoinEmpty
<1>2. ASSUME NEW v \in Seq(Seq(Letters)), NEW w \in Seq(Letters), v \in A PROVE Append(v, w) \in A
  <2>1. PICK u, l, p : u = Append(v, w) /\ l = Lower(w) /\ p = LowerEach(v) OBVIOUS
  <2>2. LowerEach(u) = Append(p, l) /\ u \in Seq(Seq(Letters)) BY <2>1, LowerEachMore
  <2>3. l \in Seq(Letters) /\ p \in Seq(Seq(Letters)) /\ Len(p) = Len(v)
    BY <2>1, LowerType, LowerEachType
  <2>4. CASE v = <<>>
    <3>1. u = <<w>> /\ p = <<>> BY <2>1, <2>3, <2>4
    <3>2. Append(p, l) = <<l>> BY <3>1
    <3>3. Join(<<w>>, x) = w /\ Join(<<l>>, x) = l BY <2>3, JoinOne
    <3> QED BY <2>1, <2>2, <3>1, <3>2, <3>3
  <2>5. CASE v # <<>>
    <3>1. PICK s, q : s = Join(v, x) /\ q = Join(p, x) OBVIOUS
    <3>2. s \in Seq(Letters) /\ Lower(s) = q BY <1>2, <2>1, <3>1, JoinType
    <3>3. Join(u, x) = After(s, x, w) BY <2>1, <2>5, <3>1, JoinMore
    <3>4. Join(Append(p, l), x) = After(q, x, l)
      <4>1. p # <<>> BY <2>3, <2>5
      <4> QED BY <2>3, <3>1, <4>1, JoinMore
    <3>5. Lower(After(s, x, w)) = After(Lower(s), x, Lower(w)) BY <3>2, LowerAfter
    <3>6. Lower(Join(u, x)) = Join(LowerEach(u), x) BY <2>1, <2>2, <3>2, <3>3, <3>4, <3>5
    <3> QED BY <2>1, <2>2, <3>6
  <2> QED BY <2>4, <2>5
<1>3. words \in A
  <2> HIDE DEF A
  <2>1. PICK S : S = Seq(Letters) OBVIOUS
  <2>2. ASSUME NEW v \in Seq(S), NEW w \in S, v \in A PROVE Append(v, w) \in A BY <1>2, <2>1, <2>2
  <2>3. words \in Seq(S) BY <2>1
  <2> QED BY ONLY <1>1, <2>2, <2>3, SeqInduction
<1> QED BY <1>3

LowerAttribute(attribute) == Attribute(Lower(attribute.name), Lower(attribute.value))
LowerRdn(rdn) == [i \in DOMAIN rdn |-> LowerAttribute(rdn[i])]
LowerRdns(rdns) == [i \in DOMAIN rdns |-> LowerRdn(rdns[i])]

LEMMA LowerCasedIs == \A rdns : LowerCased(Dn(rdns)) = Dn(LowerRdns(rdns))
<1>1. \A rdns : Dn(rdns).rdns = rdns BY DEF Dn
<1> QED BY <1>1 DEF LowerCased, Mapped, LowerRdns, LowerRdn, LowerAttribute

LEMMA AttributeLowered ==
  ASSUME NEW attribute \in Attributes
  PROVE  /\ LowerAttribute(attribute) \in Attributes
         /\ Lower(AttributeToString(attribute)) = AttributeToString(LowerAttribute(attribute))
         /\ PlainAttribute(attribute) => PlainAttribute(LowerAttribute(attribute))
<1>1. PICK n, v, a : n = attribute.name /\ v = attribute.value /\ a = LowerAttribute(attribute)
  OBVIOUS
<1>2. n \in Seq(Letters) /\ v \in Seq(Letters) BY <1>1 DEF Attributes
<1>3. Lower(n) \in Seq(Letters) /\ Lower(v) \in Seq(Letters) BY <1>2, LowerType
<1>4. a = [name |-> Lower(n), value |-> Lower(v)] BY <1>1 DEF LowerAttribute, Attribute
<1>5. a \in Attributes /\ a.name = Lower(n) /\ a.value = Lower(v) BY <1>3, <1>4 DEF Attributes
<1>6. Lower(AttributeToString(attribute)) = AttributeToString(a)
  <2>1. AttributeToString(attribute) = After(n, "=", v)
    BY <1>1, Zenon DEF AttributeToString, After, Then
  <2>2. AttributeToString(a) = After(Lower(n), "=", Lower(v))
    BY <1>5, Zenon DEF AttributeToString, After, Then
  <2>3. "=" \in Letters /\ "=" # "CN" BY LettersAre
  <2>4. Lower(After(n, "=", v)) = After(Lower(n), "=", Lower(v)) BY <1>2, <2>3, LowerAfter
  <2> QED BY <2>1, <2>2, <2>4
<1>7. ASSUME PlainAttribute(attribute) PROVE PlainAttribute(a)
  <2>1. /\ Tight(Lower(n)) <=> Tight(n)
        /\ Tight(Lower(v)) <=> Tight(v)
        /\ \A x \in {Comma, "+", "=", "\\", Blank} :
             Positions(Lower(n), x) = Positions(n, x) /\ Positions(Lower(v), x) = Positions(v, x)
    BY <1>2, LowerKeeps
  <2> QED BY <1>1, <1>5, <1>7, <2>1 DEF PlainAttribute
<1> QED BY <1>1, <1>5, <1>6, <1>7

LEMMA RdnLowered ==
  ASSUME NEW rdn \in Seq(Attributes)
  PROVE  /\ LowerRdn(rdn) \in Seq(Attributes)
         /\ Lower(RdnToString(rdn)) = RdnToString(LowerRdn(rdn))
         /\ PlainRdn(rdn) => PlainRdn(LowerRdn(rdn))
<1>1. PICK n, l, words : n = Len(rdn) /\ l = LowerRdn(rdn) /\ words = WrittenOf(rdn) OBVIOUS
<1>2. n \in Nat /\ DOMAIN rdn = 1 .. n /\ \A i \in 1 .. n : rdn[i] \in Attributes BY <1>1
<1>3. l = [i \in 1 .. n |-> LowerAttribute(rdn[i])] BY <1>1, <1>2 DEF LowerRdn
<1>4. l \in Seq(Attributes) /\ Len(l) = n /\ DOMAIN l = 1 .. n
  <2>1. l \in [1 .. n -> Attributes] BY <1>2, <1>3, AttributeLowered
  <2> QED BY <1>2, <1>3, <2>1, SequenceOf, Zenon
<1>5. words \in Seq(Seq(Letters)) /\ words = [i \in 1 .. n |-> AttributeToString(rdn[i])]
  BY <1>1, <1>2, PartsWritten DEF WrittenOf
<1>6. LowerEach(words) = WrittenOf(l)
  <2>1. LowerEach(words) = [i \in 1 .. n |-> Lower(AttributeToString(rdn[i]))] BY <1>5 DEF LowerEach
  <2>2. WrittenOf(l) = [i \in 1 .. n |-> AttributeToString(LowerAttribute(rdn[i]))]
    BY <1>3 DEF WrittenOf
  <2>3. \A i \in 1 .. n : Lower(AttributeToString(rdn[i])) = AttributeToString(LowerAttribute(rdn[i]))
    BY <1>2, AttributeLowered
  <2> QED BY <2>1, <2>2, <2>3
<1>7. Lower(Join(words, "+")) = Join(LowerEach(words), "+")
  <2>1. "+" \in Letters /\ "+" # "CN" BY LettersAre
  <2> QED BY <1>5, <2>1, LowerJoin
<1>8. Lower(RdnToString(rdn)) = RdnToString(l) BY <1>1, <1>6, <1>7, RdnToStringIs
<1>9. ASSUME PlainRdn(rdn) PROVE PlainRdn(l)
  <2>1. n # 0 /\ \A i \in 1 .. n : PlainAttribute(rdn[i]) BY <1>1, <1>2, <1>9 DEF PlainRdn
  <2>2. \A i \in 1 .. n : PlainAttribute(l[i]) BY <1>2, <1>3, <2>1, AttributeLowered
  <2>3. l # <<>> BY <1>4, <2>1
  <2> QED BY <1>4, <2>2, <2>3 DEF PlainRdn
<1> QED BY <1>1, <1>4, <1>8, <1>9

LEMMA NameLowered ==
  ASSUME NEW rdns \in Seq(Seq(Attributes))
  PROVE  /\ LowerRdns(rdns) \in Seq(Seq(Attributes))
         /\ Lower(DnToString(Dn(rdns))) = DnToString(Dn(LowerRdns(rdns)))
         /\ PlainRdns(rdns) => PlainRdns(LowerRdns(rdns))
<1>1. PICK n, l, words : n = Len(rdns) /\ l = LowerRdns(rdns) /\ words = RdnsWritten(rdns) OBVIOUS
<1>2. n \in Nat /\ DOMAIN rdns = 1 .. n /\ \A i \in 1 .. n : rdns[i] \in Seq(Attributes) BY <1>1
<1>3. l = [i \in 1 .. n |-> LowerRdn(rdns[i])] BY <1>1, <1>2 DEF LowerRdns
<1>4. l \in Seq(Seq(Attributes)) /\ Len(l) = n /\ DOMAIN l = 1 .. n
  <2>1. l \in [1 .. n -> Seq(Attributes)] BY <1>2, <1>3, RdnLowered
  <2> QED BY <1>2, <1>3, <2>1, SequenceOf, Zenon
<1>5. words \in Seq(Seq(Letters)) /\ words = [i \in 1 .. n |-> RdnToString(rdns[i])]
  BY <1>1, <1>2, DnToStringType DEF RdnsWritten
<1>6. LowerEach(words) = RdnsWritten(l)
  <2>1. LowerEach(words) = [i \in 1 .. n |-> Lower(RdnToString(rdns[i]))] BY <1>5 DEF LowerEach
  <2>2. RdnsWritten(l) = [i \in 1 .. n |-> RdnToString(LowerRdn(rdns[i]))] BY <1>3 DEF RdnsWritten
  <2>3. \A i \in 1 .. n : Lower(RdnToString(rdns[i])) = RdnToString(LowerRdn(rdns[i]))
    BY <1>2, RdnLowered
  <2> QED BY <2>1, <2>2, <2>3
<1>7. Lower(Join(words, Comma)) = Join(LowerEach(words), Comma)
  BY <1>5, LettersAre, LowerMarks, LowerJoin
<1>8. Lower(DnToString(Dn(rdns))) = DnToString(Dn(l)) BY <1>1, <1>6, <1>7, DnToStringIs
<1>9. ASSUME PlainRdns(rdns) PROVE PlainRdns(l)
  BY <1>1, <1>2, <1>3, <1>4, <1>9, RdnLowered DEF PlainRdns
<1> QED BY <1>1, <1>4, <1>8, <1>9

\* Names that need no escape and print the same, case aside, are the same, case
\* aside.
LEMMA EqualNames ==
  ASSUME NEW one, NEW two, PlainRdns(one), PlainRdns(two),
         ~Dangling(DnToString(Dn(one))), ~Dangling(DnToString(Dn(two))),
         DnEquals(Dn(one), Dn(two))
  PROVE  LowerCased(Dn(one)) = LowerCased(Dn(two))
<1>1. ASSUME NEW rdns, PlainRdns(rdns), ~Dangling(DnToString(Dn(rdns)))
      PROVE  ParseDn(Lower(DnToString(Dn(rdns)))) = LowerCased(Dn(rdns))
  <2>1. rdns \in Seq(Seq(Attributes)) BY <1>1 DEF PlainRdns
  <2>2. PICK l : l = LowerRdns(rdns) OBVIOUS
  <2>3. PlainRdns(l) /\ Lower(DnToString(Dn(rdns))) = DnToString(Dn(l))
    BY <1>1, <2>1, <2>2, NameLowered
  <2>4. ~Dangling(DnToString(Dn(l)))
    <3>1. DnToString(Dn(rdns)) \in Seq(Letters) BY <2>1, DnToStringType
    <3> QED BY <1>1, <2>3, <3>1, LowerKeeps
  <2>5. ParseDn(DnToString(Dn(l))) = Dn(l) BY <2>3, <2>4, NameReturns
  <2> QED BY <2>2, <2>3, <2>5, LowerCasedIs
<1>2. Lower(DnToString(Dn(one))) = Lower(DnToString(Dn(two))) BY DEF DnEquals
<1> QED BY <1>1, <1>2

--------
(* Names *)

NameInv ==
  /\ codec = "dn" => source \in Dns /\ (text # NotYet => text = DnToString(source))
  /\ codec = "dnText" => text \in DnTexts
  /\ codec \in {"dn", "dnText"} /\ back # NotYet => text # NotYet /\ back = ParseDn(text)

LEMMA NameInvHolds == ConversionsSpec => []NameInv
<1>1. ConversionsInit => NameInv BY DEF ConversionsInit, NameInv
<1>2. NameInv /\ [ConversionsNext]_textVars => NameInv'
  <2>1. SUFFICES ASSUME NameInv, [ConversionsNext]_textVars PROVE NameInv' OBVIOUS
  <2>2. CASE UNCHANGED textVars BY <2>1, <2>2 DEF textVars, NameInv
  <2>3. CASE WriteDn BY <2>1, <2>3 DEF WriteDn, Writes, NameInv
  <2>4. CASE ParseName BY <2>1, <2>4 DEF ParseName, Reads, NameInv
  <2>5. CASE ConversionsNext /\ codec \notin {"dn", "dnText"} BY <2>5, Steps DEF NameInv
  <2> QED BY <2>1, <2>2, <2>3, <2>4, <2>5, Steps
<1> QED BY <1>1, <1>2, PTL DEF ConversionsSpec

Bare(attribute) ==
  Plain(attribute.name) /\ Positions(attribute.name, "=") = {} /\ Plain(attribute.value)

LEMMA BareIs ==
  ASSUME NEW attribute \in Attributes
  PROVE  PlainAttribute(attribute) <=> Bare(attribute)
<1>1. attribute.name \in Seq(Letters) /\ attribute.value \in Seq(Letters) BY DEF Attributes
<1> QED BY <1>1, PlainIs DEF PlainAttribute, Bare

BareRdn(rdn) == rdn # <<>> /\ \A attribute \in Range(rdn) : Bare(attribute)

LEMMA BareRdnIs ==
  ASSUME NEW rdn \in Seq(Attributes)
  PROVE  PlainRdn(rdn) <=> BareRdn(rdn)
<1>1. DOMAIN rdn = 1 .. Len(rdn) /\ \A k \in 1 .. Len(rdn) : rdn[k] \in Attributes OBVIOUS
<1>2. ASSUME PlainRdn(rdn) PROVE BareRdn(rdn)
  <2>1. ASSUME NEW attribute \in Range(rdn) PROVE Bare(attribute)
    <3>1. PICK k \in 1 .. Len(rdn) : attribute = rdn[k] BY <1>1, <2>1 DEF Range
    <3>2. attribute \in Attributes /\ PlainAttribute(attribute) BY <1>1, <1>2, <3>1 DEF PlainRdn
    <3> QED BY <3>2, BareIs
  <2> QED BY <1>2, <2>1 DEF BareRdn, PlainRdn
<1>3. ASSUME BareRdn(rdn) PROVE PlainRdn(rdn)
  <2>1. ASSUME NEW k \in 1 .. Len(rdn) PROVE PlainAttribute(rdn[k])
    <3>1. rdn[k] \in Range(rdn) /\ rdn[k] \in Attributes BY <1>1 DEF Range
    <3> QED BY <1>3, <3>1, BareIs DEF BareRdn
  <2> QED BY <1>3, <2>1 DEF BareRdn, PlainRdn
<1> QED BY <1>2, <1>3

LEMMA DnsType ==
  ASSUME NEW dn \in Dns
  PROVE  /\ dn = Dn(dn.rdns) /\ dn.rdns \in Seq(Seq(Attributes))
         /\ NeedsNoEscape(dn) <=> PlainRdns(dn.rdns) /\ ~Dangling(DnToString(dn))
<1>1. dn = Dn(dn.rdns) /\ dn.rdns \in Seq(Seq([name : Seq(STRING), value : Seq(STRING)]))
  BY NamesAssumption
<1>2. [name : Seq(STRING), value : Seq(STRING)] \subseteq Attributes
  <2>1. Seq(STRING) \subseteq Seq(Letters) BY SeqMonotonic DEF Letters
  <2> QED BY <2>1 DEF Attributes
<1>3. Seq([name : Seq(STRING), value : Seq(STRING)]) \subseteq Seq(Attributes) BY <1>2, SeqMonotonic
<1>4. PICK rdns : rdns = dn.rdns OBVIOUS
<1>5. rdns \in Seq(Seq(Attributes)) BY <1>1, <1>3, <1>4, SeqMonotonic
<1>6. DOMAIN rdns = 1 .. Len(rdns) /\ \A i \in 1 .. Len(rdns) : rdns[i] \in Seq(Attributes) BY <1>5
<1>7. NeedsNoEscape(dn) <=> (\A rdn \in Range(rdns) : BareRdn(rdn)) /\ ~Dangling(DnToString(dn))
  BY <1>4 DEF NeedsNoEscape, BareRdn, Bare
<1>8. (\A rdn \in Range(rdns) : BareRdn(rdn)) <=> (\A i \in 1 .. Len(rdns) : BareRdn(rdns[i]))
  BY <1>6 DEF Range
<1>9. (\A i \in 1 .. Len(rdns) : BareRdn(rdns[i])) <=> (\A i \in 1 .. Len(rdns) : PlainRdn(rdns[i]))
  BY <1>6, BareRdnIs
<1>10. PlainRdns(rdns) <=> (\A i \in 1 .. Len(rdns) : PlainRdn(rdns[i])) BY <1>5 DEF PlainRdns
<1> QED BY <1>1, <1>4, <1>5, <1>7, <1>8, <1>9, <1>10

\* The texts that are parsed.
LEMMA TextType ==
  ASSUME NameInv, Named
  PROVE  text \in Seq(Letters) /\ back = ParseDn(text)
<1>1. back = ParseDn(text) /\ text # NotYet BY DEF NameInv, Named
<1>2. CASE codec = "dn"
  <2>1. source \in Dns /\ text = DnToString(source) BY <1>1, <1>2 DEF NameInv
  <2> QED BY <1>1, <2>1, DnsType, DnToStringType
<1>3. CASE codec = "dnText"
  <2>1. text \in Seq(STRING) BY <1>3, NamesAssumption DEF NameInv
  <2> QED BY <1>1, <2>1, SeqMonotonic DEF Letters
<1> QED BY <1>2, <1>3 DEF Named

\* What was parsed, and does not print a lone backslash, needs no escape.
LEMMA ParsedIsPlain ==
  ASSUME NEW s \in Seq(Letters), ParseDn(s) # InvalidRdn, ~Dangling(DnToString(ParseDn(s)))
  PROVE  \E rdns : ParseDn(s) = Dn(rdns) /\ PlainRdns(rdns)
<1>1. ~Dangling(s) BY NameDangling
<1> QED BY <1>1, NameParsed

\* A name comes back as it was written unless one of its parts would have needed
\* an escape, and so does what any text was parsed to: DN.toString and DN.parse.
THEOREM NamesReturn == ConversionsSpec => []NamesSurvive
<1>1. NameInv => NamesSurvive
  <2>1. SUFFICES ASSUME NameInv, Named
                 PROVE  /\ codec = "dn" /\ NeedsNoEscape(source) => back = source
                        /\ back # InvalidRdn =>
                             LET printed == DnToString(back)
                             IN Dangling(printed) \/ ParseDn(printed) = back
    BY DEF NamesSurvive
  <2>2. text \in Seq(Letters) /\ back = ParseDn(text) BY <2>1, TextType
  <2>3. codec = "dn" /\ NeedsNoEscape(source) => back = source
    <3>1. SUFFICES ASSUME codec = "dn", NeedsNoEscape(source) PROVE back = source OBVIOUS
    <3>2. source \in Dns /\ text = DnToString(source) BY <2>1, <3>1 DEF NameInv, Named
    <3>3. PICK rdns : rdns = source.rdns OBVIOUS
    <3>4. source = Dn(rdns) /\ PlainRdns(rdns) /\ ~Dangling(DnToString(source))
      BY <3>1, <3>2, <3>3, DnsType
    <3>5. ParseDn(DnToString(Dn(rdns))) = Dn(rdns) BY <3>4, NameReturns
    <3> QED BY <2>2, <3>2, <3>4, <3>5
  <2>4. ASSUME back # InvalidRdn, ~Dangling(DnToString(back)) PROVE ParseDn(DnToString(back)) = back
    <3>1. PICK rdns : back = Dn(rdns) /\ PlainRdns(rdns) BY <2>2, <2>4, ParsedIsPlain
    <3> QED BY <2>4, <3>1, NameReturns
  <2> QED BY <2>3, <2>4
<1> QED BY <1>1, NameInvHolds, PTL

\* DN.equals compares texts; a parsed name that it calls equal to another parsed
\* one, or to one that needs no escape, has the same attributes, case aside.
THEOREM EqualNamesAre == ConversionsSpec => []EqualNamesAreTheSame
<1>1. NameInv => EqualNamesAreTheSame
  <2>1. SUFFICES ASSUME NameInv, Named, back # InvalidRdn, NEW other \in PlainDns \cup ParsedDns,
                        DnEquals(back, other), ~Dangling(DnToString(back))
                 PROVE  LowerCased(other) = LowerCased(back)
    BY DEF EqualNamesAreTheSame
  <2>2. text \in Seq(Letters) /\ back = ParseDn(text) BY <2>1, TextType
  <2>3. PICK one : back = Dn(one) /\ PlainRdns(one) BY <2>1, <2>2, ParsedIsPlain
  <2>4. PICK two : other = Dn(two) /\ PlainRdns(two) /\ ~Dangling(DnToString(other))
    <3>1. CASE other \in PlainDns BY <3>1, DnsType DEF PlainDns
    <3>2. CASE other \in ParsedDns
      <4>1. PICK s \in DnTexts :
              other = ParseDn(s) /\ other # InvalidRdn /\ ~Dangling(DnToString(other))
        BY <3>2 DEF ParsedDns
      <4>2. s \in Seq(Letters) BY NamesAssumption, SeqMonotonic DEF Letters
      <4> QED BY <4>1, <4>2, ParsedIsPlain
    <3> QED BY <2>1, <3>1, <3>2
  <2> QED BY <2>1, <2>3, <2>4, EqualNames
<1> QED BY <1>1, NameInvHolds, PTL

--------
(* os-release *)

\* What lines are made of.
Glyphs == STRING \cup {Blank, "=", DoubleQuote, "'", "ID", "ID_LIKE", "alpine", "debian"}

LEMMA GlyphsApart ==
  /\ "ID" # Blank /\ "ID_LIKE" # Blank /\ DoubleQuote # Blank /\ "'" # Blank /\ "=" # Blank
  /\ "ID" # "#" /\ "ID_LIKE" # "#" /\ "ID" # "=" /\ "ID_LIKE" # "=" /\ "ID" # "ID_LIKE"
  /\ "debian" # Blank /\ "Debian" # Blank /\ "alpine" # Blank /\ "alpine" # "Debian"
  BY Zenon DEF Blank, DoubleQuote

LEMMA GlyphsAre ==
  /\ Blank \in Glyphs /\ "=" \in Glyphs /\ DoubleQuote \in Glyphs /\ "'" \in Glyphs
  /\ "ID" \in Glyphs /\ "ID_LIKE" \in Glyphs /\ "alpine" \in Glyphs /\ "debian" \in Glyphs
  /\ Words \subseteq Glyphs \ {Blank} /\ STRING \subseteq Glyphs
  BY Zenon DEF Glyphs, Words

ValueIn(line) == Unquoted(Trim(SubSeq(line, Equals(line) + 1, Len(line))))

\* A key, "=" and a value without blanks around it.
LEMMA LineParsed ==
  ASSUME NEW key \in {"ID", "ID_LIKE"}, NEW v \in Seq(Glyphs), Proper(v),
         NEW line, line = After(<<key>>, "=", v)
  PROVE  /\ line \in Seq(Glyphs) /\ IsAssignment(line) /\ KeyOf(line) = <<key>>
         /\ ValueIn(line) = Unquoted(v)
<1>1. PICK n : n = <<key>> OBVIOUS
<1>2. n \in Seq(Glyphs) /\ Len(n) = 1 /\ n[1] = key /\ "=" \in Glyphs /\ key \in Glyphs
  BY <1>1, GlyphsAre
<1>3. key # Blank /\ key # "#" /\ key # "=" BY GlyphsApart
<1>4. line \in Seq(Glyphs) /\ Reaches(line, n, "=", v) BY <1>1, <1>2, AfterIs
<1>5. /\ Len(line) = 2 + Len(v) /\ Len(v) \in Nat /\ Len(v) > 0 /\ DOMAIN line = 1 .. Len(line)
      /\ line[1] = key /\ line[2] = "=" /\ \A i \in 1 .. Len(v) : line[2 + i] = v[i]
  BY <1>2, <1>4 DEF Reaches, Proper
<1>6. Tight(line) /\ Tight(n) /\ line # <<>>
  <2>1. v[Len(v)] # Blank BY DEF Proper, Tight
  <2>2. line[Len(line)] = v[Len(v)] BY <1>5
  <2> QED BY <1>2, <1>3, <1>5, <2>1, <2>2 DEF Tight
<1>7. Trim(line) = line /\ Trim(n) = n BY <1>2, <1>4, <1>6, TrimTight
<1>8. 2 \in Positions(line, "=") BY <1>5 DEF Positions
<1>9. Equals(line) = 2
  <2>1. Positions(line, "=") \in SUBSET Nat BY <1>5 DEF Positions
  <2>2. \A i \in Positions(line, "=") : 2 <= i BY <1>3, <1>5 DEF Positions
  <2> QED BY <1>8, <2>1, <2>2, LeastTells DEF Equals
<1>10. SubSeq(line, 1, 1) = n /\ SubSeq(line, 3, Len(line)) = v
  <2>1. /\ SubSeq(After(n, "=", v), 1, Len(n)) = n
        /\ SubSeq(After(n, "=", v), Len(n) + 2, Len(After(n, "=", v))) = v
    BY <1>2, AfterParts
  <2>2. Len(n) + 2 = 3 BY <1>2
  <2> QED BY <1>1, <1>2, <2>1, <2>2
<1>11. IsAssignment(line)
  <2>1. Head(line) = key BY <1>4, <1>5, <1>6
  <2> QED BY <1>3, <1>6, <1>7, <1>8, <2>1 DEF IsAssignment
<1>12. KeyOf(line) = n
  <2>1. Equals(line) - 1 = 1 BY <1>9
  <2> QED BY <1>7, <1>10, <2>1 DEF KeyOf
<1>13. ValueIn(line) = Unquoted(v)
  <2>1. Trim(v) = v BY TrimTight DEF Proper
  <2>2. Equals(line) + 1 = 3 BY <1>9
  <2> QED BY <1>10, <2>1, <2>2 DEF ValueIn
<1> QED BY <1>1, <1>4, <1>11, <1>12, <1>13

\* One word each.
Singles(words) == [i \in DOMAIN words |-> <<words[i]>>]
Listed(words) == Join(Singles(words), Blank)

LEMMA SinglesAre ==
  ASSUME NEW words \in Seq(Glyphs \ {Blank})
  PROVE  /\ Singles(words) \in Seq(Seq(Glyphs)) /\ Len(Singles(words)) = Len(words)
         /\ \A i \in 1 .. Len(words) : Singles(words)[i] = <<words[i]>>
         /\ Separable(Singles(words), Blank) /\ AllProper(Singles(words))
         /\ Listed(words) \in Seq(Glyphs)
         /\ words # <<>> => Proper(Listed(words))
<1>1. ASSUME NEW i \in 1 .. Len(words)
      PROVE  /\ <<words[i]>> \in Seq(Glyphs) /\ Positions(<<words[i]>>, Blank) = {}
             /\ Proper(<<words[i]>>)
  <2>1. words[i] \in Glyphs /\ words[i] # Blank OBVIOUS
  <2> QED BY <2>1 DEF Positions, Proper, Tight
<1>2. Singles(words) \in [1 .. Len(words) -> Seq(Glyphs)] BY <1>1 DEF Singles
<1>3. Singles(words) \in Seq(Seq(Glyphs)) /\ Len(Singles(words)) = Len(words)
      /\ \A i \in 1 .. Len(words) : Singles(words)[i] = <<words[i]>>
  <2>1. Len(words) \in Nat OBVIOUS
  <2>2. Singles(words) \in Seq(Seq(Glyphs)) /\ Len(Singles(words)) = Len(words)
    BY <1>2, <2>1, SequenceOf
  <2> QED BY <2>2 DEF Singles
<1>4. Separable(Singles(words), Blank) /\ AllProper(Singles(words))
  BY <1>1, <1>3 DEF Separable, AllProper
<1>5. Blank \in Glyphs BY GlyphsAre
<1>6. Listed(words) \in Seq(Glyphs) BY <1>3, <1>5, JoinType DEF Listed
<1>7. ASSUME words # <<>> PROVE Proper(Listed(words))
  <2>1. Singles(words) # <<>> BY <1>3, <1>7
  <2> QED BY <1>3, <1>4, <1>5, <2>1, JoinProper DEF Listed
<1> QED BY <1>3, <1>4, <1>6, <1>7

\* Quoted or not, the value is the words.
LEMMA Assigned ==
  ASSUME NEW key \in {"ID", "ID_LIKE"}, NEW words \in Seq(Glyphs \ {Blank}), words # <<>>,
         NEW line \in Assignments(key, words)
  PROVE  /\ line \in Seq(Glyphs) /\ IsAssignment(line) /\ KeyOf(line) = <<key>>
         /\ ValueIn(line) = Listed(words)
<1>1. PICK j : j = Listed(words) OBVIOUS
<1>2. j \in Seq(Glyphs) /\ Proper(j) BY <1>1, SinglesAre
<1>3. PICK q \in Quotes(words) : line = <<key, "=">> \o q \o j \o q
  BY <1>1 DEF Listed, Singles, Assignments
<1>4. \/ q = <<>> /\ Len(words) <= 1
      \/ \E c \in {DoubleQuote, "'"} : q = <<c>>
  <2>1. CASE Len(words) <= 1 BY <2>1 DEF Quotes
  <2>2. CASE ~(Len(words) <= 1) BY <2>2 DEF Quotes
  <2> QED BY <2>1, <2>2
<1>5. q \in Seq(Glyphs) /\ key \in Glyphs /\ "=" \in Glyphs
  <2>1. <<>> \in Seq(Glyphs) OBVIOUS
  <2>2. \A c \in {DoubleQuote, "'"} : <<c>> \in Seq(Glyphs) BY GlyphsAre
  <2> QED BY <1>4, <2>1, <2>2, GlyphsAre
<1>6. PICK v : v = q \o j \o q OBVIOUS
<1>7. v \in Seq(Glyphs) /\ q \o j \in Seq(Glyphs) BY <1>2, <1>5, <1>6
<1>8. line = After(<<key>>, "=", v)
  <2>1. PICK a : a = <<key, "=">> OBVIOUS
  <2>2. a \in Seq(Glyphs) /\ <<key>> \o <<"=">> = a BY <1>5, <2>1, JoinedShort
  <2>3. a \o q \o j \o q = a \o v
    <3>1. Then(Then(a, q), j) = Then(a, Then(q, j)) BY <1>2, <1>5, <2>2, ThenTwice
    <3>2. Then(Then(a, Then(q, j)), q) = Then(a, Then(Then(q, j), q))
      <4>1. Then(q, j) \in Seq(Glyphs) BY <1>7, Zenon DEF Then
      <4> QED BY <1>5, <2>2, <4>1, ThenTwice
    <3> QED BY <1>6, <3>1, <3>2, Zenon DEF Then
  <2> QED BY <1>3, <2>1, <2>2, <2>3 DEF After, Then
<1>9. Proper(v) /\ Unquoted(v) = j
  <2>1. CASE q = <<>> /\ Len(words) <= 1
    <3>1. v = j
      <4>1. <<>> \o j = j /\ j \o <<>> = j BY <1>2, JoinedEmpty
      <4> QED BY <1>6, <2>1, <4>1
    <3>2. Len(words) = 1 BY <2>1
    <3>3. PICK w : w = words[1] OBVIOUS
    <3>5. Singles(words) = <<<<w>>>>
      <4>1. w \in Glyphs BY <3>2, <3>3
      <4>2. PICK S, one, u : S = Seq(Glyphs) /\ one = <<<<w>>>> /\ u = Singles(words) OBVIOUS
      <4>3. one \in Seq(Seq(Glyphs)) /\ Len(one) = 1 /\ one[1] = <<w>> BY <4>1, <4>2
      <4>4. u \in Seq(Seq(Glyphs)) /\ Len(u) = 1 /\ u[1] = <<w>> BY <3>2, <3>3, <4>2, SinglesAre
      <4>5. \A i \in 1 .. 1 : i = 1 OBVIOUS
      <4>6. /\ u \in Seq(S) /\ one \in Seq(S) /\ Len(u) = Len(one)
            /\ \A i \in 1 .. Len(u) : u[i] = one[i]
        BY <4>2, <4>3, <4>4, <4>5
      <4>7. u = one BY ONLY <4>6, SameSeq
      <4> QED BY <4>2, <4>7, Zenon
    <3>4. j = <<w>>
      <4>1. w \in Glyphs /\ <<w>> \in Seq(Glyphs) BY <3>2, <3>3
      <4> QED BY <1>1, <3>5, <4>1, JoinOne, Zenon DEF Listed
    <3> QED BY <1>2, <3>1, <3>4 DEF Unquoted
  <2>2. ASSUME NEW c \in {DoubleQuote, "'"}, q = <<c>> PROVE Proper(v) /\ Unquoted(v) = j
    <3>1. PICK n : n = Len(j) OBVIOUS
    <3>2. PICK u : u = q \o j OBVIOUS
    <3>3. c \in Glyphs /\ c # Blank /\ n \in Nat BY <1>2, <3>1, GlyphsAre, GlyphsApart
    <3>4. u \in Seq(Glyphs) /\ Len(u) = 1 + n /\ u[1] = c /\ \A i \in 1 .. n : u[1 + i] = j[i]
      BY <1>2, <1>5, <2>2, <3>1, <3>2, <3>3
    <3>5. v = Append(u, c) BY <1>6, <2>2, <3>2, <3>4
    <3>6. Len(v) = n + 2 /\ v[1] = c /\ v[n + 2] = c /\ \A i \in 1 .. n : v[1 + i] = j[i]
      BY <3>3, <3>4, <3>5
    <3>7. Proper(v) BY <3>3, <3>6 DEF Proper, Tight
    <3>8. Head(v) = c /\ Last(v) = c /\ Len(v) >= 2 BY <1>7, <3>3, <3>6 DEF Last
    <3>9. SubSeq(v, 2, Len(v) - 1) = j
      <4>1. PICK m : m = SubSeq(v, 2, n + 1) OBVIOUS
      <4>2. m \in Seq(Glyphs) /\ Len(m) = n /\ \A i \in 1 .. n : m[i] = v[1 + i]
        BY <1>7, <3>3, <3>6, <4>1
      <4>3. m = j BY <1>2, <3>1, <3>6, <4>2, SameSeq
      <4>4. Len(v) - 1 = n + 1 BY <3>3, <3>6
      <4> QED BY <4>1, <4>3, <4>4
    <3> QED BY <3>7, <3>8, <3>9 DEF Unquoted
  <2> QED BY <1>4, <2>1, <2>2
<1> QED BY <1>1, <1>7, <1>8, <1>9, LineParsed

\* The value of a key that one line has, or none.
LEMMA ValueFound ==
  ASSUME NEW lines, NEW n \in Nat, DOMAIN lines = 1 .. n, NEW key, NEW p \in 1 .. n,
         IsAssignment(lines[p]), KeyOf(lines[p]) = <<key>>,
         \A i \in 1 .. n : IsAssignment(lines[i]) /\ KeyOf(lines[i]) = <<key>> => i = p
  PROVE  ValueOf(lines, key) = ValueIn(lines[p])
<1>1. PICK found : found = {i \in DOMAIN lines : IsAssignment(lines[i]) /\ KeyOf(lines[i]) = <<key>>}
  OBVIOUS
<1>2. found = {p} /\ found # {} BY <1>1
<1>3. Max(found) = p BY <1>2, GreatestTells
<1> QED BY <1>1, <1>2, <1>3 DEF ValueOf, ValueIn

LEMMA ValueMissing ==
  ASSUME NEW lines, NEW key,
         \A i \in DOMAIN lines : ~(IsAssignment(lines[i]) /\ KeyOf(lines[i]) = <<key>>)
  PROVE  ValueOf(lines, key) = <<>>
<1>1. {i \in DOMAIN lines : IsAssignment(lines[i]) /\ KeyOf(lines[i]) = <<key>>} = {} OBVIOUS
<1> QED BY <1>1 DEF ValueOf

\* Some lines among others, o of which come first.
Among(all, lines, others, o) ==
  /\ o \in Nat /\ o + Len(lines) <= Len(all) /\ DOMAIN all = 1 .. Len(all)
  /\ \A k \in 1 .. Len(lines) : all[o + k] = lines[k]
  /\ \A i \in 1 .. Len(all) :
       \/ \E k \in 1 .. Len(lines) : i = o + k
       \/ \E b \in DOMAIN others : all[i] = others[b]

LEMMA AmongOthers ==
  ASSUME NEW S, NEW others \in Seq(S), NEW lines \in Seq(S),
         NEW all, all = others \o lines \/ all = lines \o others
  PROVE  \E o \in Nat : Among(all, lines, others, o) /\ Len(all) \in Nat
<1>1. PICK n, m : n = Len(others) /\ m = Len(lines) OBVIOUS
<1>2. n \in Nat /\ m \in Nat /\ DOMAIN others = 1 .. n BY <1>1
<1>3. CASE all = others \o lines
  <2>1. /\ Len(all) = n + m /\ DOMAIN all = 1 .. n + m
        /\ \A i \in 1 .. n : all[i] = others[i]
        /\ \A k \in 1 .. m : all[n + k] = lines[k]
    BY <1>1, <1>3
  <2>2. ASSUME NEW i \in 1 .. n + m
        PROVE  (\E k \in 1 .. m : i = n + k) \/ (\E b \in DOMAIN others : all[i] = others[b])
    <3>1. CASE i <= n BY <1>2, <2>1, <3>1
    <3>2. CASE i > n
      <4>1. i - n \in 1 .. m /\ i = n + (i - n) BY <1>2, <3>2
      <4> QED BY <4>1
    <3> QED BY <1>2, <3>1, <3>2
  <2>3. n + m \in Nat /\ n + m <= n + m BY <1>2
  <2> QED BY <1>1, <1>2, <2>1, <2>2, <2>3 DEF Among
<1>4. CASE all = lines \o others
  <2>1. /\ Len(all) = m + n /\ DOMAIN all = 1 .. m + n
        /\ \A i \in 1 .. n : all[m + i] = others[i]
        /\ \A k \in 1 .. m : all[k] = lines[k]
    BY <1>1, <1>4
  <2>2. ASSUME NEW i \in 1 .. m + n
        PROVE  (\E k \in 1 .. m : i = 0 + k) \/ (\E b \in DOMAIN others : all[i] = others[b])
    <3>1. CASE i <= m
      <4>1. i \in 1 .. m /\ i = 0 + i BY <1>2, <3>1
      <4> QED BY <4>1
    <3>2. CASE i > m
      <4>1. i - m \in 1 .. n /\ i = m + (i - m) BY <1>2, <3>2
      <4> QED BY <1>2, <2>1, <4>1
    <3> QED BY <1>2, <3>1, <3>2
  <2>3. m + n \in Nat /\ 0 + m <= m + n /\ \A k \in 1 .. m : 0 + k = k BY <1>2
  <2>4. Among(all, lines, others, 0) BY <1>1, <2>1, <2>2, <2>3 DEF Among
  <2> QED BY <2>1, <2>3, <2>4
<1> QED BY <1>3, <1>4

\* A line among others that say nothing of a key gives it its value, unless
\* another line does.
Gives(line, key) == IsAssignment(line) /\ KeyOf(line) = <<key>>

\* Whatever gives a value to the key is one of the lines.
Sourced(all, lines, o, key) ==
  \A i \in 1 .. Len(all) : Gives(all[i], key) =>
    \E k \in 1 .. Len(lines) : i = o + k /\ Gives(lines[k], key)

LEMMA GivenAmong ==
  ASSUME NEW others, NEW lines, NEW all, NEW o \in Nat, Among(all, lines, others, o),
         Len(all) \in Nat, Len(lines) \in Nat, NEW key,
         \A b \in DOMAIN others : ~Gives(others[b], key)
  PROVE  Sourced(all, lines, o, key)
<1> SUFFICES ASSUME NEW i \in 1 .. Len(all), Gives(all[i], key)
             PROVE  \E k \in 1 .. Len(lines) : i = o + k /\ Gives(lines[k], key)
  BY DEF Sourced
<1>1. ~(\E b \in DOMAIN others : all[i] = others[b]) OBVIOUS
<1>2. PICK k \in 1 .. Len(lines) : i = o + k BY <1>1 DEF Among
<1>3. all[i] = lines[k] BY <1>2 DEF Among
<1> QED BY <1>2, <1>3

LEMMA ValueAmong ==
  ASSUME NEW others, NEW lines, NEW all, NEW o \in Nat, Among(all, lines, others, o),
         Len(all) \in Nat, Len(lines) \in Nat, NEW key,
         \A b \in DOMAIN others : ~Gives(others[b], key),
         NEW a \in 1 .. Len(lines), Gives(lines[a], key),
         \A k \in 1 .. Len(lines) : Gives(lines[k], key) => k = a
  PROVE  ValueOf(all, key) = ValueIn(lines[a])
<1>1. PICK p : p = o + a OBVIOUS
<1>2. all[p] = lines[a] /\ DOMAIN all = 1 .. Len(all) /\ p \in 1 .. Len(all) BY <1>1 DEF Among
<1>3. Sourced(all, lines, o, key) BY GivenAmong
<1>4. \A i \in 1 .. Len(all) : Gives(all[i], key) => i = p BY <1>1, <1>3 DEF Sourced
<1>5. IsAssignment(all[p]) /\ KeyOf(all[p]) = <<key>> BY <1>2 DEF Gives
<1>6. \A i \in 1 .. Len(all) : IsAssignment(all[i]) /\ KeyOf(all[i]) = <<key>> => i = p
  BY <1>4 DEF Gives
<1>7. ValueOf(all, key) = ValueIn(all[p]) BY <1>2, <1>5, <1>6, ValueFound
<1> QED BY <1>2, <1>7

LEMMA NoValueAmong ==
  ASSUME NEW others, NEW lines, NEW all, NEW o \in Nat, Among(all, lines, others, o),
         Len(all) \in Nat, Len(lines) \in Nat, NEW key,
         \A b \in DOMAIN others : ~Gives(others[b], key),
         \A k \in 1 .. Len(lines) : ~Gives(lines[k], key)
  PROVE  ValueOf(all, key) = <<>>
<1>1. \A i \in 1 .. Len(all) : ~Gives(all[i], key)
  <2>1. Sourced(all, lines, o, key) BY GivenAmong
  <2> QED BY <2>1 DEF Sourced
<1>2. DOMAIN all = 1 .. Len(all) BY DEF Among
<1> QED BY <1>1, <1>2, ValueMissing DEF Gives

LEMMA SeqWider ==
  ASSUME NEW A, NEW B, A \subseteq B
  PROVE  Seq(A) \subseteq Seq(B)
  OBVIOUS

\* Whatever the order and the quotes, both fields are read.
LEMMA ReleaseRead ==
  ASSUME NEW distribution, IsDistribution(distribution),
         NEW all \in ReleaseTexts(distribution, OtherLines)
  PROVE  /\ ValueOf(all, "ID") = Listed(<<distribution.id>>)
         /\ ValueOf(all, "ID_LIKE") = Listed(distribution.likes)
<1>1. PICK one, likes : one = <<distribution.id>> /\ likes = distribution.likes OBVIOUS
<1>2. /\ one \in Seq(Glyphs \ {Blank}) /\ one # <<>> /\ likes \in Seq(Glyphs \ {Blank})
      /\ "ID" # "ID_LIKE" /\ <<"ID">> # <<"ID_LIKE">>
  <2>1. distribution.id \in Glyphs \ {Blank} BY GlyphsAre DEF IsDistribution
  <2>2. likes \in Seq(Words) BY <1>1 DEF IsDistribution
  <2>3. likes \in Seq(Glyphs \ {Blank}) BY <2>2, GlyphsAre
  <2> QED BY <1>1, <2>1, <2>3, GlyphsApart
<1>3. PICK ids, both : ids = Assignments("ID", one) /\ both = Assignments("ID_LIKE", likes) OBVIOUS
<1>4. PICK others \in OtherLines, lines \in ReleaseOrders(distribution) :
        all = others \o lines \/ all = lines \o others
  <2>1. PICK orders : orders = ReleaseOrders(distribution) OBVIOUS
  <2>2. \/ \E others \in OtherLines, lines \in orders : all = others \o lines
        \/ \E others \in OtherLines, lines \in orders : all = lines \o others
    BY <2>1 DEF ReleaseTexts
  <2> QED BY <2>1, <2>2, Zenon
<1>5. /\ others \in Seq(Seq(Glyphs))
      /\ \A key \in {"ID", "ID_LIKE"} : \A b \in DOMAIN others : ~Gives(others[b], key)
  <2>1. IsOther(others) BY DistributionsAssumption
  <2>2. others \in Seq(Seq(STRING)) BY <2>1 DEF IsOther
  <2>3. Seq(Seq(STRING)) \subseteq Seq(Seq(Glyphs))
    <3>1. STRING \subseteq Glyphs BY GlyphsAre
    <3>2. Seq(STRING) \subseteq Seq(Glyphs) BY ONLY <3>1, SeqWider
    <3> QED BY ONLY <3>2, SeqWider
  <2>4. \A b \in DOMAIN others : ~Gives(others[b], "ID") /\ ~Gives(others[b], "ID_LIKE")
    BY <2>1 DEF IsOther, Gives
  <2> QED BY <2>2, <2>3, <2>4, Zenon
<1>6. ASSUME NEW id \in ids
      PROVE  id \in Seq(Glyphs) /\ Gives(id, "ID") /\ ~Gives(id, "ID_LIKE") /\ ValueIn(id) = Listed(one)
  BY <1>2, <1>3, Assigned DEF Gives
<1>7. ASSUME NEW like \in both, likes # <<>>
      PROVE  /\ like \in Seq(Glyphs) /\ Gives(like, "ID_LIKE") /\ ~Gives(like, "ID")
             /\ ValueIn(like) = Listed(likes)
  BY <1>2, <1>3, <1>7, Assigned DEF Gives
<1>8. CASE likes = <<>>
  <2>1. PICK id \in ids : lines = <<id>> BY <1>1, <1>3, <1>4, <1>8 DEF ReleaseOrders
  <2>2. lines \in Seq(Seq(Glyphs)) /\ Len(lines) = 1 /\ lines[1] = id BY <1>6, <2>1
  <2>3. PICK o \in Nat : Among(all, lines, others, o) /\ Len(all) \in Nat
    BY <1>4, <1>5, <2>2, AmongOthers, Zenon
  <2>4. /\ 1 \in 1 .. Len(lines) /\ Gives(lines[1], "ID") /\ Len(lines) \in Nat
        /\ \A k \in 1 .. Len(lines) : k = 1 /\ ~Gives(lines[k], "ID_LIKE")
    BY <1>6, <2>2
  <2>5. ValueOf(all, "ID") = ValueIn(lines[1])
    <3>1. \A b \in DOMAIN others : ~Gives(others[b], "ID") BY <1>5
    <3> QED BY ONLY <2>3, <2>4, <3>1, ValueAmong
  <2>6. ValueOf(all, "ID_LIKE") = <<>>
    <3>1. \A b \in DOMAIN others : ~Gives(others[b], "ID_LIKE") BY <1>5
    <3> QED BY ONLY <2>3, <2>4, <3>1, NoValueAmong
  <2>7. Listed(likes) = <<>>
    <3>1. Singles(<<>>) = <<>> BY DEF Singles
    <3> QED BY <1>8, <3>1, JoinEmpty DEF Listed
  <2> QED BY <1>1, <1>6, <2>2, <2>5, <2>6, <2>7
<1>9. CASE likes # <<>>
  <2>1. PICK id \in ids, like \in both : lines = <<id, like>> \/ lines = <<like, id>>
    BY <1>1, <1>3, <1>4, <1>9 DEF ReleaseOrders
  <2>2. PICK S : S = Seq(Glyphs) OBVIOUS
  <2>3. id \in S /\ like \in S BY <1>6, <1>7, <1>9, <2>2
  <2>4. PICK a, b : /\ a \in 1 .. 2 /\ b \in 1 .. 2 /\ a # b
                    /\ lines[a] = id /\ lines[b] = like
                    /\ lines \in Seq(S) /\ Len(lines) = 2
    <3>1. 1 \in 1 .. 2 /\ 2 \in 1 .. 2 /\ 1 # 2 OBVIOUS
    <3>2. CASE lines = <<id, like>>
      <4>1. lines[1] = id /\ lines[2] = like /\ lines \in Seq(S) /\ Len(lines) = 2
        BY ONLY <2>3, <3>2
      <4> QED BY <3>1, <4>1, Zenon
    <3>3. CASE lines = <<like, id>>
      <4>1. lines[2] = id /\ lines[1] = like /\ lines \in Seq(S) /\ Len(lines) = 2
        BY ONLY <2>3, <3>3
      <4> QED BY <3>1, <4>1, Zenon
    <3> QED BY <2>1, <3>2, <3>3, Zenon
  <2>5. PICK o \in Nat : Among(all, lines, others, o) /\ Len(all) \in Nat
    BY <1>4, <1>5, <2>2, <2>4, AmongOthers, Zenon
  <2>6. /\ a \in 1 .. Len(lines) /\ b \in 1 .. Len(lines) /\ Len(lines) \in Nat
        /\ \A k \in 1 .. Len(lines) : k = a \/ k = b
    BY <2>4
  <2>7. /\ Gives(lines[a], "ID") /\ ~Gives(lines[b], "ID")
        /\ Gives(lines[b], "ID_LIKE") /\ ~Gives(lines[a], "ID_LIKE")
    BY <1>6, <1>7, <1>9, <2>4, Zenon
  <2>8. /\ \A k \in 1 .. Len(lines) : Gives(lines[k], "ID") => k = a
        /\ \A k \in 1 .. Len(lines) : Gives(lines[k], "ID_LIKE") => k = b
    BY <2>6, <2>7, Zenon
  <2>9. ValueOf(all, "ID") = ValueIn(lines[a])
    <3>1. \A c \in DOMAIN others : ~Gives(others[c], "ID") BY <1>5
    <3> QED BY ONLY <2>5, <2>6, <2>7, <2>8, <3>1, ValueAmong
  <2>10. ValueOf(all, "ID_LIKE") = ValueIn(lines[b])
    <3>1. \A c \in DOMAIN others : ~Gives(others[c], "ID_LIKE") BY <1>5
    <3> QED BY ONLY <2>5, <2>6, <2>7, <2>8, <3>1, ValueAmong
  <2> QED BY <1>1, <1>6, <1>7, <1>9, <2>4, <2>9, <2>10, Zenon
<1> QED BY <1>8, <1>9

\* Lower case keeps the blanks.
LEMMA LowerCaseIs ==
  ASSUME NEW s \in Seq(Glyphs)
  PROVE  /\ LowerCase(s) \in Seq(Glyphs) /\ Len(LowerCase(s)) = Len(s)
         /\ \A i \in 1 .. Len(s) : LowerCase(s)[i] = Lowered(s[i])
         /\ Positions(LowerCase(s), Blank) = Positions(s, Blank)
<1>1. \A c \in Glyphs : Lowered(c) \in Glyphs BY GlyphsAre DEF Lowered
<1>2. PICK n : n = Len(s) OBVIOUS
<1>3. n \in Nat /\ DOMAIN s = 1 .. n /\ \A i \in 1 .. n : s[i] \in Glyphs BY <1>2
<1>4. LowerCase(s) \in [1 .. n -> Glyphs] BY <1>1, <1>3 DEF LowerCase
<1>5. LowerCase(s) \in Seq(Glyphs) /\ Len(LowerCase(s)) = n BY <1>3, <1>4, SequenceOf
<1>6. \A i \in 1 .. n : LowerCase(s)[i] = Lowered(s[i]) BY <1>3 DEF LowerCase
<1>7. \A c : Lowered(c) = Blank <=> c = Blank BY GlyphsApart DEF Lowered
<1>8. DOMAIN LowerCase(s) = 1 .. n BY <1>4
<1>9. Positions(LowerCase(s), Blank) = Positions(s, Blank) BY <1>3, <1>6, <1>7, <1>8 DEF Positions
<1> QED BY <1>2, <1>5, <1>6, <1>9

LEMMA LowerCaseOfPart ==
  ASSUME NEW s \in Seq(Glyphs), NEW a \in Nat, NEW b \in Int, 1 <= a, b <= Len(s)
  PROVE  SubSeq(LowerCase(s), a, b) = LowerCase(SubSeq(s, a, b))
<1>1. PICK t, u, l : t = LowerCase(s) /\ u = SubSeq(s, a, b) /\ l = SubSeq(t, a, b) OBVIOUS
<1>2. t \in Seq(Glyphs) /\ Len(t) = Len(s) /\ \A i \in 1 .. Len(s) : t[i] = Lowered(s[i])
  BY <1>1, LowerCaseIs
<1>3. /\ u \in Seq(Glyphs) /\ Len(u) = (IF a <= b THEN b - a + 1 ELSE 0)
      /\ \A i \in 1 .. Len(u) : u[i] = s[a + i - 1]
  BY <1>1
<1>4. /\ l \in Seq(Glyphs) /\ Len(l) = (IF a <= b THEN b - a + 1 ELSE 0)
      /\ \A i \in 1 .. Len(l) : l[i] = t[a + i - 1]
  BY <1>1, <1>2
<1>5. /\ LowerCase(u) \in Seq(Glyphs) /\ Len(LowerCase(u)) = Len(u)
      /\ \A i \in 1 .. Len(u) : LowerCase(u)[i] = Lowered(u[i])
  BY <1>3, LowerCaseIs
<1>6. \A i \in 1 .. Len(u) : a + i - 1 \in 1 .. Len(s) BY <1>3
<1>7. \A i \in 1 .. Len(u) : l[i] = LowerCase(u)[i] BY <1>2, <1>3, <1>4, <1>5, <1>6
<1>8. Len(l) = Len(u) BY <1>3, <1>4
<1>9. l = LowerCase(u) BY <1>4, <1>5, <1>7, <1>8, SameSeq
<1> QED BY <1>1, <1>9

LEMMA LowerCaseSplit ==
  ASSUME NEW s \in Seq(Glyphs)
  PROVE  /\ Split(LowerCase(s), Blank) = [k \in 1 .. Len(Split(s, Blank)) |-> LowerCase(Split(s, Blank)[k])]
         /\ Len(Split(s, Blank)) \in Nat
<1>1. PICK t, places : t = LowerCase(s) /\ places = Positions(s, Blank) OBVIOUS
<1>2. t \in Seq(Glyphs) /\ Len(t) = Len(s) /\ Positions(t, Blank) = places BY <1>1, LowerCaseIs
<1>3. places \in SUBSET (1 .. Len(s)) BY <1>1, PositionsType
<1>4. PICK c, m : c = Cuts(s, places) /\ m = Cardinality(c) - 1 OBVIOUS
<1>5. c \in SUBSET (0 .. Len(s) + 1) /\ IsFiniteSet(c) /\ m \in Nat BY <1>3, <1>4, CutsType
<1>6. Cuts(t, places) = c BY <1>2, <1>4 DEF Cuts
<1>7. SplitAt(s, places) = [k \in 1 .. m |-> SubSeq(s, Nth(c, k - 1) + 1, Nth(c, k) - 1)]
  BY <1>4, SplitAtIs, Zenon
<1>8. SplitAt(t, places) = [k \in 1 .. m |-> SubSeq(t, Nth(c, k - 1) + 1, Nth(c, k) - 1)]
  BY <1>4, <1>6, SplitAtIs, Zenon
<1>9. Len(SplitAt(s, places)) = m BY <1>3, <1>4, SplitAtType
<1>10. ASSUME NEW k \in 1 .. m
       PROVE  SubSeq(t, Nth(c, k - 1) + 1, Nth(c, k) - 1)
                = LowerCase(SubSeq(s, Nth(c, k - 1) + 1, Nth(c, k) - 1))
  <2>1. k - 1 \in 0 .. Cardinality(c) - 1 /\ k \in 0 .. Cardinality(c) - 1 BY <1>4, <1>5
  <2>2. c \in SUBSET Nat BY <1>5
  <2>3. Nth(c, k - 1) \in c /\ Nth(c, k) \in c BY <1>5, <2>1, <2>2, NthType
  <2>4. PICK a, b : a = Nth(c, k - 1) + 1 /\ b = Nth(c, k) - 1 OBVIOUS
  <2>5. a \in Nat /\ 1 <= a /\ b \in Int /\ b <= Len(s)
    <3>1. PICK x, y, n : x = Nth(c, k - 1) /\ y = Nth(c, k) /\ n = Len(s) OBVIOUS
    <3>2. x \in 0 .. n + 1 /\ y \in 0 .. n + 1 /\ n \in Nat
      <4>1. n \in Nat BY <3>1
      <4>2. c \subseteq 0 .. n + 1 BY <1>5, <3>1
      <4> QED BY <2>3, <3>1, <4>1, <4>2, Zenon
    <3>3. a = x + 1 /\ b = y - 1 BY <2>4, <3>1
    <3> QED BY ONLY <3>1, <3>2, <3>3
  <2>6. SubSeq(t, a, b) = LowerCase(SubSeq(s, a, b)) BY <1>1, <2>5, LowerCaseOfPart
  <2> QED BY <2>4, <2>6
<1>11. SplitAt(t, places) = [k \in 1 .. m |-> LowerCase(SplitAt(s, places)[k])]
  <2>1. \A k \in 1 .. m : SplitAt(s, places)[k] = SubSeq(s, Nth(c, k - 1) + 1, Nth(c, k) - 1)
    BY <1>7, Zenon
  <2> QED BY <1>8, <1>10, <2>1, Zenon
<1> QED BY <1>1, <1>2, <1>5, <1>9, <1>11, SplitIsAt, Zenon

\* The words of a field, in lower case.
InLowerCase(words) == {Lowered(words[i]) : i \in 1 .. Len(words)}

LEMMA FieldFound ==
  ASSUME NEW words \in Seq(Glyphs \ {Blank}), NEW name
  PROVE  (\E word \in Range(Split(LowerCase(Listed(words)), Blank)) : word = <<name>>)
           <=> name \in InLowerCase(words)
<1>1. PICK j, pieces : j = Listed(words) /\ pieces = Split(j, Blank) OBVIOUS
<1>2. j \in Seq(Glyphs) BY <1>1, SinglesAre
<1>3. /\ Split(LowerCase(j), Blank) = [k \in 1 .. Len(pieces) |-> LowerCase(pieces[k])]
      /\ Len(pieces) \in Nat
  BY <1>1, <1>2, LowerCaseSplit
<1>4. Range(Split(LowerCase(j), Blank)) = {LowerCase(pieces[k]) : k \in 1 .. Len(pieces)}
  BY <1>3 DEF Range
<1>5. CASE words = <<>>
  <2>1. Singles(words) = <<>> BY <1>5 DEF Singles
  <2>2. j = <<>> BY <1>1, <2>1, JoinEmpty DEF Listed
  <2>3. Positions(j, Blank) = {} BY <2>2 DEF Positions
  <2>4. pieces = <<j>> BY <1>1, <1>2, <2>3, SplitIsAt, SplitWhole
  <2>5. Len(pieces) = 1 /\ pieces[1] = <<>> BY <2>2, <2>4
  <2>6. LowerCase(<<>>) = <<>> BY DEF LowerCase
  <2>7. \A word \in Range(Split(LowerCase(j), Blank)) : word = <<>> BY <1>4, <2>5, <2>6
  <2>8. <<name>> # <<>> OBVIOUS
  <2>9. InLowerCase(words) = {} BY <1>5 DEF InLowerCase
  <2> QED BY <1>1, <2>7, <2>8, <2>9
<1>6. CASE words # <<>>
  <2>1. Singles(words) # <<>> /\ Blank \in Glyphs BY <1>6, SinglesAre, GlyphsAre
  <2>2. pieces = Singles(words) BY <1>1, <2>1, SinglesAre, SplitJoin DEF Listed
  <2>3. Len(pieces) = Len(words) /\ \A k \in 1 .. Len(words) : pieces[k] = <<words[k]>>
    BY <2>2, SinglesAre
  <2>4. ASSUME NEW k \in 1 .. Len(words) PROVE LowerCase(pieces[k]) = <<Lowered(words[k])>>
    <3>1. \A x : LowerCase(<<x>>) = <<Lowered(x)>> BY DEF LowerCase
    <3> QED BY <2>3, <3>1
  <2>5. Range(Split(LowerCase(j), Blank)) = {<<Lowered(words[k])>> : k \in 1 .. Len(words)}
    BY <1>4, <2>3, <2>4
  <2>6. \A x, y : <<x>> = <<y>> <=> x = y OBVIOUS
  <2> QED
    <3>1. PICK found : found = Range(Split(LowerCase(j), Blank)) OBVIOUS
    <3>2. ASSUME NEW k \in 1 .. Len(words), <<Lowered(words[k])>> = <<name>>
          PROVE  name \in InLowerCase(words)
      BY <2>6, <3>2 DEF InLowerCase
    <3>3. ASSUME name \in InLowerCase(words) PROVE <<name>> \in found
      <4>1. PICK k \in 1 .. Len(words) : name = Lowered(words[k]) BY <3>3 DEF InLowerCase
      <4> QED BY <2>5, <3>1, <4>1
    <3>4. ASSUME NEW word \in found, word = <<name>> PROVE name \in InLowerCase(words)
      <4>1. PICK k \in 1 .. Len(words) : word = <<Lowered(words[k])>> BY <2>5, <3>1
      <4> QED BY <3>2, <3>4, <4>1
    <3> QED BY <1>1, <3>1, <3>3, <3>4, Zenon
<1> QED BY <1>5, <1>6

LEMMA DistroMatches ==
  ASSUME NEW one \in Seq(Glyphs \ {Blank}), NEW likes \in Seq(Glyphs \ {Blank}), NEW names,
         NEW details, details.id = LowerCase(Listed(one)), details.idLike = LowerCase(Listed(likes))
  PROVE  MatchesDistro(details, names)
           <=> names \cap (InLowerCase(one) \cup InLowerCase(likes)) # {}
<1>1. MatchesDistro(details, names) <=>
        \E name \in names :
          \/ \E word \in Range(Split(details.id, Blank)) : word = <<name>>
          \/ \E word \in Range(Split(details.idLike, Blank)) : word = <<name>>
  BY DEF MatchesDistro
<1>2. \A name : (\E word \in Range(Split(details.id, Blank)) : word = <<name>>)
                  <=> name \in InLowerCase(one)
  BY FieldFound
<1>3. \A name : (\E word \in Range(Split(details.idLike, Blank)) : word = <<name>>)
                  <=> name \in InLowerCase(likes)
  BY FieldFound
<1> QED BY <1>1, <1>2, <1>3

--------
(* The guidance of the install hook *)

\* What the hook finds out about a system.
SystemOf(distribution, release) ==
  [platform |-> distribution.platform, alpineRelease |-> distribution.alpineRelease,
   osRelease |-> release]

\* The families that the words of both fields name.
FamiliesOf(words) == {k \in DOMAIN Families : Families[k] \cap words # {}}

LEMMA FamilyIs ==
  ASSUME NEW system, NEW one \in Seq(Glyphs \ {Blank}), NEW likes \in Seq(Glyphs \ {Blank}),
         DetectLinuxDistro(system) = [id     |-> LowerCase(Listed(one)),
                                      idLike |-> LowerCase(Listed(likes))]
  PROVE  LET matching == FamiliesOf(InLowerCase(one) \cup InLowerCase(likes))
         IN Family(system) = IF matching = {} THEN 0 ELSE Min(matching)
<1>1. PICK details : details = DetectLinuxDistro(system) OBVIOUS
<1>2. details.id = LowerCase(Listed(one)) /\ details.idLike = LowerCase(Listed(likes)) BY <1>1
<1>3. \A names : MatchesDistro(details, names)
                   <=> names \cap (InLowerCase(one) \cup InLowerCase(likes)) # {}
  BY <1>2, DistroMatches
<1>4. {k \in DOMAIN Families : MatchesDistro(details, Families[k])}
        = FamiliesOf(InLowerCase(one) \cup InLowerCase(likes))
  BY <1>3 DEF FamiliesOf
<1> QED BY <1>1, <1>4 DEF Family

LEMMA FamiliesType ==
  ASSUME NEW words
  PROVE  /\ FamiliesOf(words) \in SUBSET (1 .. 3)
         /\ FamiliesOf(words) # {} => Min(FamiliesOf(words)) \in FamiliesOf(words)
<1>1. DOMAIN Families = 1 .. 3 BY DEF Families
<1>2. FamiliesOf(words) \in SUBSET (1 .. 3) BY <1>1 DEF FamiliesOf
<1>3. IsFiniteSet(1 .. 3) /\ FamiliesOf(words) \in SUBSET Nat
  <2>1. IsFiniteSet(1 .. 3) /\ (1 .. 3) \in SUBSET Nat BY UpTo
  <2> QED BY <1>2, <2>1, Zenon
<1>4. IsFiniteSet(FamiliesOf(words)) BY <1>2, <1>3, FS_Subset
<1> QED BY <1>2, <1>3, <1>4, LeastIs

\* The first line that is printed.
LEMMA CommandsFirst ==
  ASSUME NEW system, NEW includeGssapi \in BOOLEAN,
         system.platform = "linux" => Family(system) \in 0 .. 3
  PROVE  Head(FormatInstallGuidance(system, includeGssapi))
           = PlatformInstallGuidance(system).commands
<1>1. PICK guidance : guidance = PlatformInstallGuidance(system) OBVIOUS
<1>2. PICK m, n : guidance.notes = <<>> \/ guidance.notes = <<m>> \/ guidance.notes = <<m, n>>
  <2>1. CASE system.platform = "darwin" BY <1>1, <2>1, Zenon DEF PlatformInstallGuidance
  <2>2. CASE system.platform = "win32" BY <1>1, <2>2, Zenon DEF PlatformInstallGuidance
  <2>3. CASE system.platform = "linux" BY <1>1, <2>3, Zenon DEF PlatformInstallGuidance
  <2>4. CASE system.platform \notin {"darwin", "win32", "linux"}
    BY <1>1, <2>4, Zenon DEF PlatformInstallGuidance
  <2> QED BY <2>1, <2>2, <2>3, <2>4
<1>3. PICK gssapi : gssapi = IF system.platform = "win32" THEN "security stack" ELSE "sasl plugin"
  BY Zenon
<1>4. PICK middle : middle = IF includeGssapi THEN <<gssapi>> ELSE <<>> OBVIOUS
<1>5. PICK S : S = {guidance.commands, gssapi, m, n} OBVIOUS
<1>6. middle \in Seq(S) /\ <<guidance.commands>> \in Seq(S) /\ guidance.notes \in Seq(S)
  <2>1. guidance.commands \in S /\ gssapi \in S /\ m \in S /\ n \in S BY <1>5
  <2>2. /\ <<>> \in Seq(S) /\ <<guidance.commands>> \in Seq(S) /\ <<gssapi>> \in Seq(S)
        /\ <<m>> \in Seq(S) /\ <<m, n>> \in Seq(S)
    BY ONLY <2>1
  <2> QED BY <1>2, <1>4, <2>2, Zenon
<1>7. FormatInstallGuidance(system, includeGssapi) = <<guidance.commands>> \o middle \o guidance.notes
  BY <1>1, <1>3, <1>4, Zenon DEF FormatInstallGuidance
<1>8. PICK c, first : c = guidance.commands /\ first = <<guidance.commands>> \o middle OBVIOUS
<1>9. first \in Seq(S) /\ Len(first) >= 1 /\ first[1] = c BY <1>6, <1>8
<1>10. Head(first \o guidance.notes) = c BY <1>6, <1>9
<1> QED BY <1>1, <1>7, <1>8, <1>10

LEMMA GuidanceFits ==
  ASSUME NEW distribution \in Distributions,
         NEW release \in {Unreadable} \cup ReleaseTexts(distribution, OtherLines),
         NEW includeGssapi \in BOOLEAN
  PROVE  Head(FormatInstallGuidance(SystemOf(distribution, release), includeGssapi))
           = IF NeedsRelease(distribution) /\ release = Unreadable THEN "packages"
             ELSE distribution.manager
<1>1. PICK system : system = SystemOf(distribution, release) OBVIOUS
<1>2. /\ system.platform = distribution.platform /\ system.osRelease = release
      /\ system.alpineRelease = distribution.alpineRelease
  BY <1>1 DEF SystemOf
<1>3. IsDistribution(distribution) /\ distribution.manager = ManagerOf(distribution)
  BY DistributionsAssumption DEF IsDistribution
<1>4. CASE distribution.platform # "linux"
  <2>1. Head(FormatInstallGuidance(system, includeGssapi)) = PlatformInstallGuidance(system).commands
    BY <1>2, <1>4, CommandsFirst
  <2>2. ~NeedsRelease(distribution) BY <1>4 DEF NeedsRelease
  <2>3. PlatformInstallGuidance(system).commands = ManagerOf(distribution)
    <3>1. CASE distribution.platform = "darwin"
      BY <1>2, <3>1, Zenon DEF PlatformInstallGuidance, ManagerOf
    <3>2. CASE distribution.platform = "win32"
      BY <1>2, <3>2, Zenon DEF PlatformInstallGuidance, ManagerOf
    <3>3. CASE distribution.platform \notin {"darwin", "win32"}
      BY <1>2, <1>4, <3>3, Zenon DEF PlatformInstallGuidance, ManagerOf
    <3> QED BY <3>1, <3>2, <3>3
  <2> QED BY <1>1, <1>3, <2>1, <2>2, <2>3
<1>5. CASE distribution.platform = "linux"
  <2>1. PICK one, likes :
          /\ one = IF distribution.alpineRelease THEN <<"alpine">>
                   ELSE IF release = Unreadable THEN <<>> ELSE <<distribution.id>>
          /\ likes = IF distribution.alpineRelease \/ release = Unreadable THEN <<>>
                     ELSE distribution.likes
    OBVIOUS
  <2>2. one \in Seq(Glyphs \ {Blank}) /\ likes \in Seq(Glyphs \ {Blank})
    <3>1. distribution.id \in Glyphs \ {Blank} /\ "alpine" \in Glyphs \ {Blank}
      BY <1>3, GlyphsAre, GlyphsApart DEF IsDistribution
    <3>2. distribution.likes \in Seq(Glyphs \ {Blank})
      <4>1. Seq(Words) \subseteq Seq(Glyphs \ {Blank}) BY GlyphsAre, SeqWider
      <4> QED BY <1>3, <4>1 DEF IsDistribution
    <3>3. PICK A : A = Glyphs \ {Blank} OBVIOUS
    <3>4. <<>> \in Seq(A) /\ \A x \in A : <<x>> \in Seq(A) OBVIOUS
    <3> QED BY <2>1, <3>1, <3>2, <3>3, <3>4, Zenon
  <2>3. Singles(<<>>) = <<>> /\ Listed(<<>>) = <<>> /\ LowerCase(<<>>) = <<>>
    BY JoinEmpty DEF Singles, LowerCase, Listed
  <2>4. DetectLinuxDistro(system)
          = [id |-> LowerCase(Listed(one)), idLike |-> LowerCase(Listed(likes))]
    <3>1. CASE distribution.alpineRelease
      <4>1. one = <<"alpine">> /\ likes = <<>> BY <2>1, <3>1
      <4>2. Listed(one) = <<"alpine">>
        <5>1. Singles(<<"alpine">>) = <<<<"alpine">>>> BY DEF Singles
        <5>2. <<"alpine">> \in Seq({"alpine"}) OBVIOUS
        <5> QED BY <4>1, <5>1, <5>2, JoinOne DEF Listed
      <4>3. LowerCase(<<"alpine">>) = <<"alpine">> BY GlyphsApart DEF LowerCase, Lowered
      <4> QED BY <1>2, <2>3, <3>1, <4>1, <4>2, <4>3 DEF DetectLinuxDistro
    <3>2. CASE ~distribution.alpineRelease /\ release = Unreadable
      <4>1. one = <<>> /\ likes = <<>> BY <2>1, <3>2
      <4>2. \A key : ValueOf(release, key) = <<>>
        <5>1. DOMAIN release = {} BY <3>2 DEF Unreadable
        <5> QED BY <5>1, ValueMissing
      <4> QED BY <1>2, <2>3, <3>2, <4>1, <4>2 DEF DetectLinuxDistro
    <3>3. CASE ~distribution.alpineRelease /\ release # Unreadable
      <4>1. one = <<distribution.id>> /\ likes = distribution.likes BY <2>1, <3>3
      <4>2. ValueOf(release, "ID") = Listed(one) /\ ValueOf(release, "ID_LIKE") = Listed(likes)
        BY <3>3, <1>3, <4>1, ReleaseRead
      <4> QED BY <1>2, <3>3, <4>2 DEF DetectLinuxDistro
    <3> QED BY <3>1, <3>2, <3>3
  <2>5. PICK words, matching : /\ words = InLowerCase(one) \cup InLowerCase(likes)
                               /\ matching = FamiliesOf(words)
    OBVIOUS
  <2>6. Family(system) = IF matching = {} THEN 0 ELSE Min(matching) BY <2>2, <2>4, <2>5, FamilyIs
  <2>7. matching \in SUBSET (1 .. 3) /\ (matching # {} => Min(matching) \in 1 .. 3)
    BY <2>5, FamiliesType
  <2>8. Family(system) \in 0 .. 3 BY <2>6, <2>7
  <2>9. Head(FormatInstallGuidance(system, includeGssapi))
          = <<"packages", "apk", "apt-get", "dnf">>[Family(system) + 1]
    <3>1. Head(FormatInstallGuidance(system, includeGssapi)) = PlatformInstallGuidance(system).commands
      BY <2>8, CommandsFirst
    <3> QED BY <1>2, <1>5, <3>1, Zenon DEF PlatformInstallGuidance
  <2>10. CASE distribution.alpineRelease
    <3>1. words = {"alpine"}
      <4>1. one = <<"alpine">> /\ likes = <<>> BY <2>1, <2>10
      <4>2. Lowered("alpine") = "alpine" BY GlyphsApart DEF Lowered
      <4>3. InLowerCase(<<"alpine">>) = {"alpine"} /\ InLowerCase(<<>>) = {} BY <4>2 DEF InLowerCase
      <4> QED BY <2>5, <4>1, <4>3
    <3>2. 1 \in matching BY <2>5, <3>1 DEF FamiliesOf, Families
    <3>3. Min(matching) = 1
      <4>1. matching \in SUBSET Nat /\ 1 \in matching /\ \A y \in matching : 1 <= y BY <2>7, <3>2
      <4>2. PICK S \in SUBSET Nat : S = matching BY <4>1
      <4>3. PICK e \in S : e = 1 /\ \A y \in S : e <= y BY <4>1, <4>2
      <4>4. Min(S) = e BY <4>3, LeastTells
      <4> QED BY <4>2, <4>3, <4>4
    <3>4. ManagerOf(distribution) = "apk"
      BY <1>5, <2>10, Zenon DEF LinuxManager, ManagerOf
    <3>5. ~NeedsRelease(distribution) BY <2>10 DEF NeedsRelease
    <3> QED BY <1>1, <1>3, <2>6, <2>9, <3>2, <3>3, <3>4, <3>5
  <2>11. CASE ~distribution.alpineRelease /\ release = Unreadable
    <3>1. words = {} BY <2>1, <2>5, <2>11 DEF InLowerCase
    <3>2. matching = {} BY <2>5, <3>1 DEF FamiliesOf
    <3>3. NeedsRelease(distribution) BY <1>5, <2>11 DEF NeedsRelease
    <3> QED BY <1>1, <2>6, <2>9, <2>11, <3>2, <3>3
  <2>12. CASE ~distribution.alpineRelease /\ release # Unreadable
    <3>1. words = KnownAs(distribution)
      <4>1. one = <<distribution.id>> /\ likes = distribution.likes BY <2>1, <2>12
      <4>2. InLowerCase(one) = {Lowered(distribution.id)} BY <4>1 DEF InLowerCase
      <4>3. likes \in Seq(Words) BY <1>3, <4>1 DEF IsDistribution
      <4>4. Range(likes) = {likes[i] : i \in 1 .. Len(likes)} BY <4>3 DEF Range
      <4>5. InLowerCase(likes) = {Lowered(word) : word \in Range(likes)} BY <4>4 DEF InLowerCase
      <4> QED BY <2>5, <4>1, <4>2, <4>5 DEF KnownAs
    <3>2. {k \in DOMAIN Families : Families[k] \cap KnownAs(distribution) # {}} = matching
      BY <2>5, <3>1 DEF FamiliesOf
    <3>3. ManagerOf(distribution)
            = IF matching = {} THEN "packages" ELSE <<"apk", "apt-get", "dnf">>[Min(matching)]
      <4>1. LinuxManager(distribution)
              = IF matching = {} THEN "packages" ELSE <<"apk", "apt-get", "dnf">>[Min(matching)]
        BY <2>12, <3>2, Zenon DEF LinuxManager
      <4> QED BY <1>5, <4>1, Zenon DEF ManagerOf
    <3>4. \A k \in 1 .. 3 : <<"packages", "apk", "apt-get", "dnf">>[k + 1] = <<"apk", "apt-get", "dnf">>[k]
      OBVIOUS
    <3> QED BY <1>1, <1>3, <2>6, <2>7, <2>9, <2>12, <3>3, <3>4
  <2> QED BY <2>10, <2>11, <2>12
<1> QED BY <1>4, <1>5

GuidanceInv ==
  codec = "guidance" =>
    /\ source \in Distributions
    /\ text # NotYet => text \in {Unreadable} \cup ReleaseTexts(source, OtherLines)
    /\ back # NotYet =>
         /\ text # NotYet
         /\ \E includeGssapi \in BOOLEAN :
              back = FormatInstallGuidance(SystemOf(source, text), includeGssapi)

\* Whatever distributions there are, whichever keys their os-release has besides
\* and however it is written: getPlatformInstallGuidance names the package
\* manager of the first family that the distribution or a relative belongs to.
THEOREM GuidanceIsRight == ConversionsSpec => []GuidanceFitsTheSystem
<1>1. ConversionsInit => GuidanceInv BY DEF ConversionsInit, GuidanceInv
<1>2. GuidanceInv /\ [ConversionsNext]_textVars => GuidanceInv'
  <2>1. SUFFICES ASSUME GuidanceInv, [ConversionsNext]_textVars, codec = "guidance" PROVE GuidanceInv'
    BY Steps DEF textVars, GuidanceInv
  <2>2. CASE UNCHANGED textVars BY <2>1, <2>2 DEF textVars, GuidanceInv
  <2>3. CASE InstallRelease BY <2>1, <2>3 DEF InstallRelease, Writes, GuidanceInv
  <2>4. CASE PrintGuidance BY <2>1, <2>4 DEF PrintGuidance, Reads, GuidanceInv, SystemOf
  <2> QED BY <2>1, <2>2, <2>3, <2>4, Steps
<1>3. GuidanceInv => GuidanceFitsTheSystem
  <2>1. SUFFICES ASSUME GuidanceInv, codec = "guidance", back # NotYet
                 PROVE  Head(back) = IF NeedsRelease(source) /\ text = Unreadable THEN "packages"
                                     ELSE source.manager
    BY DEF GuidanceFitsTheSystem
  <2>2. /\ source \in Distributions
        /\ text \in {Unreadable} \cup ReleaseTexts(source, OtherLines)
    BY <2>1 DEF GuidanceInv
  <2>3. PICK includeGssapi \in BOOLEAN :
          back = FormatInstallGuidance(SystemOf(source, text), includeGssapi)
    BY <2>1 DEF GuidanceInv
  <2> QED BY <2>2, <2>3, GuidanceFits
<1> QED BY <1>1, <1>2, <1>3, PTL DEF ConversionsSpec

--------
(* The recursive functions of FilterText are what their equations say *)

\* A recursive function satisfies its equation only if some function does: here
\* the levels built one on the other.
LEMMA FiltersExist ==
  Filters = [n \in Nat |->
               IF n = 0 THEN ItemFilters
               ELSE ItemFilters \cup [type : {"&", "|"}, filters : Seq(Filters[n - 1])]
                                \cup [type : {"!"}, filter : Filters[n - 1]]]
<1> DEFINE Level(S) == ItemFilters \cup [type : {"&", "|"}, filters : Seq(S)]
                                   \cup [type : {"!"}, filter : S]
           UpToLevel(h, n) == /\ h[0] = ItemFilters
                              /\ \A k \in 0 .. n - 1 : h[k + 1] = Level(h[k])
           H(n) == CHOOSE h : UpToLevel(h, n)
           f == [n \in Nat |-> H(n)[n]]
<1>1. \A n \in Nat : \E h : UpToLevel(h, n)
  <2> DEFINE S == {n \in Nat : \E h : UpToLevel(h, n)}
  <2>1. 0 \in S
    <3>1. UpToLevel([k \in {0} |-> ItemFilters], 0) BY DEF UpToLevel
    <3> HIDE DEF UpToLevel
    <3> QED BY <3>1
  <2>2. ASSUME NEW n \in Nat, n \in S PROVE n + 1 \in S
    <3>1. PICK h : UpToLevel(h, n) BY <2>2
    <3> DEFINE g == [k \in 0 .. n + 1 |-> IF k <= n THEN h[k] ELSE Level(h[n])]
    <3>2. g[0] = ItemFilters BY <3>1
    <3>3. ASSUME NEW k \in 0 .. n PROVE g[k + 1] = Level(g[k])
      <4>1. g[k] = h[k] OBVIOUS
      <4>2. CASE k < n BY <4>2, <3>1, <4>1
      <4>3. CASE k = n BY <4>1, <4>3
      <4> QED BY <4>2, <4>3
    <3>4. UpToLevel(g, n + 1)
      <4> HIDE DEF g, Level
      <4> QED BY <3>2, <3>3
    <3> HIDE DEF UpToLevel
    <3> QED BY <3>4
  <2> HIDE DEF S
  <2>3. \A n \in Nat : n \in S BY <2>1, <2>2, Induction
  <2> QED BY <2>3 DEF S
<1> HIDE DEF Level
<1>2. ASSUME NEW n \in Nat, NEW g, NEW h, UpToLevel(g, n), UpToLevel(h, n + 1) PROVE g[n] = h[n]
  <2> DEFINE S == {k \in Nat : k <= n => g[k] = h[k]}
  <2>1. 0 \in S BY <1>2
  <2>2. ASSUME NEW k \in Nat, k \in S PROVE k + 1 \in S
    <3>1. SUFFICES ASSUME k + 1 <= n PROVE g[k + 1] = h[k + 1] OBVIOUS
    <3>2. k \in 0 .. n - 1 /\ k \in 0 .. (n + 1) - 1 /\ g[k] = h[k] BY <2>2, <3>1
    <3> QED BY <1>2, <3>2
  <2>3. n \in S
    <3> HIDE DEF S
    <3> QED BY <2>1, <2>2, Induction
  <2> QED BY <2>3
<1>3. \A n \in Nat : UpToLevel(H(n), n)
  <2> HIDE DEF UpToLevel
  <2> QED BY <1>1
<1>4. f = [n \in Nat |-> IF n = 0 THEN ItemFilters ELSE Level(f[n - 1])]
  <2>1. f[0] = ItemFilters BY <1>3
  <2>2. ASSUME NEW n \in Nat, n # 0 PROVE f[n] = Level(f[n - 1])
    <3>1. PICK m \in Nat : n = m + 1 BY <2>2
    <3>2. H(n)[m + 1] = Level(H(n)[m])
      <4>1. UpToLevel(H(n), n) /\ m \in 0 .. n - 1 BY <1>3, <3>1
      <4> QED BY <4>1
    <3>3. H(m)[m] = H(n)[m]
      <4>1. UpToLevel(H(m), m) /\ UpToLevel(H(n), m + 1) BY <1>3, <3>1
      <4> HIDE DEF UpToLevel, H
      <4> QED BY <1>2, <4>1
    <3>4. f[n] = H(n)[n] /\ f[n - 1] = H(m)[m] BY <3>1
    <3> QED BY <3>1, <3>2, <3>3, <3>4
  <2> HIDE DEF f
  <2>3. \A n \in Nat : f[n] = IF n = 0 THEN ItemFilters ELSE Level(f[n - 1]) BY <2>1, <2>2
  <2>4. f = [n \in Nat |-> f[n]] BY DEF f
  <2> QED BY <2>3, <2>4, Zenon
<1> HIDE DEF f
<1> QED BY <1>4 DEF Filters, Level

\* A level adds groups and negations of the one below.
LEMMA FiltersAre ==
  /\ Filters[0] = ItemFilters
  /\ \A n \in Nat : Filters[n + 1] = ItemFilters \cup [type : {"&", "|"}, filters : Seq(Filters[n])]
                                                 \cup [type : {"!"}, filter : Filters[n]]
<1>1. ASSUME NEW n \in Nat
      PROVE  Filters[n + 1] = ItemFilters \cup [type : {"&", "|"}, filters : Seq(Filters[n])]
                                          \cup [type : {"!"}, filter : Filters[n]]
  <2>1. n + 1 \in Nat /\ n + 1 # 0 /\ (n + 1) - 1 = n OBVIOUS
  <2> QED BY <2>1, FiltersExist
<1> QED BY <1>1, FiltersExist

\* What the text of a filter is, when t are those of the filters in it.
TextWith(t, f) ==
  <<"(">> \o
  (CASE f.type \in {"&", "|"} ->
          <<f.type>> \o FlattenSeq([i \in DOMAIN f.filters |-> t[f.filters[i]]])
     [] f.type = "!"          -> <<"!">> \o t[f.filter]
     [] OTHER                 -> ItemText(f))
  \o <<")">>

LEMMA ItemTypes ==
  ASSUME NEW f \in ItemFilters
  PROVE  f.type \in {"match", "present", "substring", "extensible"}
  BY DEF ItemFilters, MatchFilters, PresenceFilters, SubstringFilters, ExtensibleFilters

LEMMA TextOfItem ==
  ASSUME NEW f \in ItemFilters, NEW t
  PROVE  TextWith(t, f) = <<"(">> \o ItemText(f) \o <<")">>
<1>1. f.type \notin {"&", "|"} /\ f.type # "!" BY ItemTypes
<1> QED BY <1>1, Zenon DEF TextWith

\* The texts of a level are made from those of the level below.
LEMMA FilterTextsExist ==
  FilterTexts = [n \in Nat |-> [f \in Filters[n] |-> TextWith(FilterTexts[n - 1], f)]]
<1> DEFINE Level(t, n) == [f \in Filters[n] |-> TextWith(t, f)]
           UpToLevel(h, n) == /\ h[0] = Level(<<>>, 0)
                              /\ \A k \in 0 .. n - 1 : h[k + 1] = Level(h[k], k + 1)
           H(n) == CHOOSE h : UpToLevel(h, n)
           g == [n \in Nat |-> H(n)[n]]
<1>1. \A n \in Nat : \E h : UpToLevel(h, n)
  <2> HIDE DEF Level
  <2> DEFINE S == {n \in Nat : \E h : UpToLevel(h, n)}
  <2>1. 0 \in S
    <3>1. UpToLevel([k \in {0} |-> Level(<<>>, 0)], 0) BY DEF UpToLevel
    <3> HIDE DEF UpToLevel
    <3> QED BY <3>1
  <2>2. ASSUME NEW n \in Nat, n \in S PROVE n + 1 \in S
    <3>1. PICK h : UpToLevel(h, n) BY <2>2
    <3> DEFINE e == [k \in 0 .. n + 1 |-> IF k <= n THEN h[k] ELSE Level(h[n], n + 1)]
    <3>2. e[0] = Level(<<>>, 0) BY <3>1
    <3>3. ASSUME NEW k \in 0 .. n PROVE e[k + 1] = Level(e[k], k + 1)
      <4>1. e[k] = h[k] OBVIOUS
      <4>2. CASE k < n BY <4>2, <3>1, <4>1
      <4>3. CASE k = n BY <4>1, <4>3
      <4> QED BY <4>2, <4>3
    <3>4. UpToLevel(e, n + 1)
      <4> HIDE DEF e
      <4> QED BY <3>2, <3>3
    <3> HIDE DEF UpToLevel
    <3> QED BY <3>4
  <2> HIDE DEF S
  <2>3. \A n \in Nat : n \in S BY <2>1, <2>2, Induction
  <2> QED BY <2>3 DEF S
<1>2. \A t, u : Level(t, 0) = Level(u, 0)
  <2>1. ASSUME NEW t, NEW u, NEW f \in Filters[0] PROVE TextWith(t, f) = TextWith(u, f)
    BY FiltersAre, TextOfItem, Zenon
  <2> QED BY <2>1, Zenon
<1> HIDE DEF Level
<1>3. ASSUME NEW n \in Nat, NEW d, NEW h, UpToLevel(d, n), UpToLevel(h, n + 1) PROVE d[n] = h[n]
  <2> DEFINE S == {k \in Nat : k <= n => d[k] = h[k]}
  <2>1. 0 \in S BY <1>3
  <2>2. ASSUME NEW k \in Nat, k \in S PROVE k + 1 \in S
    <3>1. SUFFICES ASSUME k + 1 <= n PROVE d[k + 1] = h[k + 1] OBVIOUS
    <3>2. k \in 0 .. n - 1 /\ k \in 0 .. (n + 1) - 1 /\ d[k] = h[k] BY <2>2, <3>1
    <3> QED BY <1>3, <3>2
  <2>3. n \in S
    <3> HIDE DEF S
    <3> QED BY <2>1, <2>2, Induction
  <2> QED BY <2>3
<1>4. \A n \in Nat : UpToLevel(H(n), n)
  <2> HIDE DEF UpToLevel
  <2> QED BY <1>1
<1>5. g = [n \in Nat |-> Level(g[n - 1], n)]
  <2>1. g[0] = Level(g[0 - 1], 0)
    <3>1. g[0] = Level(<<>>, 0) BY <1>4
    <3> QED BY <1>2, <3>1, Zenon
  <2>2. ASSUME NEW n \in Nat, n # 0 PROVE g[n] = Level(g[n - 1], n)
    <3>1. PICK m \in Nat : n = m + 1 BY <2>2
    <3>2. H(n)[m + 1] = Level(H(n)[m], m + 1)
      <4>1. m \in 0 .. n - 1 BY <3>1
      <4>2. UpToLevel(H(n), n) BY <1>4, Zenon
      <4> HIDE DEF H
      <4> QED BY <4>1, <4>2
    <3>3. H(m)[m] = H(n)[m]
      <4>1. UpToLevel(H(m), m) /\ UpToLevel(H(n), m + 1) BY <1>4, <3>1
      <4> HIDE DEF UpToLevel, H
      <4> QED BY <1>3, <4>1
    <3>4. g[n] = H(n)[n] /\ g[n - 1] = H(m)[m] BY <3>1
    <3> QED BY <3>1, <3>2, <3>3, <3>4
  <2> HIDE DEF g
  <2>3. \A n \in Nat : g[n] = Level(g[n - 1], n) BY <2>1, <2>2
  <2>4. g = [n \in Nat |-> g[n]] BY DEF g
  <2> QED BY <2>3, <2>4, Zenon
<1> HIDE DEF g
<1> QED BY <1>5, Zenon DEF FilterTexts, Level, TextWith

\* The text of a filter, from those of the filters in it.
LEMMA FilterTextsAre ==
  ASSUME NEW n \in Nat, NEW f \in Filters[n]
  PROVE  FilterTexts[n][f] = TextWith(FilterTexts[n - 1], f)
<1>1. FilterTexts[n] = [e \in Filters[n] |-> TextWith(FilterTexts[n - 1], e)] BY FilterTextsExist
<1> QED BY <1>1

\* What a text is parsed to, when p are its parts.
ParsedWith(p, s) ==
  LET inner == SubSeq(s, 2, Len(s) - 1)
      rest == SubSeq(inner, 2, Len(inner))
      members == [k \in DOMAIN Members(rest) |-> p[Members(rest)[k]]]
      negated == p[rest]
  IN CASE inner # <<>> /\ inner[1] \in {"&", "|"} ->
            IF Invalid \in Range(members) THEN Invalid ELSE Group(inner[1], members)
       [] inner # <<>> /\ inner[1] = "!" ->
            IF negated = Invalid THEN Invalid ELSE Not(negated)
       [] OTHER -> ParseItem(inner)

\* Its parts are shorter.
LEMMA MembersShorter ==
  ASSUME NEW r \in Seq(FilterTokens), NEW k \in DOMAIN Members(r)
  PROVE  Members(r)[k] \in Seq(FilterTokens) /\ Len(Members(r)[k]) <= Len(r)
<1>1. PICK C : C = Closed(r) OBVIOUS
<1>2. C \in SUBSET (1 .. Len(r)) /\ IsFiniteSet(C) /\ C \in SUBSET Nat
  <2>1. C \in SUBSET (1 .. Len(r)) BY <1>1 DEF Closed, Openings, Positions
  <2>2. IsFiniteSet(1 .. Len(r)) /\ (1 .. Len(r)) \in SUBSET Nat
    <3>1. Len(r) \in Nat OBVIOUS
    <3> QED BY <3>1, UpTo
  <2> QED BY <2>1, <2>2, FS_Subset
<1>3. Members(r) = [j \in 1 .. Cardinality(C) |-> Member(r, Nth(C, j - 1))] BY <1>1 DEF Members
<1>4. k \in 1 .. Cardinality(C) /\ Cardinality(C) \in Nat BY <1>2, <1>3, FS_CardinalityType
<1>5. PICK i : i = Nth(C, k - 1) OBVIOUS
<1>6. i \in C
  <2>1. k - 1 \in 0 .. Cardinality(C) - 1 BY <1>4
  <2> QED BY <1>2, <1>5, <2>1, NthType
<1>7. Closings(r, i) \in SUBSET (1 .. Len(r)) /\ Closings(r, i) # {}
  BY <1>1, <1>6 DEF Closed, Closings, Positions
<1>8. PICK j \in 1 .. Len(r) : j = Min(Closings(r, i))
  <2>0. PICK n, D : n = Len(r) /\ D = Closings(r, i) OBVIOUS
  <2>1. IsFiniteSet(Closings(r, i)) /\ Closings(r, i) \in SUBSET Nat
    <3>1. n \in Nat /\ D \in SUBSET (1 .. n) BY <1>7, <2>0
    <3>2. IsFiniteSet(1 .. n) /\ D \in SUBSET Nat BY ONLY <3>1, UpTo
    <3>3. IsFiniteSet(D) BY ONLY <3>1, <3>2, FS_Subset
    <3> QED BY <2>0, <3>2, <3>3, Zenon
  <2>2. Min(Closings(r, i)) \in Closings(r, i) BY <1>7, <2>1, LeastIs
  <2> QED BY <1>7, <2>2
<1>9. Members(r)[k] = SubSeq(r, i, j) BY <1>3, <1>4, <1>5, <1>8 DEF Member
<1>10. i \in 1 .. Len(r) BY <1>2, <1>6
<1> QED BY <1>8, <1>9, <1>10

\* Texts up to a length.
Short(n) == {s \in Seq(FilterTokens) : Len(s) <= n}

\* inner[1] starts the rest, which is shorter than s by three.
LEMMA RestShorter ==
  ASSUME NEW s \in Seq(FilterTokens), SubSeq(s, 2, Len(s) - 1) # <<>>,
         NEW rest, rest = SubSeq(SubSeq(s, 2, Len(s) - 1), 2, Len(SubSeq(s, 2, Len(s) - 1)))
  PROVE  rest \in Seq(FilterTokens) /\ Len(rest) < Len(s)
<1>1. PICK inner : inner = SubSeq(s, 2, Len(s) - 1) OBVIOUS
<1>2. inner \in Seq(FilterTokens) /\ Len(inner) = Len(s) - 2 /\ Len(inner) > 0 BY <1>1
<1>3. rest = SubSeq(inner, 2, Len(inner)) BY <1>1
<1> QED BY <1>2, <1>3

\* Only the shorter parts matter.
LEMMA ParsedAlike ==
  ASSUME NEW s \in Seq(FilterTokens), NEW p, NEW q,
         \A r \in Seq(FilterTokens) : Len(r) < Len(s) => p[r] = q[r]
  PROVE  ParsedWith(p, s) = ParsedWith(q, s)
<1>1. PICK inner : inner = SubSeq(s, 2, Len(s) - 1) OBVIOUS
<1>2. PICK rest : rest = SubSeq(inner, 2, Len(inner)) OBVIOUS
<1>3. CASE inner = <<>>
  <2>1. \A t : ParsedWith(t, s) = ParseItem(inner) BY <1>1, <1>3, Zenon DEF ParsedWith
  <2> QED BY <2>1, Zenon
<1>4. CASE inner # <<>>
  <2>1. rest \in Seq(FilterTokens) /\ Len(rest) < Len(s) BY <1>1, <1>2, <1>4, RestShorter
  <2>2. p[rest] = q[rest] BY <2>1
  <2>3. [k \in DOMAIN Members(rest) |-> p[Members(rest)[k]]]
          = [k \in DOMAIN Members(rest) |-> q[Members(rest)[k]]]
    <3>1. ASSUME NEW k \in DOMAIN Members(rest) PROVE p[Members(rest)[k]] = q[Members(rest)[k]]
      <4>1. Members(rest)[k] \in Seq(FilterTokens) /\ Len(Members(rest)[k]) <= Len(rest)
        BY <2>1, MembersShorter
      <4>2. PICK m : m = Members(rest)[k] OBVIOUS
      <4>3. m \in Seq(FilterTokens) /\ Len(m) < Len(s) BY <2>1, <4>1, <4>2
      <4> QED BY <4>2, <4>3
    <3> QED BY <3>1, Zenon
  <2> QED BY <1>1, <1>2, <2>2, <2>3, Zenon DEF ParsedWith
<1> QED BY <1>3, <1>4

\* So there is a function that parses all texts.
LEMMA ParsingExists ==
  ParseExpression = [s \in Seq(FilterTokens) |-> ParsedWith(ParseExpression, s)]
<1> DEFINE UpToLength(h, n) == \A s \in Short(n) : h[s] = ParsedWith(h, s)
           H(n) == CHOOSE h : UpToLength(h, n)
           g == [s \in Seq(FilterTokens) |-> H(Len(s))[s]]
<1>1. \A n \in Nat : \E h : UpToLength(h, n)
  <2> DEFINE S == {n \in Nat : \E h : UpToLength(h, n)}
  <2>1. 0 \in S
    <3> DEFINE h == [s \in Short(0) |-> ParsedWith(<<>>, s)]
    <3>1. ASSUME NEW s \in Short(0) PROVE h[s] = ParsedWith(h, s)
      <4>1. s \in Seq(FilterTokens) /\ \A r \in Seq(FilterTokens) : ~(Len(r) < Len(s)) BY DEF Short
      <4>2. ParsedWith(<<>>, s) = ParsedWith(h, s)
        <5> HIDE DEF h
        <5> QED BY <4>1, ParsedAlike, Zenon
      <4> QED BY <4>2
    <3>2. UpToLength(h, 0) BY <3>1, Zenon
    <3> HIDE DEF UpToLength, h
    <3> QED BY <3>2
  <2>2. ASSUME NEW n \in Nat, n \in S PROVE n + 1 \in S
    <3>1. PICK h : UpToLength(h, n) BY <2>2
    <3> DEFINE e == [s \in Short(n + 1) |-> ParsedWith(h, s)]
    <3>2. ASSUME NEW s \in Short(n + 1) PROVE e[s] = ParsedWith(e, s)
      <4>1. s \in Seq(FilterTokens) /\ Len(s) <= n + 1 BY DEF Short
      <4>2. ASSUME NEW r \in Seq(FilterTokens), Len(r) < Len(s) PROVE h[r] = e[r]
        <5>1. r \in Short(n) /\ r \in Short(n + 1) BY <4>1, <4>2 DEF Short
        <5> QED BY <3>1, <5>1
      <4>3. ParsedWith(h, s) = ParsedWith(e, s)
        <5> HIDE DEF e
        <5> QED BY <4>1, <4>2, ParsedAlike
      <4> QED BY <4>3
    <3>3. UpToLength(e, n + 1) BY <3>2, Zenon
    <3> HIDE DEF UpToLength, e
    <3> QED BY <3>3
  <2> HIDE DEF S
  <2>3. \A n \in Nat : n \in S BY <2>1, <2>2, Induction
  <2> QED BY <2>3 DEF S
<1>2. ASSUME NEW n \in Nat, NEW m \in Nat, NEW d, NEW h, UpToLength(d, n), UpToLength(h, m)
      PROVE  \A s \in Short(n) \cap Short(m) : d[s] = h[s]
  <2> DEFINE S == {k \in Nat : \A s \in Short(n) \cap Short(m) : Len(s) <= k => d[s] = h[s]}
             Both == Short(n) \cap Short(m)
  <2>1. ASSUME NEW s \in Both, \A r \in Both : Len(r) < Len(s) => d[r] = h[r] PROVE d[s] = h[s]
    <3>1. s \in Seq(FilterTokens) /\ Len(s) <= n /\ Len(s) <= m BY DEF Short
    <3>2. ASSUME NEW r \in Seq(FilterTokens), Len(r) < Len(s) PROVE d[r] = h[r]
      <4>1. r \in Both BY <3>1, <3>2 DEF Short
      <4> QED BY <2>1, <3>2, <4>1
    <3>3. ParsedWith(d, s) = ParsedWith(h, s) BY <3>1, <3>2, ParsedAlike
    <3> QED BY <1>2, <3>3
  <2>2. 0 \in S
    <3>1. ASSUME NEW s \in Both, Len(s) <= 0 PROVE d[s] = h[s]
      <4>1. \A r \in Both : ~(Len(r) < Len(s)) BY <3>1 DEF Short
      <4> HIDE DEF Both
      <4> QED BY <2>1, <4>1
    <3> QED BY <3>1
  <2>3. ASSUME NEW k \in Nat, k \in S PROVE k + 1 \in S
    <3>1. ASSUME NEW s \in Both, Len(s) <= k + 1 PROVE d[s] = h[s]
      <4>1. \A r \in Both : Len(r) < Len(s) => Len(r) <= k BY <3>1 DEF Short
      <4>2. \A r \in Both : Len(r) < Len(s) => d[r] = h[r] BY <2>3, <4>1
      <4> HIDE DEF Both
      <4> QED BY <2>1, <4>2
    <3> QED BY <3>1
  <2>4. n \in S
    <3> HIDE DEF S
    <3> QED BY <2>2, <2>3, Induction
  <2> QED BY <2>4 DEF Short
<1>3. \A n \in Nat : UpToLength(H(n), n)
  <2> HIDE DEF UpToLength
  <2> QED BY <1>1
<1>4. ASSUME NEW s \in Seq(FilterTokens) PROVE g[s] = ParsedWith(g, s)
  <2>1. PICK n \in Nat : n = Len(s) OBVIOUS
  <2>2. s \in Short(n) BY <2>1 DEF Short
  <2>3. H(n)[s] = ParsedWith(H(n), s)
    <3>1. UpToLength(H(n), n) BY <1>3, Zenon
    <3> HIDE DEF H
    <3> QED BY <2>2, <3>1
  <2>4. ASSUME NEW r \in Seq(FilterTokens), Len(r) < Len(s) PROVE H(n)[r] = g[r]
    <3>1. PICK m \in Nat : m = Len(r) OBVIOUS
    <3>2. r \in Short(n) \cap Short(m) BY <2>1, <2>4, <3>1 DEF Short
    <3>3. UpToLength(H(n), n) /\ UpToLength(H(m), m) BY <1>3, Zenon
    <3>4. H(n)[r] = H(m)[r]
      <4> HIDE DEF UpToLength, H
      <4> QED BY <1>2, <3>2, <3>3
    <3>5. g[r] = H(m)[r] BY <3>1
    <3> QED BY <3>4, <3>5
  <2>5. ParsedWith(H(n), s) = ParsedWith(g, s)
    <3> HIDE DEF g, H
    <3> QED BY <2>4, ParsedAlike
  <2>6. g[s] = H(n)[s] BY <2>1
  <2> QED BY <2>3, <2>5, <2>6
<1>5. g = [s \in Seq(FilterTokens) |-> ParsedWith(g, s)]
  <2>1. g = [s \in Seq(FilterTokens) |-> g[s]] OBVIOUS
  <2> HIDE DEF g
  <2> QED BY <1>4, <2>1, Zenon
<1> HIDE DEF g
<1> QED BY <1>5, Zenon DEF ParseExpression, ParsedWith

\* What a text is parsed to, from what its parts are.
LEMMA ParsingIs ==
  ASSUME NEW s \in Seq(FilterTokens)
  PROVE  ParseExpression[s] = ParsedWith(ParseExpression, s)
  BY ParsingExists

--------
(* Depth *)

\* Counting up to one more.
LEMMA CountMore ==
  ASSUME NEW P, NEW i \in Nat
  PROVE  /\ Cardinality(P \cap 1 .. i) \in Nat
         /\ Cardinality(P \cap 1 .. i + 1)
              = Cardinality(P \cap 1 .. i) + IF i + 1 \in P THEN 1 ELSE 0
<1>1. PICK A : A = P \cap 1 .. i OBVIOUS
<1>2. IsFiniteSet(A) /\ Cardinality(A) \in Nat
  <2>1. A \in SUBSET (1 .. i) /\ IsFiniteSet(1 .. i) BY <1>1, UpTo
  <2> QED BY <2>1, FS_Subset, FS_CardinalityType
<1>3. CASE i + 1 \in P
  <2>1. P \cap 1 .. i + 1 = A \cup {i + 1} /\ i + 1 \notin A BY <1>1, <1>3
  <2>2. Cardinality(A \cup {i + 1}) = Cardinality(A) + 1 BY <1>2, <2>1, FS_AddElement
  <2> QED BY <1>1, <1>2, <1>3, <2>1, <2>2
<1>4. CASE i + 1 \notin P
  <2>1. P \cap 1 .. i + 1 = A BY <1>1, <1>4
  <2> QED BY <1>1, <1>2, <1>4, <2>1
<1> QED BY <1>1, <1>2, <1>3, <1>4

\* What a token adds to the depth.
Turn(token) == IF token = "(" THEN 1 ELSE IF token = ")" THEN -1 ELSE 0

\* The depth changes by one at a parenthesis.
LEMMA DepthIs ==
  ASSUME NEW T, NEW s \in Seq(T)
  PROVE  /\ Depth(s, 0) = 0
         /\ \A i \in 0 .. Len(s) : Depth(s, i) \in Int
         /\ \A i \in 0 .. Len(s) - 1 : Depth(s, i + 1) = Depth(s, i) + Turn(s[i + 1])
<1>1. PICK P, Q : P = Positions(s, "(") /\ Q = Positions(s, ")") OBVIOUS
<1>2. \A i \in Nat : Depth(s, i) = Cardinality(P \cap 1 .. i) - Cardinality(Q \cap 1 .. i)
  BY <1>1 DEF Depth
<1>3. Depth(s, 0) = 0
  <2>1. P \cap 1 .. 0 = {} /\ Q \cap 1 .. 0 = {} OBVIOUS
  <2>2. Cardinality({}) = 0 BY FS_EmptySet
  <2>3. PICK p, q : p = Cardinality(P \cap 1 .. 0) /\ q = Cardinality(Q \cap 1 .. 0) OBVIOUS
  <2>4. p = 0 /\ q = 0 BY <2>1, <2>2, <2>3
  <2>5. Depth(s, 0) = p - q BY <1>2, <2>3
  <2> QED BY <2>4, <2>5
<1>4. ASSUME NEW i \in 0 .. Len(s) PROVE Depth(s, i) \in Int
  <2>1. i \in Nat OBVIOUS
  <2>2. PICK p \in Nat, q \in Nat : p = Cardinality(P \cap 1 .. i) /\ q = Cardinality(Q \cap 1 .. i)
    BY <2>1, CountMore
  <2>3. Depth(s, i) = p - q BY <1>2, <2>1, <2>2
  <2> QED BY <2>3
<1>5. ASSUME NEW i \in 0 .. Len(s) - 1 PROVE Depth(s, i + 1) = Depth(s, i) + Turn(s[i + 1])
  <2>1. i \in Nat /\ i + 1 \in Nat OBVIOUS
  <2>2. PICK p \in Nat, q \in Nat : p = Cardinality(P \cap 1 .. i) /\ q = Cardinality(Q \cap 1 .. i)
    BY <2>1, CountMore
  <2>3. /\ Cardinality(P \cap 1 .. i + 1) = p + IF i + 1 \in P THEN 1 ELSE 0
        /\ Cardinality(Q \cap 1 .. i + 1) = q + IF i + 1 \in Q THEN 1 ELSE 0
    BY <2>2, <2>1, CountMore
  <2>4. (i + 1 \in P <=> s[i + 1] = "(") /\ (i + 1 \in Q <=> s[i + 1] = ")") BY <1>1 DEF Positions
  <2>5. Depth(s, i) = p - q BY <1>2, <2>2, <2>1
  <2>6. Depth(s, i + 1) = (p + IF i + 1 \in P THEN 1 ELSE 0) - (q + IF i + 1 \in Q THEN 1 ELSE 0)
    BY <1>2, <2>3, <2>1
  <2>7. CASE s[i + 1] = "(" BY <2>4, <2>5, <2>6, <2>7 DEF Turn
  <2>8. CASE s[i + 1] = ")" BY <2>4, <2>5, <2>6, <2>8 DEF Turn
  <2>9. CASE s[i + 1] # "(" /\ s[i + 1] # ")" BY <2>4, <2>5, <2>6, <2>9 DEF Turn
  <2> QED BY <2>7, <2>8, <2>9
<1> QED BY <1>3, <1>4, <1>5

\* Depth in a text and in what follows it.
LEMMA DepthJoined ==
  ASSUME NEW T, NEW s \in Seq(T), NEW t \in Seq(T)
  PROVE  /\ \A i \in 0 .. Len(s) : Depth(s \o t, i) = Depth(s, i)
         /\ \A i \in 0 .. Len(t) : Depth(s \o t, Len(s) + i) = Depth(s, Len(s)) + Depth(t, i)
<1>1. PICK r, n, m : r = s \o t /\ n = Len(s) /\ m = Len(t) OBVIOUS
<1>2. /\ r \in Seq(T) /\ n \in Nat /\ m \in Nat /\ Len(r) = n + m
      /\ (\A i \in 1 .. n : r[i] = s[i]) /\ (\A i \in 1 .. m : r[n + i] = t[i])
  BY <1>1, Joined
<1>3. ASSUME NEW i \in 0 .. n PROVE Depth(r, i) = Depth(s, i)
  <2> DEFINE S == {k \in Nat : k <= n => Depth(r, k) = Depth(s, k)}
  <2>1. 0 \in S BY <1>2, DepthIs
  <2>2. ASSUME NEW k \in Nat, k \in S PROVE k + 1 \in S
    <3>1. SUFFICES ASSUME k + 1 <= n PROVE Depth(r, k + 1) = Depth(s, k + 1) OBVIOUS
    <3>2. k \in 0 .. n - 1 /\ k \in 0 .. Len(r) - 1 /\ r[k + 1] = s[k + 1] BY <1>2, <3>1
    <3>3. Depth(r, k + 1) = Depth(r, k) + Turn(r[k + 1]) BY <1>2, <3>2, DepthIs
    <3>4. Depth(s, k + 1) = Depth(s, k) + Turn(s[k + 1]) BY <1>1, <3>2, DepthIs
    <3>5. Depth(r, k) = Depth(s, k) BY <1>2, <2>2, <3>1
    <3> QED BY <3>2, <3>3, <3>4, <3>5
  <2>3. i \in S
    <3>1. i \in Nat BY <1>2
    <3> HIDE DEF S
    <3> QED BY <2>1, <2>2, <3>1, Induction
  <2> QED BY <2>3
<1>4. ASSUME NEW i \in 0 .. m PROVE Depth(r, n + i) = Depth(s, n) + Depth(t, i)
  <2> DEFINE S == {k \in Nat : k <= m => Depth(r, n + k) = Depth(s, n) + Depth(t, k)}
  <2>1. 0 \in S
    <3>1. Depth(r, n) = Depth(s, n) /\ Depth(s, n) \in Int /\ Depth(t, 0) = 0
      BY <1>1, <1>2, <1>3, DepthIs
    <3> QED BY <1>2, <3>1
  <2>2. ASSUME NEW k \in Nat, k \in S PROVE k + 1 \in S
    <3>1. SUFFICES ASSUME k + 1 <= m PROVE Depth(r, n + (k + 1)) = Depth(s, n) + Depth(t, k + 1)
      OBVIOUS
    <3>2. /\ n + k \in 0 .. Len(r) - 1 /\ k \in 0 .. m - 1 /\ r[n + (k + 1)] = t[k + 1]
          /\ (n + k) + 1 = n + (k + 1)
      BY <1>2, <3>1
    <3>3. Depth(r, n + (k + 1)) = Depth(r, n + k) + Turn(t[k + 1])
      <4>1. Depth(r, (n + k) + 1) = Depth(r, n + k) + Turn(r[(n + k) + 1]) BY <1>2, <3>2, DepthIs
      <4> QED BY <3>2, <4>1
    <3>4. Depth(t, k + 1) = Depth(t, k) + Turn(t[k + 1]) /\ Depth(t, k) \in Int
      <4>1. k \in 0 .. Len(t) BY <1>1, <1>2, <3>2
      <4> QED BY <1>1, <3>2, <4>1, DepthIs
    <3>5. Depth(r, n + k) = Depth(s, n) + Depth(t, k) /\ Depth(s, n) \in Int
      <4>1. Depth(s, n) \in Int BY <1>1, <1>2, DepthIs
      <4> QED BY <1>2, <2>2, <3>1, <4>1
    <3>6. PICK d \in Int : d = Turn(t[k + 1]) BY DEF Turn
    <3> QED BY <3>3, <3>4, <3>5, <3>6
  <2>3. i \in S
    <3>1. i \in Nat BY <1>2
    <3> HIDE DEF S
    <3> QED BY <2>1, <2>2, <3>1, Induction
  <2> QED BY <2>3
<1> QED BY <1>1, <1>3, <1>4

\* Every parenthesis that is closed was opened.
Balanced(s) ==
  /\ s \in Seq(FilterTokens)
  /\ Depth(s, Len(s)) = 0 /\ \A i \in 0 .. Len(s) : Depth(s, i) >= 0

\* From a parenthesis to the one that closes it.
IsExpression(s) ==
  /\ s \in Seq(FilterTokens) /\ Len(s) >= 2 /\ s[1] = "(" /\ s[Len(s)] = ")"
  /\ Depth(s, Len(s)) = 0 /\ \A i \in 1 .. Len(s) - 1 : Depth(s, i) >= 1

Wrapped(s) == <<"(">> \o s \o <<")">>

\* The special characters are tokens.
LEMMA MarksAreTokens ==
  /\ "(" \in FilterTokens /\ ")" \in FilterTokens /\ "&" \in FilterTokens /\ "|" \in FilterTokens
  /\ "!" \in FilterTokens /\ "=" \in FilterTokens /\ "~" \in FilterTokens /\ ">" \in FilterTokens
  /\ "<" \in FilterTokens /\ ":" \in FilterTokens /\ "*" \in FilterTokens /\ "dn" \in FilterTokens
  BY Zenon DEF FilterTokens, FilterMarks

\* A text in parentheses.
LEMMA WrappedParts ==
  ASSUME NEW s \in Seq(FilterTokens)
  PROVE  /\ Wrapped(s) \in Seq(FilterTokens) /\ Len(Wrapped(s)) = Len(s) + 2
         /\ Wrapped(s)[1] = "(" /\ Wrapped(s)[Len(s) + 2] = ")"
         /\ \A i \in 1 .. Len(s) : Wrapped(s)[1 + i] = s[i]
         /\ SubSeq(Wrapped(s), 2, Len(Wrapped(s)) - 1) = s
<1>1. PICK T : T = FilterTokens OBVIOUS
<1>2. "(" \in T /\ ")" \in T /\ s \in Seq(T) BY <1>1, MarksAreTokens
<1>3. PICK a, c : a = <<"(">> /\ c = <<")">> OBVIOUS
<1>4. /\ a \in Seq(T) /\ c \in Seq(T) /\ Len(a) = 1 /\ Len(c) = 1 /\ a[1] = "(" /\ c[1] = ")"
  BY <1>2, <1>3
<1>5. PICK r : r = a \o s OBVIOUS
<1>6. /\ r \in Seq(T) /\ Len(r) = 1 + Len(s) /\ r[1] = "(" /\ Len(s) \in Nat
      /\ \A i \in 1 .. Len(s) : r[1 + i] = s[i]
  <2>1. /\ r \in Seq(T) /\ Len(r) = Len(a) + Len(s)
        /\ \A i \in 1 .. Len(a) : r[i] = a[i]
        /\ \A i \in 1 .. Len(s) : r[Len(a) + i] = s[i]
    BY <1>2, <1>4, <1>5, Joined
  <2>2. Len(s) \in Nat OBVIOUS
  <2> QED BY <1>4, <2>1, <2>2
<1>7. PICK w : w = r \o c OBVIOUS
<1>8. /\ w \in Seq(T) /\ Len(w) = Len(s) + 2 /\ w[1] = "(" /\ w[Len(s) + 2] = ")"
      /\ \A i \in 1 .. Len(s) : w[1 + i] = s[i]
  <2>1. /\ w \in Seq(T) /\ Len(w) = Len(r) + Len(c)
        /\ \A i \in 1 .. Len(r) : w[i] = r[i]
        /\ \A i \in 1 .. Len(c) : w[Len(r) + i] = c[i]
    <3>1. r \in Seq(T) /\ c \in Seq(T) BY <1>4, <1>6
    <3> QED BY ONLY <1>7, <3>1, Joined
  <2>2. Len(w) = Len(s) + 2 /\ w[1] = "(" /\ w[Len(s) + 2] = ")" BY <1>4, <1>6, <2>1
  <2>3. ASSUME NEW i \in 1 .. Len(s) PROVE w[1 + i] = s[i] BY <1>6, <2>1
  <2> QED BY <2>1, <2>2, <2>3
<1>9. Wrapped(s) = w BY <1>3, <1>5, <1>7 DEF Wrapped
<1>10. SubSeq(w, 2, Len(w) - 1) = s
  <2>1. PICK v : v = SubSeq(w, 2, Len(w) - 1) OBVIOUS
  <2>2. /\ v \in Seq(T) /\ Len(v) = Len(s) /\ \A i \in 1 .. Len(s) : v[i] = w[1 + i]
    BY ONLY <1>6, <1>8, <2>1
  <2>3. v = s BY <1>2, <1>8, <2>2, SameSeq
  <2> QED BY <2>1, <2>3
<1> QED BY <1>1, <1>8, <1>9, <1>10

\* A balanced text in parentheses is an expression.
LEMMA WrappedIsExpression ==
  ASSUME NEW s, Balanced(s)
  PROVE  IsExpression(Wrapped(s))
<1>1. PICK a, c, n : a = <<"(">> /\ c = <<")">> /\ n = Len(s) OBVIOUS
<1>2. /\ a \in Seq(FilterTokens) /\ c \in Seq(FilterTokens) /\ s \in Seq(FilterTokens)
      /\ Len(a) = 1 /\ Len(c) = 1 /\ a[1] = "(" /\ c[1] = ")" /\ n \in Nat
  BY <1>1, MarksAreTokens DEF Balanced
<1>3. Depth(a, 1) = 1 /\ Depth(c, 1) = -1 /\ Depth(a, 0) = 0 /\ Depth(c, 0) = 0
  <2>1. /\ Depth(a, 0) = 0 /\ Depth(c, 0) = 0
        /\ Depth(a, 0 + 1) = Depth(a, 0) + Turn(a[0 + 1])
        /\ Depth(c, 0 + 1) = Depth(c, 0) + Turn(c[0 + 1])
    <3>1. 0 \in 0 .. Len(a) - 1 /\ 0 \in 0 .. Len(c) - 1 BY <1>2
    <3> QED BY <1>2, <3>1, DepthIs
  <2>2. Turn("(") = 1 /\ Turn(")") = -1 BY DEF Turn
  <2> QED BY <1>2, <2>1, <2>2
<1>4. PICK r : r = a \o s OBVIOUS
<1>5. r \in Seq(FilterTokens) /\ Len(r) = 1 + n BY <1>1, <1>2, <1>4, Joined
<1>6. \A i \in 0 .. n : Depth(r, 1 + i) = 1 + Depth(s, i)
  <2>1. \A i \in 0 .. Len(s) : Depth(a \o s, Len(a) + i) = Depth(a, Len(a)) + Depth(s, i)
    <3>1. a \in Seq(FilterTokens) /\ s \in Seq(FilterTokens) BY <1>2
    <3> QED BY ONLY <3>1, DepthJoined
  <2> QED BY <1>1, <1>2, <1>3, <1>4, <2>1
<1>7. Wrapped(s) = r \o c BY <1>1, <1>4 DEF Wrapped
<1>8. \A i \in 0 .. 1 + n : Depth(r \o c, i) = Depth(r, i) BY <1>2, <1>5, DepthJoined
<1>9. Depth(r \o c, (1 + n) + 1) = Depth(r, 1 + n) + Depth(c, 1)
  <2>1. \A i \in 0 .. Len(c) : Depth(r \o c, Len(r) + i) = Depth(r, Len(r)) + Depth(c, i)
    <3>1. r \in Seq(FilterTokens) /\ c \in Seq(FilterTokens) BY <1>2, <1>5
    <3> QED BY ONLY <3>1, DepthJoined
  <2> QED BY <1>2, <1>5, <2>1
<1>10. \A i \in 0 .. n : Depth(s, i) >= 0 /\ Depth(s, i) \in Int BY <1>1, <1>2, DepthIs DEF Balanced
<1>11. Depth(s, n) = 0 BY <1>1 DEF Balanced
<1>12. Depth(Wrapped(s), n + 2) = 0
  <2>1. Depth(r, 1 + n) = 1 + 0 BY <1>2, <1>6, <1>11
  <2>2. (1 + n) + 1 = n + 2 BY <1>2
  <2> QED BY <1>3, <1>7, <1>9, <2>1, <2>2
<1>13. ASSUME NEW i \in 1 .. n + 1 PROVE Depth(Wrapped(s), i) >= 1
  <2>1. PICK j \in 0 .. n : i = 1 + j
    <3>1. i - 1 \in 0 .. n /\ i = 1 + (i - 1) BY <1>2
    <3> QED BY <3>1
  <2>2. i \in 0 .. 1 + n BY <1>2
  <2>3. Depth(r \o c, i) = 1 + Depth(s, j) BY <1>6, <1>8, <2>1, <2>2
  <2> QED BY <1>7, <1>10, <2>3
<1>14. /\ Wrapped(s) \in Seq(FilterTokens) /\ Len(Wrapped(s)) = n + 2
       /\ Wrapped(s)[1] = "(" /\ Wrapped(s)[n + 2] = ")"
  BY <1>1, <1>2, WrappedParts
<1> QED BY <1>2, <1>12, <1>13, <1>14 DEF IsExpression

\* Between expressions, or where there are no parentheses.
LEMMA ExpressionBalanced ==
  ASSUME NEW s, IsExpression(s)
  PROVE  Balanced(s)
<1>1. s \in Seq(FilterTokens) /\ Depth(s, Len(s)) = 0 /\ Depth(s, 0) = 0 /\ Len(s) \in Nat
  BY DepthIs DEF IsExpression
<1>2. ASSUME NEW i \in 0 .. Len(s) PROVE Depth(s, i) >= 0
  <2>1. CASE i = 0 \/ i = Len(s) BY <1>1, <2>1
  <2>2. CASE i # 0 /\ i # Len(s)
    <3>1. i \in 1 .. Len(s) - 1 BY <1>1, <2>2
    <3>2. Depth(s, i) \in Int /\ Depth(s, i) >= 1 BY <1>1, <3>1, DepthIs DEF IsExpression
    <3> QED BY <3>2
  <2> QED BY <2>1, <2>2
<1> QED BY <1>1, <1>2 DEF Balanced

\* Without parentheses a text is balanced.
LEMMA PlainBalanced ==
  ASSUME NEW s \in Seq(FilterTokens), Positions(s, "(") = {}, Positions(s, ")") = {}
  PROVE  Balanced(s)
<1>1. \A i : Depth(s, i) = 0
  <2>1. Cardinality({}) = 0 /\ \A i : {} \cap 1 .. i = {} BY FS_EmptySet
  <2>2. \A i : Depth(s, i) = 0 - 0 BY <2>1, Zenon DEF Depth
  <2> QED BY <2>2
<1> QED BY <1>1 DEF Balanced

\* Balanced texts stay so in a row.
LEMMA BalancedMore ==
  ASSUME NEW s, Balanced(s), NEW t, Balanced(t)
  PROVE  Balanced(s \o t)
<1>1. PICK r, n, m : r = s \o t /\ n = Len(s) /\ m = Len(t) OBVIOUS
<1>2. /\ s \in Seq(FilterTokens) /\ t \in Seq(FilterTokens) /\ n \in Nat /\ m \in Nat
      /\ r \in Seq(FilterTokens) /\ Len(r) = n + m
  BY <1>1, Joined DEF Balanced
<1>3. /\ \A i \in 0 .. n : Depth(r, i) = Depth(s, i)
      /\ \A i \in 0 .. m : Depth(r, n + i) = Depth(s, n) + Depth(t, i)
  BY <1>1, <1>2, DepthJoined
<1>4. /\ Depth(s, n) = 0 /\ Depth(t, m) = 0
      /\ \A i \in 0 .. n : Depth(s, i) >= 0 /\ \A j \in 0 .. m : Depth(t, j) >= 0
  BY <1>1 DEF Balanced
<1>5. \A j \in 0 .. m : Depth(t, j) \in Int BY <1>1, <1>2, DepthIs
<1>6. \A j \in 0 .. m : Depth(r, n + j) = Depth(t, j) BY <1>3, <1>4, <1>5
<1>7. Depth(r, n + m) = 0 BY <1>2, <1>4, <1>6
<1>8. ASSUME NEW i \in 0 .. n + m PROVE Depth(r, i) >= 0
  <2>1. CASE i <= n
    <3>1. i \in 0 .. n BY <1>2, <2>1
    <3> QED BY <1>3, <1>4, <3>1
  <2>2. CASE ~(i <= n)
    <3>1. i - n \in 0 .. m /\ n + (i - n) = i BY <1>2, <2>2
    <3>2. PICK j \in 0 .. m : n + j = i BY <3>1
    <3>3. Depth(t, j) >= 0
      <4>1. 0 \in 0 .. n BY <1>2
      <4> QED BY <1>4, <4>1
    <3> QED BY <1>6, <3>2, <3>3
  <2> QED BY <2>1, <2>2
<1> QED BY <1>1, <1>2, <1>7, <1>8 DEF Balanced

Expressions == {s \in Seq(FilterTokens) : IsExpression(s)}

\* Texts of a group's members.
Grouped(s) == Balanced(s) /\ (s # <<>> => s[Len(s)] = ")")

\* One member more.
LEMMA GroupedMore ==
  ASSUME NEW s, Grouped(s), NEW t \in Expressions
  PROVE  Grouped(s \o t)
<1>1. IsExpression(t) /\ t \in Seq(FilterTokens) /\ s \in Seq(FilterTokens) /\ Balanced(s)
  BY DEF Expressions, Grouped, Balanced
<1>2. Balanced(s \o t) BY <1>1, ExpressionBalanced, BalancedMore
<1>3. PICK r, m : r = s \o t /\ m = Len(t) OBVIOUS
<1>4. r[Len(s) + m] = t[m] /\ Len(r) = Len(s) + m /\ m >= 2 /\ t[m] = ")"
  BY <1>1, <1>3, Joined DEF IsExpression
<1> QED BY <1>2, <1>3, <1>4 DEF Grouped

\* A group without members.
LEMMA MembersOfNone ==
  Members(<<>>) = <<>> /\ Grouped(<<>>)
<1>1. \A x : Positions(<<>>, x) = {} BY DEF Positions
<1>2. Closed(<<>>) = {} BY <1>1 DEF Closed, Openings
<1>3. Members(<<>>) = <<>>
  <2>1. Cardinality(Closed(<<>>)) = 0 BY <1>2, FS_EmptySet
  <2>2. 1 .. 0 = {} OBVIOUS
  <2> QED BY <2>1, <2>2 DEF Members
<1>4. Balanced(<<>>)
  <2>1. <<>> \in Seq(FilterTokens) OBVIOUS
  <2> QED BY <1>1, <2>1, PlainBalanced
<1> QED BY <1>3, <1>4 DEF Grouped

\* Another expression is another member, and the others stay what they are.
LEMMA MembersMore ==
  ASSUME NEW g, Grouped(g), NEW t \in Expressions
  PROVE  Members(g \o t) = Append(Members(g), t)
<1>1. PICK s, n, m : s = g \o t /\ n = Len(g) /\ m = Len(t) OBVIOUS
<1>2. /\ g \in Seq(FilterTokens) /\ t \in Seq(FilterTokens) /\ IsExpression(t) /\ Balanced(g)
      /\ n \in Nat /\ m \in Nat /\ m >= 2 /\ t[1] = "(" /\ t[m] = ")"
  BY <1>1 DEF Expressions, Grouped, Balanced, IsExpression
<1>3. /\ s \in Seq(FilterTokens) /\ Len(s) = n + m /\ DOMAIN s = 1 .. n + m
      /\ DOMAIN g = 1 .. n /\ DOMAIN t = 1 .. m
      /\ \A i \in 1 .. n : s[i] = g[i]
      /\ \A i \in 1 .. m : s[n + i] = t[i]
  BY <1>1, <1>2, Joined
<1>4. /\ \A i \in 1 .. n : Depth(s, i) = Depth(g, i)
      /\ \A i \in 1 .. m : Depth(s, n + i) = Depth(t, i)
      /\ n > 0 => Depth(g, n) = 0 /\ g[n] = ")"
  <2>1. Depth(g, n) = 0 /\ (n > 0 => g[n] = ")") BY <1>1, <1>2 DEF Grouped, Balanced
  <2>2. \A i \in 0 .. n : Depth(g \o t, i) = Depth(g, i) BY <1>1, <1>2, DepthJoined
  <2>3. \A i \in 0 .. m : Depth(g \o t, n + i) = Depth(g, n) + Depth(t, i)
    BY <1>1, <1>2, DepthJoined
  <2>4. \A i \in 0 .. m : Depth(t, i) \in Int BY <1>1, <1>2, DepthIs
  <2> QED BY <1>1, <2>1, <2>2, <2>3, <2>4
<1>5. /\ Depth(t, 1) = 1 /\ Depth(t, m) = 0
      /\ \A i \in 1 .. m - 1 : Depth(t, i) >= 1
      /\ \A i \in 2 .. m : t[i] = "(" => Depth(t, i) # 1
  <2>1. Depth(t, m) = 0 /\ \A i \in 1 .. m - 1 : Depth(t, i) >= 1 BY <1>1, <1>2 DEF IsExpression
  <2>2. Turn("(") = 1 BY DEF Turn
  <2>3. Depth(t, 0) = 0 /\ \A i \in 0 .. m - 1 : Depth(t, i + 1) = Depth(t, i) + Turn(t[i + 1])
    BY <1>1, <1>2, DepthIs
  <2>4. Depth(t, 1) = 1
    <3>1. Depth(t, 0 + 1) = Depth(t, 0) + Turn(t[0 + 1])
      <4>1. 0 \in 0 .. m - 1 BY <1>2
      <4> QED BY <2>3, <4>1
    <3> QED BY <1>2, <2>2, <2>3, <3>1
  <2>5. ASSUME NEW i \in 2 .. m, t[i] = "(" PROVE Depth(t, i) # 1
    <3>1. PICK j \in 1 .. m - 1 : i = j + 1
      <4>1. i - 1 \in 1 .. m - 1 /\ i = (i - 1) + 1 BY <1>2
      <4> QED BY <4>1
    <3>2. j \in 0 .. m - 1 /\ j \in 0 .. m BY <1>2
    <3>3. Depth(t, i) = Depth(t, j) + 1 BY <2>2, <2>3, <2>5, <3>1, <3>2
    <3>4. Depth(t, j) >= 1 /\ Depth(t, j) \in Int BY <1>1, <1>2, <2>1, <3>1, <3>2, DepthIs
    <3> QED BY <3>3, <3>4
  <2> QED BY <2>1, <2>4, <2>5
<1>6. Openings(s) = Openings(g) \cup {n + 1}
  <2>1. \A i \in 1 .. n : i \in Openings(s) <=> i \in Openings(g)
    BY <1>2, <1>3, <1>4 DEF Openings, Positions
  <2>2. n + 1 \in Openings(s) BY <1>2, <1>3, <1>4, <1>5 DEF Openings, Positions
  <2>3. ASSUME NEW i \in Openings(s), i > n PROVE i = n + 1
    <3>1. i \in 1 .. n + m /\ s[i] = "(" /\ Depth(s, i) = 1 BY <1>3 DEF Openings, Positions
    <3>2. PICK j \in 1 .. m : i = n + j
      <4>1. i - n \in 1 .. m /\ i = n + (i - n) BY <1>2, <2>3, <3>1
      <4> QED BY <4>1
    <3>3. t[j] = "(" /\ Depth(t, j) = 1 BY <1>3, <1>4, <3>1, <3>2
    <3>4. j \notin 2 .. m BY <1>5, <3>3
    <3> QED BY <1>2, <3>2, <3>4
  <2>4. Openings(s) \in SUBSET (1 .. n + m) /\ Openings(g) \in SUBSET (1 .. n)
    BY <1>3 DEF Openings, Positions
  <2> QED BY <1>2, <2>1, <2>2, <2>3, <2>4
<1>7. ASSUME NEW i \in Openings(g)
      PROVE  /\ i \in 1 .. n /\ n \in Closings(g, i)
             /\ Closings(s, i) \cap 1 .. n = Closings(g, i) /\ Closings(s, i) \in SUBSET (1 .. n + m)
  <2>1. i \in 1 .. n /\ g[i] = "(" BY <1>3 DEF Openings, Positions
  <2>2. n > 0 /\ i # n BY <1>2, <1>4, <2>1
  <2>3. n \in Closings(g, i) BY <1>2, <1>3, <1>4, <2>1, <2>2 DEF Closings, Positions
  <2>4. \A j \in 1 .. n : j \in Closings(s, i) <=> j \in Closings(g, i)
    BY <1>2, <1>3, <1>4 DEF Closings, Positions
  <2>5. Closings(s, i) \in SUBSET (1 .. n + m) /\ Closings(g, i) \in SUBSET (1 .. n)
    BY <1>3 DEF Closings, Positions
  <2> QED BY <2>1, <2>3, <2>4, <2>5
<1>8. Closings(s, n + 1) = {n + m}
  <2>1. n + m \in Closings(s, n + 1) BY <1>2, <1>3, <1>4, <1>5 DEF Closings, Positions
  <2>2. ASSUME NEW j \in Closings(s, n + 1) PROVE j = n + m
    <3>1. j \in 1 .. n + m /\ j > n + 1 /\ Depth(s, j) = 0 BY <1>3 DEF Closings, Positions
    <3>2. PICK k \in 1 .. m : j = n + k
      <4>1. j - n \in 1 .. m /\ j = n + (j - n) BY <1>2, <3>1
      <4> QED BY <4>1
    <3>3. Depth(t, k) = 0 BY <1>4, <3>1, <3>2
    <3>4. k \notin 1 .. m - 1 BY <1>5, <3>3
    <3> QED BY <1>2, <3>2, <3>4
  <2> QED BY <2>1, <2>2
<1>9. Closed(g) = Openings(g) /\ Closed(s) = Closed(g) \cup {n + 1}
  <2>1. Closed(g) = Openings(g) BY <1>7 DEF Closed
  <2>2. \A i \in Openings(g) : Closings(s, i) # {} BY <1>7
  <2>3. Closings(s, n + 1) # {} BY <1>8
  <2> QED BY <1>6, <2>1, <2>2, <2>3 DEF Closed
<1>10. Member(s, n + 1) = t
  <2>1. Min({n + m}) = n + m
    <3>1. PICK e \in Nat : e = n + m BY <1>2
    <3>2. {e} \in SUBSET Nat /\ e \in {e} /\ \A y \in {e} : e <= y OBVIOUS
    <3>3. Min({e}) = e BY <3>2, LeastTells
    <3> QED BY <3>1, <3>3
  <2>2. Member(s, n + 1) = SubSeq(g \o t, n + 1, n + m) BY <1>1, <1>8, <2>1 DEF Member
  <2> QED BY <1>1, <1>2, <2>2, SubAfter
<1>11. ASSUME NEW i \in Closed(g) PROVE Member(s, i) = Member(g, i)
  <2>1. i \in 1 .. n /\ n \in Closings(g, i)
        /\ Closings(s, i) \cap 1 .. n = Closings(g, i) /\ Closings(s, i) \in SUBSET (1 .. n + m)
    BY <1>7, <1>9
  <2>2. PICK A, B : A = Closings(g, i) /\ B = Closings(s, i) OBVIOUS
  <2>3. A \in SUBSET (1 .. n) /\ IsFiniteSet(A) /\ A \in SUBSET Nat /\ A # {}
    <3>1. A \in SUBSET (1 .. n) /\ A # {} BY <2>1, <2>2
    <3>2. IsFiniteSet(1 .. n) /\ (1 .. n) \in SUBSET Nat BY <1>2, UpTo
    <3> QED BY <3>1, <3>2, FS_Subset
  <2>4. PICK e : e = Min(A) OBVIOUS
  <2>5. e \in A /\ \A y \in A : e <= y BY <2>3, <2>4, LeastIs
  <2>6. e \in B /\ B \in SUBSET Nat /\ \A y \in B : e <= y
    <3>1. e \in 1 .. n BY <2>3, <2>5
    <3>2. \A y \in B : y \in 1 .. n => y \in A BY <2>1, <2>2
    <3>3. B \in SUBSET (1 .. n + m) /\ A \in SUBSET B BY <2>1, <2>2
    <3> QED BY <1>2, <2>5, <3>1, <3>2, <3>3
  <2>7. Min(B) = e BY <2>6, LeastTells
  <2>8. Member(s, i) = SubSeq(g \o t, i, e) /\ Member(g, i) = SubSeq(g, i, e)
    BY <1>1, <2>2, <2>4, <2>7 DEF Member
  <2>9. SubSeq(g \o t, i, e) = SubSeq(g, i, e) BY <1>1, <1>2, <2>1, <2>3, <2>5, SubBefore
  <2> QED BY <2>8, <2>9
<1>12. PICK C, K : C = Closed(g) /\ K = Cardinality(C) OBVIOUS
<1>13. C \in SUBSET Nat /\ IsFiniteSet(C) /\ Below(C, n + 1) /\ n + 1 \in Nat
  <2>1. C \in SUBSET (1 .. n) BY <1>7, <1>9, <1>12
  <2>2. IsFiniteSet(1 .. n) /\ (1 .. n) \in SUBSET Nat BY <1>2, UpTo
  <2>3. C \in SUBSET Nat /\ IsFiniteSet(C) BY <2>1, <2>2, FS_Subset
  <2>4. Below(C, n + 1) BY <1>2, <2>1 DEF Below
  <2> QED BY <1>2, <2>3, <2>4
<1>14. /\ Cardinality(Closed(s)) = K + 1 /\ K \in Nat
       /\ Nth(Closed(s), K) = n + 1
       /\ \A i \in 0 .. K - 1 : Nth(Closed(s), i) = Nth(C, i) /\ Nth(C, i) \in C
  <2>1. /\ Cardinality(C \cup {n + 1}) = Cardinality(C) + 1 /\ Cardinality(C) \in Nat
        /\ Nth(C \cup {n + 1}, Cardinality(C)) = n + 1
        /\ \A i \in 0 .. Cardinality(C) - 1 : Nth(C \cup {n + 1}, i) = Nth(C, i)
    BY <1>13, NthMore
  <2>2. \A i \in 0 .. Cardinality(C) - 1 : Nth(C, i) \in C BY <1>13, NthType
  <2>3. Closed(s) = C \cup {n + 1} BY <1>9, <1>12
  <2> QED BY <1>12, <2>1, <2>2, <2>3
<1>15. Members(g) = [k \in 1 .. K |-> Member(g, Nth(C, k - 1))] BY <1>12 DEF Members
<1>16. Members(s) = [k \in 1 .. K + 1 |-> Member(s, Nth(Closed(s), k - 1))] BY <1>14 DEF Members
<1>17. Members(g) \in Seq(Seq(FilterTokens)) /\ Len(Members(g)) = K
  <2>1. DOMAIN Members(g) = 1 .. K BY <1>15
  <2>2. \A k \in 1 .. K : Members(g)[k] \in Seq(FilterTokens) BY <1>2, <2>1, MembersShorter
  <2>3. Members(g) \in [1 .. K -> Seq(FilterTokens)] BY <1>15, <2>1, <2>2
  <2> QED BY <1>14, <2>3, SequenceOf
<1>18. PICK q : q = Append(Members(g), t) OBVIOUS
<1>19. q \in Seq(Seq(FilterTokens)) /\ Len(q) = K + 1 /\ q[K + 1] = t
       /\ \A k \in 1 .. K : q[k] = Members(g)[k]
  BY <1>2, <1>17, <1>18, Appended
<1>20. ASSUME NEW k \in 1 .. K + 1 PROVE Members(s)[k] = q[k]
  <2>1. Members(s)[k] = Member(s, Nth(Closed(s), k - 1)) BY <1>16
  <2>2. CASE k = K + 1 BY <1>10, <1>14, <1>19, <2>1, <2>2
  <2>3. CASE k # K + 1
    <3>1. k \in 1 .. K /\ k - 1 \in 0 .. K - 1 BY <1>14, <2>3
    <3>2. PICK i \in C : i = Nth(C, k - 1) /\ Nth(Closed(s), k - 1) = i BY <1>14, <3>1
    <3>3. Members(s)[k] = Member(g, i) BY <1>11, <1>12, <2>1, <3>2
    <3>4. Members(g)[k] = Member(g, i) BY <1>15, <3>1, <3>2
    <3> QED BY <1>19, <3>1, <3>3, <3>4
  <2> QED BY <2>2, <2>3
<1>21. Members(s) = q
  <2>1. Members(s) \in Seq(Seq(FilterTokens)) /\ Len(Members(s)) = K + 1
    <3>1. \A k \in 1 .. K + 1 : Members(s)[k] \in Seq(FilterTokens) BY <1>19, <1>20
    <3>2. Members(s) \in [1 .. K + 1 -> Seq(FilterTokens)] BY <1>16, <3>1
    <3> QED BY <1>14, <3>2, SequenceOf
  <2> QED BY <1>19, <1>20, <2>1, SameSeq
<1> QED BY <1>1, <1>18, <1>21

\* The members of a group are what was put into it.
LEMMA MembersAre ==
  ASSUME NEW texts \in Seq(Expressions)
  PROVE  Members(FlattenSeq(texts)) = texts /\ Grouped(FlattenSeq(texts))
<1> DEFINE S == {q \in Seq(Expressions) :
                   Members(FlattenSeq(q)) = q /\ Grouped(FlattenSeq(q))}
<1>1. <<>> \in S
  <2>1. <<>> \in Seq(Expressions) OBVIOUS
  <2> QED BY <2>1, FlattenEmpty, MembersOfNone
<1>2. ASSUME NEW q \in Seq(Expressions), NEW t \in Expressions, q \in S PROVE Append(q, t) \in S
  <2>1. PICK g : g = FlattenSeq(q) OBVIOUS
  <2>2. FlattenSeq(Append(q, t)) = g \o t
    <3>1. Expressions \subseteq Seq(FilterTokens) BY DEF Expressions
    <3>2. q \in Seq(Seq(FilterTokens)) /\ t \in Seq(FilterTokens) BY <3>1, SeqWider
    <3> QED BY <2>1, <3>2, FlattenAppend
  <2>3. Members(g) = q /\ Grouped(g) BY <1>2, <2>1
  <2>4. Members(g \o t) = Append(q, t) /\ Grouped(g \o t) BY <2>3, MembersMore, GroupedMore
  <2>5. Append(q, t) \in Seq(Expressions) BY Appended
  <2> QED BY <2>2, <2>4, <2>5
<1>3. texts \in S
  <2> HIDE DEF S
  <2> QED BY <1>1, <1>2, SeqInduction
<1> QED BY <1>3

--------
(* Items *)

AttributeTokens == FilterTokens \ {"(", ")", "&", "|", "!", "=", "*"}
ValueTokens == FilterTokens \ {"(", ")", "*"}

\* None of the tokens is in s.
Lacks(s, tokens) == \A x \in tokens : Positions(s, x) = {}

\* What the texts in a filter have none of.
LEMMA PartTexts ==
  /\ \A a \in AttributeTexts :
       a \in Seq(FilterTokens) /\ Lacks(a, {"(", ")", "&", "|", "!", "=", "*"})
  /\ \A v \in ValueTexts : v \in Seq(FilterTokens) /\ Lacks(v, {"(", ")", "*"})
  /\ AttributeTexts = Seq(AttributeTokens) /\ ValueTexts = Seq(ValueTokens)
<1>1. AttributeTexts = Seq(AttributeTokens) /\ ValueTexts = Seq(ValueTokens)
  BY Zenon DEF AttributeTexts, ValueTexts, AttributeTokens, ValueTokens
<1>2. AttributeTokens \subseteq FilterTokens /\ ValueTokens \subseteq FilterTokens
  BY Zenon DEF AttributeTokens, ValueTokens
<1>3. Seq(AttributeTokens) \subseteq Seq(FilterTokens) /\ Seq(ValueTokens) \subseteq Seq(FilterTokens)
  BY <1>2, SeqWider
<1>4. ASSUME NEW a \in Seq(AttributeTokens), NEW x \in {"(", ")", "&", "|", "!", "=", "*"}
      PROVE  Positions(a, x) = {}
  <2>1. x \notin AttributeTokens BY Zenon DEF AttributeTokens
  <2>2. \A i \in DOMAIN a : a[i] \in AttributeTokens OBVIOUS
  <2> QED BY <2>1, <2>2 DEF Positions
<1>5. ASSUME NEW v \in Seq(ValueTokens), NEW x \in {"(", ")", "*"} PROVE Positions(v, x) = {}
  <2>1. x \notin ValueTokens BY Zenon DEF ValueTokens
  <2>2. \A i \in DOMAIN v : v[i] \in ValueTokens OBVIOUS
  <2> QED BY <2>1, <2>2 DEF Positions
<1> QED BY <1>1, <1>3, <1>4, <1>5, Zenon DEF Lacks

\* The tokens that the proofs tell apart.
LEMMA TokensApart ==
  /\ "=" # "*" /\ "=" # "(" /\ "=" # ")" /\ "*" # "(" /\ "*" # ")" /\ "(" # ")"
  /\ "=" \notin {"&", "|", "!"} /\ ":" \notin {"(", ")", "&", "|", "!", "=", "*"}
  /\ "~" \notin {"(", ")", "&", "|", "!", "=", "*"} /\ ">" \notin {"(", ")", "&", "|", "!", "=", "*"}
  /\ "<" \notin {"(", ")", "&", "|", "!", "=", "*"}
  /\ "dn" \notin {"(", ")", "&", "|", "!", "=", "*"}
  OBVIOUS

\* Tokens of an operator that the parser leaves to the attribute.
LEMMA MorePlain ==
  /\ ":" \in AttributeTokens /\ "~" \in AttributeTokens /\ ">" \in AttributeTokens
  /\ "<" \in AttributeTokens /\ "dn" \in AttributeTokens
  BY MarksAreTokens, TokensApart, Zenon DEF AttributeTokens

\* The test for a presence filter is never passed by a text without stars.
LEMMA SuffixHasStar ==
  ASSUME NEW T, NEW s \in Seq(T), IsSuffix(<<"=", "*">>, s)
  PROVE  Positions(s, "*") # {}
<1>1. PICK p, r, n : p = Reverse(<<"=", "*">>) /\ r = Reverse(s) /\ n = Len(s) OBVIOUS
<1>2. Len(p) = 2 /\ p[1] = "*" /\ n \in Nat BY <1>1 DEF Reverse
<1>3. r = [i \in 1 .. n |-> s[(n - i) + 1]] BY <1>1 DEF Reverse
<1>4. r \in Seq(T) /\ Len(r) = n
  <2>1. \A i \in 1 .. n : (n - i) + 1 \in 1 .. Len(s) BY <1>1, <1>2
  <2>2. r \in [1 .. n -> T] BY <1>1, <1>3, <2>1
  <2> QED BY <1>2, <2>2, SequenceOf
<1>5. Len(p) <= Len(r) /\ SubSeq(p, 1, Len(p)) = SubSeq(r, 1, Len(p)) BY <1>1 DEF IsSuffix, IsPrefix
<1>6. p = <<"*", "=">> BY <1>1 DEF Reverse
<1>7. r[1] = "*"
  <2>1. SubSeq(p, 1, 2)[1] = "*" BY <1>6
  <2>2. SubSeq(r, 1, 2)[1] = r[1] BY <1>2, <1>4, <1>5
  <2> QED BY <1>2, <1>5, <2>1, <2>2
<1>8. n >= 1 /\ s[n] = "*" BY <1>1, <1>2, <1>3, <1>4, <1>5, <1>7
<1>9. n \in Positions(s, "*") BY <1>1, <1>2, <1>8 DEF Positions
<1> QED BY <1>9

\* An attribute, "=" and a value.
IsItem(t, a, v) ==
  /\ t \in Seq(FilterTokens) /\ t # <<>> /\ t[1] \notin {"&", "|", "!"}
  /\ Positions(t, "=") # {} /\ Min(Positions(t, "=")) = Len(a) + 1 /\ Len(a) \in Nat
  /\ SubSeq(t, 1, Len(a)) = a /\ SubSeq(t, Len(a) + 2, Len(t)) = v

\* The parser cuts it where it was put together.
LEMMA ItemCut ==
  ASSUME NEW a \in AttributeTexts, NEW v \in Seq(FilterTokens),
         NEW t, t = After(a, "=", v)
  PROVE  IsItem(t, a, v)
<1>1. PICK n : n = Len(a) OBVIOUS
<1>2. a \in Seq(FilterTokens) /\ Lacks(a, {"(", ")", "&", "|", "!", "=", "*"}) /\ n \in Nat
      /\ "=" \in FilterTokens
  BY <1>1, PartTexts, MarksAreTokens
<1>3. t \in Seq(FilterTokens) /\ Reaches(t, a, "=", v) BY <1>2, AfterIs
<1>4. /\ Len(t) = n + 1 + Len(v) /\ Len(v) \in Nat /\ DOMAIN t = 1 .. Len(t) /\ DOMAIN v = 1 .. Len(v)
      /\ t[n + 1] = "="
      /\ \A i \in 1 .. n : t[i] = a[i]
      /\ \A i \in 1 .. Len(v) : t[n + 1 + i] = v[i]
  BY <1>1, <1>3 DEF Reaches
<1>5. \A i \in 1 .. n : a[i] \notin {"(", ")", "&", "|", "!", "=", "*"}
  BY <1>1, <1>2 DEF Lacks, Positions
<1>6. Positions(t, "=") # {} /\ Min(Positions(t, "=")) = n + 1
  <2>1. PICK S : S = Positions(t, "=") OBVIOUS
  <2>2. n + 1 \in S /\ S \in SUBSET Nat BY <1>2, <1>4, <2>1 DEF Positions
  <2>3. ASSUME NEW i \in S PROVE n + 1 <= i
    <3>1. i \in 1 .. Len(t) /\ t[i] = "=" BY <1>4, <2>1 DEF Positions
    <3>2. i \notin 1 .. n BY <1>4, <1>5, <3>1
    <3> QED BY <1>2, <3>1, <3>2
  <2>4. PICK e \in S : e = n + 1 BY <2>2
  <2>5. Min(S) = e BY <2>2, <2>3, <2>4, LeastTells
  <2> QED BY <2>1, <2>2, <2>4, <2>5
<1>7. SubSeq(t, 1, n) = a /\ SubSeq(t, n + 2, Len(t)) = v
  <2>1. /\ SubSeq(After(a, "=", v), 1, Len(a)) = a
        /\ SubSeq(After(a, "=", v), Len(a) + 2, Len(After(a, "=", v))) = v
    BY <1>2, AfterParts
  <2> QED BY <1>1, <2>1, Zenon
<1>8. t # <<>> /\ t[1] \notin {"&", "|", "!"}
  <2>1. CASE n = 0 BY <1>4, <2>1, TokensApart
  <2>2. CASE n # 0
    <3>1. 1 \in 1 .. n BY <1>2, <2>2
    <3>2. t[1] = a[1] /\ a[1] \notin {"&", "|", "!"} BY <1>4, <1>5, <3>1
    <3> QED BY <1>2, <1>4, <3>2
  <2> QED BY <2>1, <2>2
<1> QED BY <1>1, <1>2, <1>3, <1>6, <1>7, <1>8, Zenon DEF IsItem

\* Its parentheses and stars are those of the value.
LEMMA ItemMarks ==
  ASSUME NEW a \in AttributeTexts, NEW v \in Seq(FilterTokens),
         NEW t, t = After(a, "=", v), NEW x \in {"(", ")", "*"}
  PROVE  Positions(t, x) = {} <=> Positions(v, x) = {}
<1>1. PICK n : n = Len(a) OBVIOUS
<1>2. a \in Seq(FilterTokens) /\ Lacks(a, {"(", ")", "&", "|", "!", "=", "*"}) /\ n \in Nat
      /\ "=" \in FilterTokens
  BY <1>1, PartTexts, MarksAreTokens
<1>3. t \in Seq(FilterTokens) /\ Reaches(t, a, "=", v) BY <1>2, AfterIs
<1>4. /\ Len(t) = n + 1 + Len(v) /\ Len(v) \in Nat /\ DOMAIN t = 1 .. Len(t) /\ DOMAIN v = 1 .. Len(v)
      /\ t[n + 1] = "="
      /\ \A i \in 1 .. n : t[i] = a[i]
      /\ \A i \in 1 .. Len(v) : t[n + 1 + i] = v[i]
  BY <1>1, <1>3 DEF Reaches
<1>5. \A i \in 1 .. n : a[i] \notin {"(", ")", "&", "|", "!", "=", "*"}
  BY <1>1, <1>2 DEF Lacks, Positions
<1>6. x # "=" /\ \A i \in 1 .. n : t[i] # x BY <1>4, <1>5
<1>7. ASSUME NEW i \in Positions(t, x) PROVE Positions(v, x) # {}
  <2>1. i \in 1 .. Len(t) /\ t[i] = x BY <1>4 DEF Positions
  <2>2. PICK j \in 1 .. Len(v) : i = n + 1 + j
    <3>1. i \notin 1 .. n /\ i # n + 1 BY <1>4, <1>6, <2>1
    <3>2. i - (n + 1) \in 1 .. Len(v) /\ i = n + 1 + (i - (n + 1)) BY <1>2, <1>4, <2>1, <3>1
    <3> QED BY <3>2
  <2>3. j \in Positions(v, x) BY <1>4, <2>1, <2>2 DEF Positions
  <2> QED BY <2>3
<1>8. ASSUME NEW j \in Positions(v, x) PROVE Positions(t, x) # {}
  <2>1. j \in 1 .. Len(v) /\ v[j] = x BY <1>4 DEF Positions
  <2>2. n + 1 + j \in 1 .. Len(t) /\ t[n + 1 + j] = x BY <1>2, <1>4, <2>1
  <2>3. n + 1 + j \in Positions(t, x) BY <1>4, <2>2 DEF Positions
  <2> QED BY <2>3
<1> QED BY <1>7, <1>8

\* Without a star in its value an item is read as a match.
LEMMA MatchParsed ==
  ASSUME NEW a \in AttributeTexts, NEW v \in ValueTexts, NEW t, t = After(a, "=", v)
  PROVE  ParseItem(t) = Match(a, <<"=">>, v)
<1>1. v \in Seq(FilterTokens) /\ Positions(v, "*") = {} BY PartTexts DEF Lacks
<1>2. PICK n : n = Len(a) OBVIOUS
<1>3. /\ t \in Seq(FilterTokens) /\ n \in Nat
      /\ Positions(t, "=") # {} /\ Min(Positions(t, "=")) = n + 1
      /\ SubSeq(t, 1, n) = a /\ SubSeq(t, n + 2, Len(t)) = v /\ Positions(t, "*") = {}
  <2>1. Positions(t, "*") = {} <=> Positions(v, "*") = {} BY <1>1, ItemMarks
  <2>2. IsItem(t, a, v) BY <1>1, ItemCut
  <2> QED BY <1>1, <1>2, <2>1, <2>2, Zenon DEF IsItem
<1>4. ~IsSuffix(<<"=", "*">>, t) BY <1>3, SuffixHasStar
<1>5. (n + 1) - 1 = n /\ (n + 1) + 1 = n + 2 BY <1>3
<1> QED BY <1>1, <1>3, <1>4, <1>5, Zenon DEF ParseItem

\* With one it is read as a substring filter.
LEMMA StarsParsed ==
  ASSUME NEW a \in AttributeTexts, NEW v \in Seq(FilterTokens), Positions(v, "*") # {},
         NEW t, t = After(a, "=", v), NEW parts, parts = Split(v, "*")
  PROVE  ParseItem(t) = Substring(a, Head(parts), NonEmpty(SubSeq(parts, 2, Len(parts) - 1)),
                                  Last(parts))
<1>1. PICK n : n = Len(a) OBVIOUS
<1>2. /\ t \in Seq(FilterTokens) /\ n \in Nat
      /\ Positions(t, "=") # {} /\ Min(Positions(t, "=")) = n + 1
      /\ SubSeq(t, 1, n) = a /\ SubSeq(t, n + 2, Len(t)) = v /\ Positions(t, "*") # {}
  <2>1. Positions(t, "*") = {} <=> Positions(v, "*") = {} BY ItemMarks
  <2>2. IsItem(t, a, v) BY ItemCut
  <2> QED BY <1>1, <2>1, <2>2, Zenon DEF IsItem
<1>3. (n + 1) - 1 = n /\ (n + 1) + 1 = n + 2 BY <1>2
<1> QED BY <1>2, <1>3, Zenon DEF ParseItem

--------
(* Texts of the kinds of items *)

\* Separators in a row.
LEMMA AfterTwice ==
  ASSUME NEW T, NEW s \in Seq(T), NEW x \in T, NEW w \in Seq(T), NEW y \in T, NEW v \in Seq(T)
  PROVE  After(After(s, x, w), y, v) = After(s, x, After(w, y, v))
<1>1. PICK a, b : a = <<x>> /\ b = <<y>> OBVIOUS
<1>2. a \in Seq(T) /\ b \in Seq(T) BY <1>1
<1>3. PICK p, q : p = Then(s, a) /\ q = Then(w, b) OBVIOUS
<1>4. p \in Seq(T) /\ q \in Seq(T) /\ Then(p, w) \in Seq(T) BY <1>2, <1>3, Joined DEF Then
<1>5. Then(Then(Then(p, w), b), v) = Then(Then(p, w), Then(b, v)) BY <1>2, <1>4, ThenTwice
<1>6. Then(b, v) \in Seq(T) BY <1>2, Joined DEF Then
<1>7. Then(Then(p, w), Then(b, v)) = Then(p, Then(w, Then(b, v))) BY <1>4, <1>6, ThenTwice
<1>8. Then(w, Then(b, v)) = Then(q, v) BY <1>2, <1>3, ThenTwice
<1> QED BY <1>1, <1>3, <1>5, <1>7, <1>8, Zenon DEF After

\* A first word is joined with the separator behind it.
LEMMA JoinFirst ==
  ASSUME NEW T, NEW i \in Seq(T), NEW x \in T, NEW mid \in Seq(Seq(T)), mid # <<>>
  PROVE  Join(Then(<<i>>, mid), x) = After(i, x, Join(mid, x))
<1>1. PICK U, f : U = Seq(T) /\ f = <<i>> OBVIOUS
<1>2. i \in U /\ f \in Seq(U) /\ f # <<>> BY <1>1
<1>3. PICK S : S = {m \in Seq(U) : m = <<>> \/ Join(Then(f, m), x) = After(i, x, Join(m, x))}
  OBVIOUS
<1>4. <<>> \in S
  <2>1. <<>> \in Seq(U) OBVIOUS
  <2> QED BY <1>3, <2>1, Zenon
<1>5. ASSUME NEW s \in Seq(U), NEW w \in U, s \in S PROVE Append(s, w) \in S
  <2>1. Append(s, w) \in Seq(U) /\ Then(f, Append(s, w)) = Append(Then(f, s), w)
        /\ Then(f, s) \in Seq(U) /\ Then(f, s) # <<>>
    BY <1>2, JoinedLast, Joined DEF Then
  <2>2. Join(Append(Then(f, s), w), x) = After(Join(Then(f, s), x), x, w) BY <1>1, <2>1, JoinMore
  <2>3. CASE s = <<>>
    <3>1. Then(f, s) = f /\ Append(s, w) = <<w>> BY <1>2, <2>3, JoinedEmpty DEF Then
    <3>2. Join(f, x) = i /\ Join(<<w>>, x) = w BY <1>1, JoinOne
    <3> QED BY <1>3, <2>1, <2>2, <3>1, <3>2, Zenon
  <2>4. CASE s # <<>>
    <3>1. Join(Then(f, s), x) = After(i, x, Join(s, x)) BY <1>3, <1>5, <2>4, Zenon
    <3>2. Join(Append(s, w), x) = After(Join(s, x), x, w) /\ Join(s, x) \in Seq(T)
      BY <1>1, <2>4, JoinMore, JoinType
    <3>3. After(After(i, x, Join(s, x)), x, w) = After(i, x, After(Join(s, x), x, w))
      BY <1>1, <3>2, AfterTwice
    <3> QED BY <1>3, <2>1, <2>2, <3>1, <3>2, <3>3, Zenon
  <2> QED BY <2>3, <2>4
<1>6. mid \in S BY ONLY <1>1, <1>4, <1>5, mid \in Seq(Seq(T)), SeqInduction
<1> QED BY <1>1, <1>3, <1>6, Zenon

\* The words are i, those of mid, and e.
Encloses(words, i, mid, e) ==
  /\ words # <<>> /\ Head(words) = i /\ Last(words) = e
  /\ SubSeq(words, 2, Len(words) - 1) = mid
  /\ Range(words) = {i, e} \cup Range(mid)

\* A row of words and what the parser takes from it.
LEMMA FirstAndLast ==
  ASSUME NEW U, NEW i \in U, NEW mid \in Seq(U), NEW e \in U,
         NEW words, words = Append(Then(<<i>>, mid), e)
  PROVE  words \in Seq(U) /\ Encloses(words, i, mid, e)
<1>1. PICK f, m : f = <<i>> /\ m = Len(mid) OBVIOUS
<1>2. f \in Seq(U) /\ Len(f) = 1 /\ f[1] = i /\ m \in Nat /\ Len(mid) = m /\ DOMAIN mid = 1 .. m
  BY <1>1
<1>3. PICK g : g = Then(f, mid) OBVIOUS
<1>4. /\ g \in Seq(U) /\ Len(g) = 1 + m /\ g[1] = i
      /\ \A k \in 1 .. m : g[1 + k] = mid[k]
  <2>1. /\ g \in Seq(U) /\ Len(g) = Len(f) + Len(mid)
        /\ \A k \in 1 .. Len(f) : g[k] = f[k]
        /\ \A k \in 1 .. Len(mid) : g[Len(f) + k] = mid[k]
    <3>1. g = f \o mid BY <1>3 DEF Then
    <3>2. /\ f \o mid \in Seq(U) /\ Len(f \o mid) = Len(f) + Len(mid)
          /\ \A k \in 1 .. Len(f) : (f \o mid)[k] = f[k]
          /\ \A k \in 1 .. Len(mid) : (f \o mid)[Len(f) + k] = mid[k]
      <4>1. f \in Seq(U) BY <1>2
      <4> QED BY ONLY <4>1, mid \in Seq(U), Joined
    <3> QED BY <3>1, <3>2, Zenon
  <2>2. 1 \in 1 .. Len(f) BY <1>2
  <2> QED BY <1>2, <2>1, <2>2
<1>5. words = Append(g, e) BY <1>1, <1>3
<1>6. /\ words \in Seq(U) /\ Len(words) = Len(g) + 1
      /\ \A k \in 1 .. Len(g) : words[k] = g[k]
      /\ words[Len(g) + 1] = e
  BY ONLY <1>4, <1>5, e \in U, Appended
<1>7. Len(g) + 1 = m + 2 /\ 1 \in 1 .. Len(g) /\ \A k \in 1 .. m : 1 + k \in 1 .. Len(g)
  BY <1>2, <1>4
<1>8. words[1] = i /\ Len(words) = m + 2 /\ words[m + 2] = e BY ONLY <1>4, <1>6, <1>7
<1>9. ASSUME NEW k \in 1 .. m PROVE words[1 + k] = mid[k] BY <1>4, <1>6, <1>7
<1>10. DOMAIN words = 1 .. m + 2 BY ONLY <1>6, <1>8
<1>11. words # <<>> /\ Head(words) = i /\ Last(words) = e BY <1>2, <1>6, <1>8, <1>10 DEF Last
<1>12. SubSeq(words, 2, Len(words) - 1) = mid
  <2>1. PICK r : r = SubSeq(words, 2, m + 1) OBVIOUS
  <2>2. r \in Seq(U) /\ Len(r) = m /\ \A k \in 1 .. m : r[k] = words[1 + k]
    <3>1. words \in Seq(U) /\ Len(words) = m + 2 /\ m \in Nat BY <1>2, <1>6, <1>8
    <3> QED BY ONLY <2>1, <3>1
  <2>3. r = mid BY <1>2, <1>9, <2>2, SameSeq
  <2>4. Len(words) - 1 = m + 1 BY <1>2, <1>8
  <2> QED BY <2>1, <2>3, <2>4
<1>13. Range(words) = {i, e} \cup Range(mid)
  <2>1. ASSUME NEW k \in 1 .. m + 2 PROVE words[k] \in {i, e} \cup Range(mid)
    <3>1. k = 1 \/ k = m + 2 \/ k - 1 \in 1 .. m BY <1>2
    <3>2. CASE k - 1 \in 1 .. m
      <4>1. k = 1 + (k - 1) BY <1>2
      <4>2. PICK j \in 1 .. m : k = 1 + j BY <3>2, <4>1
      <4> QED BY <1>2, <1>9, <4>2 DEF Range
    <3> QED BY <1>8, <3>1, <3>2
  <2>2. ASSUME NEW k \in 1 .. m PROVE mid[k] \in Range(words)
    <3>1. 1 + k \in 1 .. m + 2 BY <1>2
    <3> QED BY <1>9, <1>10, <3>1 DEF Range
  <2>3. i \in Range(words) /\ e \in Range(words)
    <3>1. 1 \in 1 .. m + 2 /\ m + 2 \in 1 .. m + 2 BY <1>2
    <3> QED BY <1>8, <1>10, <3>1 DEF Range
  <2>4. Range(words) \subseteq {i, e} \cup Range(mid) BY <1>10, <2>1 DEF Range
  <2>5. Range(mid) \subseteq Range(words) BY <1>2, <2>2 DEF Range
  <2> QED BY <2>3, <2>4, <2>5
<1> QED BY <1>6, <1>11, <1>12, <1>13, Zenon DEF Encloses

\* What is between the first and the last star of a substring.
Middle(any) == IF any = <<>> THEN << <<>> >> ELSE any

\* Joined, it is what the words in the middle are; without empty words it is those.
LEMMA MiddleIs ==
  ASSUME NEW T, NEW x \in T, NEW any \in Seq(Seq(T) \ {<<>>})
  PROVE  /\ Middle(any) \in Seq(Seq(T)) /\ Middle(any) # <<>>
         /\ Join(Middle(any), x) = Join(any, x)
         /\ NonEmpty(Middle(any)) = any
         /\ Range(Middle(any)) \subseteq {<<>>} \cup Range(any)
<1>1. any \in Seq(Seq(T)) /\ \A k \in 1 .. Len(any) : any[k] # <<>>
  <2>1. PICK V : V = Seq(T) \ {<<>>} OBVIOUS
  <2>2. V \subseteq Seq(T) /\ any \in Seq(V) BY <2>1
  <2>3. \A k \in 1 .. Len(any) : any[k] \in V BY <2>2
  <2>4. any \in Seq(Seq(T)) BY <2>2, SeqWider
  <2> QED BY <2>1, <2>3, <2>4
<1>2. CASE any = <<>>
  <2>1. PICK m : m = Middle(any) OBVIOUS
  <2>2. m = << <<>> >> /\ <<>> \in Seq(T) BY <1>2, <2>1 DEF Middle
  <2>3. m \in Seq(Seq(T)) /\ m # <<>> /\ Range(m) = {<<>>} BY <2>2 DEF Range
  <2>4. Join(m, x) = <<>> /\ Join(any, x) = <<>> BY <1>2, <2>2, JoinOne, JoinEmpty
  <2>5. {i \in DOMAIN m : m[i] # <<>>} = {} BY <2>2
  <2>6. NonEmpty(m) = <<>>
    <3>1. NonEmpty(m) = At(m, {}) BY <2>5, Zenon DEF NonEmpty
    <3>2. At(m, {}) = [k \in 1 .. Cardinality({}) |-> m[Nth({}, k - 1)]] BY Zenon DEF At
    <3>3. Cardinality({}) = 0 /\ 1 .. 0 = {} BY FS_EmptySet
    <3> QED BY <3>1, <3>2, <3>3
  <2> QED BY <1>2, <2>1, <2>3, <2>4, <2>6
<1>3. CASE any # <<>>
  <2>1. Middle(any) = any BY <1>3, Zenon DEF Middle
  <2>2. NonEmpty(any) = any BY <1>1, NonEmptyAll
  <2> QED BY <1>1, <1>3, <2>1, <2>2, Zenon
<1> QED BY <1>2, <1>3

--------
(* Stars *)

\* Equality with two sequences in a row.
LEMMA JoinedAre ==
  ASSUME NEW S, NEW p \in Seq(S), NEW q \in Seq(S), NEW r \in Seq(S), Len(p) = Len(q) + Len(r),
         \A i \in 1 .. Len(q) : p[i] = q[i],
         \A i \in 1 .. Len(r) : p[Len(q) + i] = r[i]
  PROVE  p = Then(q, r)
<1>1. PICK w, n, m : w = q \o r /\ n = Len(q) /\ m = Len(r) OBVIOUS
<1>2. /\ w \in Seq(S) /\ Len(w) = n + m /\ n \in Nat /\ m \in Nat
      /\ \A i \in 1 .. n : w[i] = q[i]
      /\ \A i \in 1 .. m : w[n + i] = r[i]
  BY <1>1, Joined
<1>3. ASSUME NEW i \in 1 .. n + m PROVE p[i] = w[i]
  <2>1. CASE i <= n
    <3>1. i \in 1 .. n BY <1>2, <2>1
    <3> QED BY <1>1, <1>2, <3>1, Zenon
  <2>2. CASE i > n
    <3>1. i - n \in 1 .. m /\ i = n + (i - n) BY <1>2, <2>2
    <3>2. PICK j \in 1 .. m : i = n + j BY <3>1, Zenon
    <3> QED BY <1>1, <1>2, <3>2, Zenon
  <2> QED BY <1>2, <2>1, <2>2
<1>4. Len(p) = n + m BY <1>1
<1> QED BY ONLY <1>1, <1>2, <1>3, <1>4, p \in Seq(S), SameSeq DEF Then

\* A star that follows another one.
AgainAt(s, i) == i > 1 /\ s[i] = "*" /\ s[i - 1] = "*"
StarPieces(s) == [i \in DOMAIN s |-> IF AgainAt(s, i) THEN <<>> ELSE <<s[i]>>]

LEMMA StarsAre == \A s : Stars(s) = FlattenSeq(StarPieces(s))
  BY DEF Stars, StarPieces, AgainAt

LEMMA StarPiecesType ==
  ASSUME NEW T, NEW s \in Seq(T)
  PROVE  /\ StarPieces(s) \in Seq(Seq(T)) /\ Len(StarPieces(s)) = Len(s)
         /\ \A i \in 1 .. Len(s) :
              StarPieces(s)[i] = IF AgainAt(s, i) THEN <<>> ELSE <<s[i]>>
<1>1. ASSUME NEW i \in 1 .. Len(s)
      PROVE  (IF AgainAt(s, i) THEN <<>> ELSE <<s[i]>>) \in Seq(T)
  <2>1. s[i] \in T OBVIOUS
  <2> QED BY <2>1
<1>2. DOMAIN s = 1 .. Len(s) /\ Len(s) \in Nat OBVIOUS
<1> QED BY <1>1, <1>2 DEF StarPieces

\* A star at the end of s and one at the start of t.
StarsMeet(s, t) == s # <<>> /\ t # <<>> /\ s[Len(s)] = "*" /\ t[1] = "*"

\* Stars are counted in each of two texts unless they meet.
LEMMA StarsThen ==
  ASSUME NEW T, NEW s \in Seq(T), NEW t \in Seq(T), ~StarsMeet(s, t)
  PROVE  Stars(Then(s, t)) = Then(Stars(s), Stars(t))
<1>1. PICK n, m, st : n = Len(s) /\ m = Len(t) /\ st = s \o t OBVIOUS
<1>2. /\ n \in Nat /\ m \in Nat /\ st \in Seq(T) /\ Len(st) = n + m
      /\ \A i \in 1 .. n : st[i] = s[i]
      /\ \A i \in 1 .. m : st[n + i] = t[i]
  BY <1>1, Joined
<1>3. ASSUME NEW i \in 1 .. n PROVE AgainAt(st, i) <=> AgainAt(s, i)
  <2>1. i > 1 => i - 1 \in 1 .. n BY <1>2
  <2> QED BY <1>2, <2>1 DEF AgainAt
<1>4. ASSUME NEW i \in 1 .. m PROVE AgainAt(st, n + i) <=> AgainAt(t, i)
  <2>1. CASE i = 1
    <3>1. ~AgainAt(t, i) BY <2>1 DEF AgainAt
    <3>2. ASSUME AgainAt(st, n + 1) PROVE FALSE
      <4>1. n \in 1 .. n /\ st[n + 1] = "*" /\ st[n] = "*" BY <1>2, <3>2 DEF AgainAt
      <4>2. s[n] = "*" /\ t[1] = "*" /\ n # 0 /\ m # 0 BY <1>2, <2>1, <4>1
      <4>3. s # <<>> /\ t # <<>> BY <1>1, <4>2
      <4> QED BY <1>1, <4>2, <4>3 DEF StarsMeet
    <3> QED BY <2>1, <3>1, <3>2
  <2>2. CASE i # 1
    <3>1. PICK j \in 1 .. m : i = j + 1 /\ (n + i) - 1 = n + j /\ i - 1 = j /\ n + i > 1 /\ i > 1
      <4>1. i - 1 \in 1 .. m /\ i = (i - 1) + 1 /\ (n + i) - 1 = n + (i - 1) /\ n + i > 1 /\ i > 1
        BY <1>2, <2>2
      <4> QED BY <4>1, Zenon
    <3> QED BY <1>2, <3>1, Zenon DEF AgainAt
  <2> QED BY <2>1, <2>2
<1>5. PICK p, q, r, S : /\ p = StarPieces(st) /\ q = StarPieces(s) /\ r = StarPieces(t)
                        /\ S = Seq(T)
  OBVIOUS
<1>6. /\ p \in Seq(S) /\ Len(p) = n + m
      /\ \A i \in 1 .. n + m : p[i] = IF AgainAt(st, i) THEN <<>> ELSE <<st[i]>>
  <2>1. /\ StarPieces(st) \in Seq(Seq(T)) /\ Len(StarPieces(st)) = Len(st)
        /\ \A i \in 1 .. Len(st) :
             StarPieces(st)[i] = IF AgainAt(st, i) THEN <<>> ELSE <<st[i]>>
    BY <1>2, StarPiecesType
  <2> QED BY <1>2, <1>5, <2>1, Zenon
<1>7. /\ q \in Seq(S) /\ Len(q) = n
      /\ \A i \in 1 .. n : q[i] = IF AgainAt(s, i) THEN <<>> ELSE <<s[i]>>
  BY <1>1, <1>5, StarPiecesType
<1>8. /\ r \in Seq(S) /\ Len(r) = m
      /\ \A i \in 1 .. m : r[i] = IF AgainAt(t, i) THEN <<>> ELSE <<t[i]>>
  BY <1>1, <1>5, StarPiecesType
<1>9. ASSUME NEW i \in 1 .. Len(q) PROVE p[i] = q[i]
  <2>1. i \in 1 .. n /\ i \in 1 .. n + m BY <1>2, <1>7
  <2> QED BY <1>2, <1>3, <1>6, <1>7, <2>1, Zenon
<1>10. ASSUME NEW i \in 1 .. Len(r) PROVE p[Len(q) + i] = r[i]
  <2>1. i \in 1 .. m /\ n + i \in 1 .. n + m BY <1>2, <1>8
  <2>2. p[n + i] = r[i] BY <1>2, <1>4, <1>6, <1>8, <2>1, Zenon
  <2> QED BY <1>7, <2>2, Zenon
<1>11. p = q \o r
  <2>1. Len(p) = Len(q) + Len(r) BY <1>6, <1>7, <1>8
  <2> QED BY <1>6, <1>7, <1>8, <1>9, <1>10, <2>1, JoinedAre DEF Then
<1>12. FlattenSeq(q \o r) = FlattenSeq(q) \o FlattenSeq(r) BY <1>5, <1>7, <1>8, FlattenConcat
<1> QED BY <1>1, <1>5, <1>11, <1>12, StarsAre, Zenon DEF Then

LEMMA StarsOfOne ==
  ASSUME NEW x
  PROVE  Stars(<<x>>) = <<x>>
<1>1. StarPieces(<<x>>) = << <<x>> >> BY DEF StarPieces, AgainAt
<1>2. <<x>> \in Seq({x}) OBVIOUS
<1> QED BY <1>1, <1>2, StarsAre, FlattenShort

LEMMA StarsOfNone == Stars(<<>>) = <<>>
<1>1. StarPieces(<<>>) = <<>> BY DEF StarPieces
<1> QED BY <1>1, StarsAre, FlattenEmpty

\* A star after a star says nothing.
LEMMA StarAgain ==
  ASSUME NEW T, NEW s \in Seq(T), s # <<>>, s[Len(s)] = "*", "*" \in T
  PROVE  Stars(Append(s, "*")) = Stars(s)
<1>1. PICK n, t : n = Len(s) /\ t = Append(s, "*") OBVIOUS
<1>2. /\ n \in Nat /\ n >= 1 /\ t \in Seq(T) /\ Len(t) = n + 1 /\ t[n + 1] = "*" /\ t[n] = "*"
      /\ \A i \in 1 .. n : t[i] = s[i]
  <2>1. /\ t \in Seq(T) /\ Len(t) = n + 1 /\ t[n + 1] = "*" /\ \A i \in 1 .. n : t[i] = s[i]
    BY <1>1, Appended
  <2>2. n \in Nat /\ n >= 1 BY <1>1
  <2>3. n \in 1 .. n BY <2>2
  <2> QED BY <1>1, <2>1, <2>2, <2>3
<1>3. PICK p, q, S : p = StarPieces(t) /\ q = StarPieces(s) /\ S = Seq(T) OBVIOUS
<1>4. /\ p \in Seq(S) /\ Len(p) = n + 1
      /\ \A i \in 1 .. n + 1 : p[i] = IF AgainAt(t, i) THEN <<>> ELSE <<t[i]>>
  <2>1. /\ StarPieces(t) \in Seq(Seq(T)) /\ Len(StarPieces(t)) = Len(t)
        /\ \A i \in 1 .. Len(t) : StarPieces(t)[i] = IF AgainAt(t, i) THEN <<>> ELSE <<t[i]>>
    BY <1>2, StarPiecesType
  <2> QED BY <1>2, <1>3, <2>1, Zenon
<1>5. /\ q \in Seq(S) /\ Len(q) = n
      /\ \A i \in 1 .. n : q[i] = IF AgainAt(s, i) THEN <<>> ELSE <<s[i]>>
  BY <1>1, <1>3, StarPiecesType
<1>6. ASSUME NEW i \in 1 .. n PROVE p[i] = q[i]
  <2>1. i > 1 => i - 1 \in 1 .. n BY <1>2
  <2>2. AgainAt(t, i) <=> AgainAt(s, i) BY <1>2, <2>1 DEF AgainAt
  <2>3. i \in 1 .. n + 1 BY <1>2
  <2> QED BY <1>2, <1>4, <1>5, <2>2, <2>3, Zenon
<1>7. p[n + 1] = <<>>
  <2>1. n + 1 \in 1 .. n + 1 /\ n + 1 > 1 /\ (n + 1) - 1 = n BY <1>2
  <2> QED BY <1>2, <1>4, <2>1, Zenon DEF AgainAt
<1>8. <<>> \in S BY <1>3
<1>9. PICK a : a = Append(q, <<>>) OBVIOUS
<1>10. /\ a \in Seq(S) /\ Len(a) = n + 1 /\ a[n + 1] = <<>> /\ \A i \in 1 .. n : a[i] = q[i]
  <2>1. /\ Append(q, <<>>) \in Seq(S) /\ Len(Append(q, <<>>)) = Len(q) + 1
        /\ \A i \in 1 .. Len(q) : Append(q, <<>>)[i] = q[i]
        /\ Append(q, <<>>)[Len(q) + 1] = <<>>
    BY <1>5, <1>8, Appended
  <2> QED BY <1>5, <1>9, <2>1, Zenon
<1>11. p = a
  <2>1. ASSUME NEW i \in 1 .. Len(p) PROVE p[i] = a[i]
    <3>1. i \in 1 .. n \/ i = n + 1 BY <1>2, <1>4
    <3> QED BY <1>6, <1>7, <1>10, <3>1, Zenon
  <2> QED BY <1>4, <1>10, <2>1, SameSeq
<1>12. FlattenSeq(a) = FlattenSeq(q) \o <<>> /\ FlattenSeq(q) \in Seq(T)
  BY <1>3, <1>5, <1>8, <1>9, FlattenAppend, FlattenType
<1>13. FlattenSeq(q) \o <<>> = FlattenSeq(q) BY <1>12, JoinedEmpty
<1> QED BY <1>1, <1>3, <1>11, <1>12, <1>13, StarsAre, Zenon

--------
(* Items return *)

\* The parser reads it as an item.
Unmarked(t) ==
  /\ t \in Seq(FilterTokens) /\ t # <<>> /\ t[1] \notin {"&", "|", "!"}
  /\ Positions(t, "(") = {} /\ Positions(t, ")") = {}

\* What reading and printing an item keep.
ItemReturned(t) ==
  /\ Unmarked(t) /\ ParseItem(t) \in ItemFilters
  /\ Stars(ItemText(ParseItem(t))) = Stars(t)
  /\ Positions(t, "*") = {} => ItemText(ParseItem(t)) = t
  /\ ParseItem(ItemText(ParseItem(t))) = ParseItem(t)

\* The text of an item is not taken for a group or a negation.
LEMMA ItemUnmarked ==
  ASSUME NEW a \in AttributeTexts, NEW v \in Seq(FilterTokens),
         Positions(v, "(") = {}, Positions(v, ")") = {}, NEW t, t = After(a, "=", v)
  PROVE  Unmarked(t)
<1>1. IsItem(t, a, v) BY ItemCut
<1>2. Positions(t, "(") = {} <=> Positions(v, "(") = {} BY ItemMarks
<1>3. Positions(t, ")") = {} <=> Positions(v, ")") = {} BY ItemMarks
<1> QED BY <1>1, <1>2, <1>3, Zenon DEF IsItem, Unmarked

\* A text that is read as a match returns.
LEMMA MatchReturned ==
  ASSUME NEW a \in AttributeTexts, NEW v \in ValueTexts, NEW t, t = After(a, "=", v)
  PROVE  ItemReturned(t)
<1>1. v \in Seq(FilterTokens) /\ Positions(v, "(") = {} /\ Positions(v, ")") = {}
  BY PartTexts DEF Lacks
<1>2. Unmarked(t) BY <1>1, ItemUnmarked
<1>3. PICK r : r = Match(a, <<"=">>, v) OBVIOUS
<1>4. ParseItem(t) = r BY <1>3, MatchParsed
<1>5. r \in ItemFilters BY <1>3 DEF Match, ItemFilters, MatchFilters
<1>6. ItemText(r) = t
  <2>1. r.type = "match" /\ r.attribute = a /\ r.operator = <<"=">> /\ r.value = v BY <1>3 DEF Match
  <2>2. ItemText(r) = r.attribute \o r.operator \o r.value BY <2>1 DEF ItemText
  <2> QED BY <2>1, <2>2, Zenon DEF After, Then
<1> QED BY <1>2, <1>4, <1>5, <1>6, Zenon DEF ItemReturned

\* A substring filter is read from its text as it was.
LEMMA SubstringText ==
  ASSUME NEW f \in SubstringFilters
  PROVE  /\ Unmarked(ItemText(f)) /\ ParseItem(ItemText(f)) = f
         /\ f.any = <<>> /\ f.final = <<>> =>
              ItemText(f) = After(f.attribute, "=", After(After(f.initial, "*", <<>>), "*", <<>>))
<1>1. PICK T, a, i, any, e : T = FilterTokens /\ a = f.attribute /\ i = f.initial /\ any = f.any
                             /\ e = f.final
  OBVIOUS
<1>2. /\ a \in AttributeTexts /\ i \in ValueTexts /\ any \in Seq(ValueTexts \ {<<>>})
      /\ e \in ValueTexts /\ f.type = "substring" /\ f = Substring(a, i, any, e)
  BY <1>1 DEF SubstringFilters, Substring
<1>3. PICK m, words, v, t : /\ m = Middle(any) /\ words = Append(Then(<<i>>, m), e)
                            /\ v = Join(words, "*") /\ t = After(a, "=", v)
  OBVIOUS
<1>4. "*" \in T /\ "=" \in T /\ a \in Seq(T) /\ i \in Seq(T) /\ e \in Seq(T)
      /\ ValueTexts = Seq(ValueTokens) /\ "*" \notin ValueTokens
  <2>1. a \in Seq(T) /\ i \in Seq(T) /\ e \in Seq(T) /\ ValueTexts = Seq(ValueTokens)
    BY <1>1, <1>2, PartTexts
  <2> QED BY <1>1, <2>1, MarksAreTokens, Zenon DEF ValueTokens
<1>5. any \in Seq(Seq(T) \ {<<>>})
  <2>1. ValueTexts \ {<<>>} \subseteq Seq(T) \ {<<>>} BY <1>1, PartTexts
  <2> QED BY <1>2, <2>1, SeqWider
<1>6. /\ m \in Seq(Seq(T)) /\ m # <<>> /\ Join(m, "*") = Join(any, "*") /\ NonEmpty(m) = any
      /\ Range(m) \subseteq {<<>>} \cup Range(any)
  BY <1>3, <1>4, <1>5, MiddleIs
<1>7. /\ words \in Seq(Seq(T)) /\ words # <<>> /\ Head(words) = i /\ Last(words) = e
      /\ SubSeq(words, 2, Len(words) - 1) = m /\ Range(words) = {i, e} \cup Range(m)
  <2>1. PICK U : U = Seq(T) OBVIOUS
  <2>2. i \in U /\ m \in Seq(U) /\ e \in U BY <1>4, <1>6, <2>1, Zenon
  <2>3. words = Append(Then(<<i>>, m), e) BY <1>3, Zenon
  <2>4. words \in Seq(U) /\ Encloses(words, i, m, e) BY <2>2, <2>3, FirstAndLast
  <2> QED BY <2>1, <2>4, Zenon DEF Encloses
<1>8. \A w \in Range(words) : w \in ValueTexts
  <2>1. ASSUME NEW w \in Range(any) PROVE w \in ValueTexts BY <1>2, <2>1 DEF Range
  <2>2. <<>> \in ValueTexts BY <1>4
  <2> QED BY <1>2, <1>6, <1>7, <2>1, <2>2, Zenon
<1>9. \A x \in {"(", ")", "*"} : Separable(words, x)
  <2>1. ASSUME NEW x \in {"(", ")", "*"}, NEW k \in 1 .. Len(words)
        PROVE  Positions(words[k], x) = {}
    <3>1. words[k] \in Range(words) BY <1>7 DEF Range
    <3>2. words[k] \in ValueTexts BY <1>8, <3>1
    <3> QED BY <2>1, <3>2, PartTexts, Zenon DEF Lacks
  <2> QED BY <2>1, Zenon DEF Separable
<1>10. Split(v, "*") = words BY <1>3, <1>4, <1>7, <1>9, SplitJoin
<1>11. v \in Seq(T) /\ Positions(v, "(") = {} /\ Positions(v, ")") = {}
  <2>1. v \in Seq(T) BY <1>3, <1>4, <1>7, JoinType
  <2>2. "*" # "(" /\ "*" # ")" OBVIOUS
  <2> QED BY <1>3, <1>4, <1>7, <1>9, <2>1, <2>2, JoinLacks
<1>12. PICK w : w = After(i, "*", Join(any, "*")) OBVIOUS
<1>13. v = After(w, "*", e) /\ w \in Seq(T)
  <2>1. PICK g : g = Then(<<i>>, m) OBVIOUS
  <2>2. g \in Seq(Seq(T)) /\ g # <<>>
    <3>1. PICK U, h : U = Seq(T) /\ h = <<i>> OBVIOUS
    <3>2. h \in Seq(U) /\ m \in Seq(U) /\ Len(h) = 1 /\ Len(m) \in Nat BY <1>4, <1>6, <3>1
    <3>3. h \o m \in Seq(U) /\ Len(h \o m) = Len(h) + Len(m) BY <3>2, Joined
    <3>4. h \o m # <<>> BY <3>2, <3>3
    <3> QED BY <2>1, <3>1, <3>3, <3>4, Zenon DEF Then
  <2>3. Join(Append(g, e), "*") = After(Join(g, "*"), "*", e) BY <1>4, <2>2, JoinMore
  <2>4. Join(g, "*") = After(i, "*", Join(m, "*")) BY <1>4, <1>6, <2>1, JoinFirst
  <2>5. Join(g, "*") \in Seq(T) BY <1>4, <2>2, JoinType
  <2> QED BY <1>3, <1>6, <1>12, <2>1, <2>3, <2>4, <2>5, Zenon
<1>14. Positions(v, "*") # {}
  <2>1. Reaches(v, w, "*", e) /\ v \in Seq(T) BY <1>4, <1>13, AfterIs
  <2>2. Len(w) + 1 \in DOMAIN v /\ v[Len(w) + 1] = "*" BY <1>4, <1>13, <2>1 DEF Reaches
  <2> QED BY <2>2 DEF Positions
<1>15. Unmarked(t) BY <1>1, <1>2, <1>3, <1>11, ItemUnmarked
<1>16. ParseItem(t) = f
  <2>1. ParseItem(t) = Substring(a, Head(words), NonEmpty(SubSeq(words, 2, Len(words) - 1)),
                                 Last(words))
    <3>1. v \in Seq(FilterTokens) /\ t = After(a, "=", v) /\ words = Split(v, "*")
      BY <1>1, <1>3, <1>10, <1>11, Zenon
    <3> QED BY <1>2, <1>14, <3>1, StarsParsed, Zenon
  <2> QED BY <1>2, <1>6, <1>7, <2>1, Zenon
<1>17. ItemText(f) = t
  <2>1. PICK j, s, q : j = Join(any, "*") /\ s = <<"*">> /\ q = <<"=">> OBVIOUS
  <2>2. ItemText(f) = ((((((a \o q) \o i) \o s) \o j) \o s) \o e)
    BY <1>1, <1>2, <2>1, Zenon DEF ItemText
  <2>3. ItemText(f) = Then(Then(Then(Then(Then(Then(a, q), i), s), j), s), e)
    BY <2>2, Zenon DEF Then
  <2>4. s \in Seq(T) /\ q \in Seq(T) /\ j \in Seq(T)
    <3>1. any \in Seq(Seq(T))
      <4>1. Seq(T) \ {<<>>} \subseteq Seq(T) OBVIOUS
      <4> QED BY <1>5, <4>1, SeqWider
    <3> QED BY <1>4, <2>1, <3>1, JoinType
  <2>5. PICK b : b = Then(a, q) OBVIOUS
  <2>6. b \in Seq(T) /\ Then(i, s) \in Seq(T) /\ Then(Then(i, s), j) \in Seq(T)
        /\ Then(Then(Then(i, s), j), s) \in Seq(T)
    BY <1>4, <2>4, <2>5, Joined DEF Then
  <2>7. Then(Then(b, i), s) = Then(b, Then(i, s)) BY <1>4, <2>4, <2>6, ThenTwice
  <2>8. Then(Then(b, Then(i, s)), j) = Then(b, Then(Then(i, s), j)) BY <2>4, <2>6, ThenTwice
  <2>9. Then(Then(b, Then(Then(i, s), j)), s) = Then(b, Then(Then(Then(i, s), j), s))
    BY <2>4, <2>6, ThenTwice
  <2>10. Then(Then(b, Then(Then(Then(i, s), j), s)), e) = Then(b, Then(Then(Then(Then(i, s), j), s), e))
    BY <1>4, <2>6, ThenTwice
  <2> QED BY <1>3, <1>12, <1>13, <2>1, <2>3, <2>5, <2>7, <2>8, <2>9, <2>10, Zenon DEF After
<1>18. ASSUME any = <<>>, e = <<>>
       PROVE  t = After(a, "=", After(After(i, "*", <<>>), "*", <<>>))
  BY <1>3, <1>12, <1>13, <1>18, JoinEmpty, Zenon
<1> QED BY <1>1, <1>15, <1>16, <1>17, <1>18, Zenon

\* It returns.
LEMMA SubstringReturned ==
  ASSUME NEW f \in SubstringFilters
  PROVE  ItemReturned(ItemText(f))
<1>1. Unmarked(ItemText(f)) /\ ParseItem(ItemText(f)) = f BY SubstringText
<1>2. f \in ItemFilters BY Zenon DEF ItemFilters
<1> QED BY <1>1, <1>2, Zenon DEF ItemReturned

\* A presence filter is read as a substring filter of one star, and prints two.
LEMMA PresenceReturned ==
  ASSUME NEW f \in PresenceFilters
  PROVE  ItemReturned(ItemText(f))
<1>1. PICK T, a, s, none, t : /\ T = FilterTokens /\ a = f.attribute /\ s = <<"*">> /\ none = <<>>
                              /\ t = After(a, "=", s)
  OBVIOUS
<1>2. /\ a \in AttributeTexts /\ f.type = "present" /\ a \in Seq(T) /\ "*" \in T /\ "=" \in T
      /\ s \in Seq(T) /\ none \in Seq(T)
  <2>1. a \in AttributeTexts /\ f.type = "present" BY <1>1 DEF PresenceFilters
  <2>2. a \in Seq(T) /\ "*" \in T /\ "=" \in T BY <1>1, <2>1, PartTexts, MarksAreTokens, Zenon
  <2> QED BY <1>1, <2>1, <2>2
<1>3. ItemText(f) = t
  <2>1. PICK q : q = <<"=">> OBVIOUS
  <2>2. q \in Seq(T) /\ q \o s = <<"=", "*">> BY <1>1, <1>2, <2>1, JoinedShort
  <2>3. ItemText(f) = a \o <<"=", "*">>
    <3>1. ItemText(f) = f.attribute \o <<"=", "*">> BY <1>2 DEF ItemText
    <3> QED BY <1>1, <3>1, Zenon
  <2>4. Then(Then(a, q), s) = Then(a, Then(q, s)) BY <1>2, <2>2, ThenTwice
  <2> QED BY <1>1, <2>1, <2>2, <2>3, <2>4, Zenon DEF After, Then
<1>4. After(none, "*", none) = s
  <2>1. none \o s = s /\ s \o none = s BY <1>1, <1>2, JoinedEmpty
  <2> QED BY <1>1, <2>1, Zenon DEF After, Then
<1>5. PICK words, blank : words = <<none, none>> /\ blank = <<none>> OBVIOUS
<1>6. /\ words \in Seq(Seq(T)) /\ words # <<>> /\ words = Append(blank, none) /\ blank # <<>>
      /\ blank \in Seq(Seq(T)) /\ Len(words) = 2 /\ Head(words) = none /\ Last(words) = none
      /\ words[1] = none /\ words[2] = none /\ SubSeq(words, 2, Len(words) - 1) = none
  BY <1>1, <1>2, <1>5 DEF Last
<1>7. Split(s, "*") = words
  <2>1. Join(words, "*") = After(Join(blank, "*"), "*", none) BY <1>2, <1>6, JoinMore
  <2>2. Join(blank, "*") = none BY <1>2, <1>5, JoinOne
  <2>3. Separable(words, "*")
    <3>1. Positions(none, "*") = {} BY <1>1 DEF Positions
    <3> QED BY <1>6, <3>1 DEF Separable
  <2>4. Split(Join(words, "*"), "*") = words BY <1>2, <1>6, <2>3, SplitJoin
  <2> QED BY <1>4, <2>1, <2>2, <2>4, Zenon
<1>8. PICK r : r = Substring(a, none, none, none) OBVIOUS
<1>9. s \in Seq(FilterTokens) /\ Positions(s, "*") # {} /\ Positions(s, "(") = {}
      /\ Positions(s, ")") = {}
  <2>1. s \in Seq(FilterTokens) BY <1>1, <1>2
  <2> QED BY <1>1, <2>1 DEF Positions
<1>10. ParseItem(t) = r
  <2>1. ParseItem(t) = Substring(a, Head(words), NonEmpty(SubSeq(words, 2, Len(words) - 1)),
                                 Last(words))
    <3>1. /\ a \in AttributeTexts /\ s \in Seq(FilterTokens) /\ Positions(s, "*") # {}
          /\ t = After(a, "=", s) /\ words = Split(s, "*")
      BY <1>1, <1>2, <1>7, <1>9, Zenon
    <3> QED BY ONLY <3>1, StarsParsed, Zenon
  <2>2. NonEmpty(none) = none
    <3>1. none \in Seq(Seq(T)) /\ Len(none) = 0 BY <1>1
    <3>2. \A i \in 1 .. Len(none) : none[i] # <<>> BY <3>1
    <3> QED BY <3>1, <3>2, NonEmptyAll
  <2> QED BY <1>6, <1>8, <2>1, <2>2, Zenon
<1>11. r \in SubstringFilters /\ r.any = <<>> /\ r.final = <<>> /\ r.initial = none /\ r.attribute = a
  BY <1>1, <1>2, <1>8 DEF ValueTexts, SubstringFilters, Substring
<1>12. /\ Unmarked(ItemText(r)) /\ ParseItem(ItemText(r)) = r
       /\ ItemText(r) = After(a, "=", After(After(none, "*", none), "*", none))
  BY <1>1, <1>11, SubstringText, Zenon
<1>13. Unmarked(t) BY <1>1, <1>2, <1>9, ItemUnmarked
<1>14. t \in Seq(T) /\ t # <<>> /\ t[Len(t)] = "*" /\ Len(t) \in Nat
  <2>1. t \in Seq(T) /\ Reaches(t, a, "=", s) BY <1>1, <1>2, AfterIs
  <2>2. Len(s) = 1 /\ s[1] = "*" /\ Len(a) \in Nat BY <1>1, <1>2
  <2>3. Len(t) = Len(a) + 2 /\ 1 \in 1 .. Len(s) /\ Len(a) + 1 + 1 = Len(a) + 2
    BY <2>1, <2>2 DEF Reaches
  <2>4. t[Len(a) + 1 + 1] = "*" BY <2>1, <2>2, <2>3 DEF Reaches
  <2> QED BY <2>1, <2>2, <2>3, <2>4
<1>15. ItemText(r) = Append(t, "*")
  <2>1. PICK b : b = Then(a, <<"=">>) OBVIOUS
  <2>2. b \in Seq(T)
    <3>1. <<"=">> \in Seq(T) BY <1>2
    <3> QED BY <1>2, <2>1, <3>1, Joined DEF Then
  <2>3. After(s, "*", none) = Append(s, "*")
    <3>1. s \o <<"*">> = Append(s, "*") /\ Append(s, "*") \in Seq(T) BY <1>2, JoinedLast
    <3>2. Append(s, "*") \o none = Append(s, "*") BY <1>1, <3>1, JoinedEmpty
    <3> QED BY <3>1, <3>2, Zenon DEF After, Then
  <2>4. b \o Append(s, "*") = Append(b \o s, "*") BY <1>2, <2>2, JoinedLast
  <2> QED BY <1>1, <1>4, <1>12, <2>1, <2>3, <2>4, Zenon DEF After, Then
<1>16. Stars(ItemText(r)) = Stars(t) BY <1>2, <1>14, <1>15, StarAgain
<1>17. Positions(t, "*") # {}
  <2>1. Len(t) \in DOMAIN t BY <1>14
  <2> QED BY <1>14, <2>1 DEF Positions
<1>18. r \in ItemFilters BY <1>11, Zenon DEF ItemFilters
<1> QED BY <1>3, <1>10, <1>12, <1>13, <1>16, <1>17, <1>18, Zenon DEF ItemReturned

\* An operator of two tokens leaves the first one to the attribute.
LEMMA TwoTokens ==
  ASSUME NEW a \in AttributeTexts, NEW x \in AttributeTokens, NEW v \in ValueTexts
  PROVE  /\ Append(a, x) \in AttributeTexts
         /\ (a \o <<x, "=">>) \o v = After(Append(a, x), "=", v)
<1>1. PICK T, p, q : T = FilterTokens /\ p = <<x>> /\ q = <<"=">> OBVIOUS
<1>2. Append(a, x) \in AttributeTexts BY PartTexts
<1>3. a \in Seq(T) /\ v \in Seq(T) /\ x \in T /\ "=" \in T
  BY <1>1, PartTexts, MarksAreTokens, Zenon DEF AttributeTokens
<1>4. p \in Seq(T) /\ q \in Seq(T) /\ p \o q = <<x, "=">>
  <2>1. <<x>> \in Seq(T) /\ <<"=">> \in Seq(T) /\ <<x>> \o <<"=">> = <<x, "=">>
    BY <1>3, JoinedShort, Zenon
  <2> QED BY <1>1, <2>1, Zenon
<1>5. Then(Then(a, p), q) = Then(a, Then(p, q)) BY <1>3, <1>4, ThenTwice
<1>6. a \o p = Append(a, x) BY <1>1, <1>3, JoinedLast
<1> QED BY <1>1, <1>2, <1>4, <1>5, <1>6, Zenon DEF After, Then

\* A match with any operator returns.
LEMMA OperatorReturned ==
  ASSUME NEW f \in MatchFilters
  PROVE  ItemReturned(ItemText(f))
<1>1. PICK a, v, o : a = f.attribute /\ v = f.value /\ o = f.operator OBVIOUS
<1>2. /\ a \in AttributeTexts /\ v \in ValueTexts /\ f.type = "match"
      /\ o \in {<<"=">>, <<"~", "=">>, <<">", "=">>, <<"<", "=">>}
  BY <1>1 DEF MatchFilters
<1>3. ItemText(f) = (a \o o) \o v BY <1>1, <1>2 DEF ItemText
<1>4. CASE o = <<"=">>
  <2>1. ItemText(f) = After(a, "=", v) BY <1>3, <1>4, Zenon DEF After, Then
  <2> QED BY <1>2, <2>1, MatchReturned
<1>5. ASSUME NEW x \in AttributeTokens, o = <<x, "=">> PROVE ItemReturned(ItemText(f))
  <2>1. Append(a, x) \in AttributeTexts /\ ItemText(f) = After(Append(a, x), "=", v)
    BY <1>2, <1>3, <1>5, TwoTokens, Zenon
  <2> QED BY <1>2, <2>1, MatchReturned
<1> QED BY <1>2, <1>4, <1>5, MorePlain, Zenon

\* An extensible filter is read as a match, with all before the "=" for attribute.
LEMMA ExtensibleReturned ==
  ASSUME NEW f \in ExtensibleFilters
  PROVE  ItemReturned(ItemText(f))
<1>1. PICK A, words, a, v : /\ A = AttributeTokens /\ v = f.value
                            /\ words = <<f.attribute, IF f.dn THEN <<"dn">> ELSE <<>>, f.rule>>
                            /\ a = Join(NonEmpty(words), ":")
  OBVIOUS
<1>2. /\ f.attribute \in AttributeTexts /\ f.rule \in AttributeTexts /\ v \in ValueTexts
      /\ f.type = "extensible"
  BY <1>1 DEF ExtensibleFilters
<1>3. words \in Seq(Seq(A))
  <2>1. PICK w : w = IF f.dn THEN <<"dn">> ELSE <<>> OBVIOUS
  <2>2. w \in Seq(A) BY <1>1, <2>1, MorePlain
  <2>3. f.attribute \in Seq(A) /\ f.rule \in Seq(A) BY <1>1, <1>2, PartTexts, Zenon
  <2> QED BY <1>1, <2>1, <2>2, <2>3
<1>4. a \in AttributeTexts
  <2>1. NonEmpty(words) \in Seq(Seq(A)) BY <1>3, NonEmptyIs
  <2>2. ":" \in A BY <1>1, MorePlain
  <2>3. a \in Seq(A) BY <1>1, <2>1, <2>2, JoinType
  <2> QED BY <1>1, <2>3, PartTexts, Zenon
<1>5. ItemText(f) = (a \o <<":", "=">>) \o v BY <1>1, <1>2 DEF ItemText
<1>6. Append(a, ":") \in AttributeTexts /\ ItemText(f) = After(Append(a, ":"), "=", v)
  BY <1>2, <1>4, <1>5, MorePlain, TwoTokens, Zenon
<1> QED BY <1>2, <1>6, MatchReturned

\* All kinds of items return.
LEMMA ItemReturns ==
  ASSUME NEW f \in ItemFilters
  PROVE  ItemReturned(ItemText(f))
  BY OperatorReturned, PresenceReturned, SubstringReturned, ExtensibleReturned, Zenon DEF ItemFilters

--------
(* The texts of filters and what they are parsed to *)

ItemExpression(t) == Wrapped(t)
NotExpression(u) == Wrapped(Then(<<"!">>, u))
GroupExpression(type, texts) == Wrapped(Then(<<type>>, FlattenSeq(texts)))

\* The texts of items, negations and groups.
LEMMA NestedTexts ==
  ASSUME NEW n \in Nat
  PROVE  /\ \A f \in ItemFilters : f \in Filters[n] /\ FilterTexts[n][f] = ItemExpression(ItemText(f))
         /\ \A f \in Filters[n] :
              Not(f) \in Filters[n + 1] /\ FilterTexts[n + 1][Not(f)] = NotExpression(FilterTexts[n][f])
         /\ \A type \in {"&", "|"}, fs \in Seq(Filters[n]) :
              /\ Group(type, fs) \in Filters[n + 1]
              /\ FilterTexts[n + 1][Group(type, fs)]
                   = GroupExpression(type, PiecesOf(FilterTexts[n], fs))
<1>1. ItemFilters \subseteq Filters[n]
  <2>1. n = 0 \/ n - 1 \in Nat OBVIOUS
  <2>2. ASSUME NEW m \in Nat, n = m + 1 PROVE ItemFilters \subseteq Filters[n] BY <2>2, FiltersAre
  <2>3. n - 1 \in Nat => n = (n - 1) + 1 OBVIOUS
  <2> QED BY <2>1, <2>2, <2>3, FiltersAre
<1>2. ASSUME NEW f \in ItemFilters PROVE FilterTexts[n][f] = ItemExpression(ItemText(f))
  <2>1. FilterTexts[n][f] = TextWith(FilterTexts[n - 1], f) BY <1>1, FilterTextsAre
  <2> QED BY <2>1, TextOfItem, Zenon DEF ItemExpression, Wrapped
<1>3. n + 1 \in Nat /\ (n + 1) - 1 = n OBVIOUS
<1>4. ASSUME NEW f \in Filters[n]
      PROVE  /\ Not(f) \in Filters[n + 1]
             /\ FilterTexts[n + 1][Not(f)] = NotExpression(FilterTexts[n][f])
  <2>1. PICK g : g = Not(f) OBVIOUS
  <2>2. g \in [type : {"!"}, filter : Filters[n]] /\ g.type = "!" /\ g.filter = f BY <2>1 DEF Not
  <2>3. g \in Filters[n + 1] BY <2>2, FiltersAre
  <2>4. FilterTexts[n + 1][g] = TextWith(FilterTexts[n], g) BY <1>3, <2>3, FilterTextsAre, Zenon
  <2>5. PICK t : t = FilterTexts[n] OBVIOUS
  <2>6. TextWith(t, g) = <<"(">> \o (<<"!">> \o t[g.filter]) \o <<")">>
    <3>1. g.type \notin {"&", "|"} BY <2>2
    <3> QED BY <2>2, <3>1 DEF TextWith
  <2> QED BY <2>1, <2>2, <2>3, <2>4, <2>5, <2>6, Zenon DEF NotExpression, Wrapped, Then
<1>5. ASSUME NEW type \in {"&", "|"}, NEW fs \in Seq(Filters[n])
      PROVE  /\ Group(type, fs) \in Filters[n + 1]
             /\ FilterTexts[n + 1][Group(type, fs)]
                  = GroupExpression(type, PiecesOf(FilterTexts[n], fs))
  <2>1. PICK g : g = Group(type, fs) OBVIOUS
  <2>2. g \in [type : {"&", "|"}, filters : Seq(Filters[n])] /\ g.type = type /\ g.filters = fs
    BY <2>1 DEF Group
  <2>3. g \in Filters[n + 1] BY <2>2, FiltersAre
  <2>4. FilterTexts[n + 1][g] = TextWith(FilterTexts[n], g) BY <1>3, <2>3, FilterTextsAre, Zenon
  <2>5. PICK t : t = FilterTexts[n] OBVIOUS
  <2>6. TextWith(t, g) = <<"(">> \o (<<g.type>> \o FlattenSeq([i \in DOMAIN g.filters |-> t[g.filters[i]]]))
                           \o <<")">>
    BY <2>2 DEF TextWith
  <2> QED BY <2>1, <2>2, <2>3, <2>4, <2>5, <2>6, Zenon DEF GroupExpression, PiecesOf, Wrapped, Then
<1> QED BY <1>1, <1>2, <1>4, <1>5

\* A sign before it leaves an expression what it is.
LEMMA SignThen ==
  ASSUME NEW x \in FilterTokens, x \notin {"(", ")"}, NEW s, Balanced(s), NEW t, t = Then(<<x>>, s)
  PROVE  /\ Balanced(t) /\ t \in Seq(FilterTokens) /\ t # <<>> /\ t[1] = x
         /\ SubSeq(t, 2, Len(t)) = s
<1>1. PICK T, a : T = FilterTokens /\ a = <<x>> OBVIOUS
<1>2. a \in Seq(T) /\ Len(a) = 1 /\ a[1] = x /\ s \in Seq(T) BY <1>1 DEF Balanced
<1>3. Balanced(a)
  <2>1. Positions(a, "(") = {} /\ Positions(a, ")") = {} BY <1>1, <1>2 DEF Positions
  <2> QED BY <1>1, <1>2, <2>1, PlainBalanced
<1>4. t = a \o s BY <1>1 DEF Then
<1>5. Balanced(t) BY <1>3, <1>4, BalancedMore
<1>6. t \in Seq(T) /\ Len(t) = 1 + Len(s) /\ t[1] = x
  <2>1. /\ a \o s \in Seq(T) /\ Len(a \o s) = Len(a) + Len(s)
        /\ \A i \in 1 .. Len(a) : (a \o s)[i] = a[i]
    BY ONLY <1>2, Joined
  <2>2. 1 \in 1 .. Len(a) BY <1>2
  <2> QED BY <1>2, <1>4, <2>1, <2>2, Zenon
<1>7. SubSeq(t, 2, Len(t)) = s
  <2>1. SubSeq(a \o s, Len(a) + 1, Len(a) + Len(s)) = s BY ONLY <1>2, SubAfter
  <2>2. Len(a) + 1 = 2 /\ Len(a) + Len(s) = Len(t) BY <1>2, <1>6
  <2> QED BY <1>4, <2>1, <2>2, Zenon
<1>8. t # <<>> BY <1>2, <1>6
<1> QED BY <1>1, <1>5, <1>6, <1>7, <1>8, Zenon

\* What the text of an item is parsed to.
LEMMA ParsedItem ==
  ASSUME NEW t, Unmarked(t)
  PROVE  /\ ItemExpression(t) \in Expressions
         /\ ParseExpression[ItemExpression(t)] = ParseItem(t)
<1>1. PICK s : s = Wrapped(t) OBVIOUS
<1>2. t \in Seq(FilterTokens) /\ t[1] \notin {"&", "|", "!"} /\ Balanced(t)
  BY PlainBalanced DEF Unmarked
<1>3. s \in Seq(FilterTokens) /\ SubSeq(s, 2, Len(s) - 1) = t BY <1>1, <1>2, WrappedParts, Zenon
<1>4. s \in Expressions BY <1>1, <1>2, <1>3, WrappedIsExpression DEF Expressions
<1>5. ParsedWith(ParseExpression, s) = ParseItem(t)
  <2>1. PICK p : p = ParseExpression OBVIOUS
  <2>2. t[1] \notin {"&", "|"} /\ t[1] # "!" BY <1>2
  <2>3. ParsedWith(p, s) = ParseItem(t) BY <1>3, <2>2, Zenon DEF ParsedWith
  <2> QED BY <2>1, <2>3, Zenon
<1> QED BY <1>1, <1>3, <1>4, <1>5, ParsingIs, Zenon DEF ItemExpression

\* What the text of a negation is parsed to, from what the text in it is.
LEMMA ParsedNot ==
  ASSUME NEW u \in Expressions, ParseExpression[u] # Invalid
  PROVE  /\ NotExpression(u) \in Expressions
         /\ ParseExpression[NotExpression(u)] = Not(ParseExpression[u])
<1>1. PICK t, s : t = Then(<<"!">>, u) /\ s = Wrapped(t) OBVIOUS
<1>2. Balanced(u) BY ExpressionBalanced DEF Expressions
<1>3. "!" \in FilterTokens /\ "!" \notin {"(", ")"} /\ "!" \notin {"&", "|"} BY MarksAreTokens
<1>4. Balanced(t) /\ t \in Seq(FilterTokens) /\ t # <<>> /\ t[1] = "!" /\ SubSeq(t, 2, Len(t)) = u
  BY <1>1, <1>2, <1>3, SignThen, Zenon
<1>5. s \in Seq(FilterTokens) /\ SubSeq(s, 2, Len(s) - 1) = t BY <1>1, <1>4, WrappedParts, Zenon
<1>6. s \in Expressions BY <1>1, <1>4, <1>5, WrappedIsExpression DEF Expressions
<1>7. ParsedWith(ParseExpression, s) = Not(ParseExpression[u])
  <2>1. PICK p : p = ParseExpression OBVIOUS
  <2>2. p[u] # Invalid BY <2>1, Zenon
  <2>3. ParsedWith(p, s) = Not(p[u]) BY <1>3, <1>4, <1>5, <2>2, Zenon DEF ParsedWith
  <2> QED BY <2>1, <2>3, Zenon
<1> QED BY <1>1, <1>5, <1>6, <1>7, ParsingIs, Zenon DEF NotExpression

\* What the text of a group is parsed to, from what the texts of its members are.
LEMMA ParsedGroup ==
  ASSUME NEW type \in {"&", "|"}, NEW texts \in Seq(Expressions),
         NEW members, members = PiecesOf(ParseExpression, texts),
         Invalid \notin Range(members)
  PROVE  /\ GroupExpression(type, texts) \in Expressions
         /\ ParseExpression[GroupExpression(type, texts)] = Group(type, members)
<1>1. PICK g, t, s : g = FlattenSeq(texts) /\ t = Then(<<type>>, g) /\ s = Wrapped(t) OBVIOUS
<1>2. Members(g) = texts /\ Balanced(g) BY <1>1, MembersAre DEF Grouped
<1>3. type \in FilterTokens /\ type \notin {"(", ")"} BY MarksAreTokens
<1>4. Balanced(t) /\ t \in Seq(FilterTokens) /\ t # <<>> /\ t[1] = type /\ SubSeq(t, 2, Len(t)) = g
  BY <1>1, <1>2, <1>3, SignThen, Zenon
<1>5. s \in Seq(FilterTokens) /\ SubSeq(s, 2, Len(s) - 1) = t BY <1>1, <1>4, WrappedParts, Zenon
<1>6. s \in Expressions BY <1>1, <1>4, <1>5, WrappedIsExpression DEF Expressions
<1>7. ParsedWith(ParseExpression, s) = Group(type, members)
  <2>1. PICK p : p = ParseExpression OBVIOUS
  <2>2. [k \in DOMAIN Members(g) |-> p[Members(g)[k]]] = members BY <1>2, <2>1, Zenon DEF PiecesOf
  <2>3. ParsedWith(p, s) = Group(type, members) BY <1>2, <1>4, <1>5, <2>2, Zenon DEF ParsedWith
  <2> QED BY <2>1, <2>3, Zenon
<1> QED BY <1>1, <1>5, <1>6, <1>7, ParsingIs, Zenon DEF GroupExpression

--------
(* The stars of nested texts *)

LEMMA StarsType ==
  ASSUME NEW T, NEW s \in Seq(T)
  PROVE  Stars(s) \in Seq(T)
  BY StarsAre, StarPiecesType, FlattenType

\* A token before or behind a text keeps its stars.
LEMMA StarsBehind ==
  ASSUME NEW T, NEW x \in T, x # "*", NEW s \in Seq(T)
  PROVE  Stars(Then(<<x>>, s)) = Then(<<x>>, Stars(s))
<1>1. PICK a : a = <<x>> OBVIOUS
<1>2. a \in Seq(T) /\ Len(a) = 1 /\ a[1] = x BY <1>1
<1>3. ~StarsMeet(a, s) BY <1>2 DEF StarsMeet
<1>4. Stars(Then(a, s)) = Then(Stars(a), Stars(s)) BY <1>2, <1>3, StarsThen
<1> QED BY <1>1, <1>4, StarsOfOne, Zenon

LEMMA StarsBefore ==
  ASSUME NEW T, NEW x \in T, x # "*", NEW s \in Seq(T)
  PROVE  Stars(Then(s, <<x>>)) = Then(Stars(s), <<x>>)
<1>1. PICK a : a = <<x>> OBVIOUS
<1>2. a \in Seq(T) /\ Len(a) = 1 /\ a[1] = x BY <1>1
<1>3. ~StarsMeet(s, a) BY <1>2 DEF StarsMeet
<1>4. Stars(Then(s, a)) = Then(Stars(s), Stars(a)) BY <1>2, <1>3, StarsThen
<1> QED BY <1>1, <1>4, StarsOfOne, Zenon

\* The stars of a text in parentheses.
LEMMA StarsOfWrapped ==
  ASSUME NEW s \in Seq(FilterTokens)
  PROVE  Stars(Wrapped(s)) = Then(Then(<<"(">>, Stars(s)), <<")">>)
<1>1. PICK T, w : T = FilterTokens /\ w = Then(<<"(">>, s) OBVIOUS
<1>2. "(" \in T /\ ")" \in T /\ s \in Seq(T) /\ "(" # "*" /\ ")" # "*" BY <1>1, MarksAreTokens
<1>3. w \in Seq(T)
  <2>1. <<"(">> \in Seq(T) BY <1>2
  <2> QED BY <1>1, <1>2, <2>1, Joined DEF Then
<1>4. Stars(w) = Then(<<"(">>, Stars(s)) BY <1>1, <1>2, StarsBehind
<1>5. Stars(Then(w, <<")">>)) = Then(Stars(w), <<")">>) BY <1>2, <1>3, StarsBefore
<1> QED BY <1>1, <1>4, <1>5, Zenon DEF Wrapped, Then

\* Each without its repeated stars.
Starred(texts) == [i \in DOMAIN texts |-> Stars(texts[i])]

\* The stars of one text more.
LEMMA StarredMore ==
  ASSUME NEW T, NEW texts \in Seq(Seq(T)), NEW t \in Seq(T)
  PROVE  Starred(texts) \in Seq(Seq(T)) /\ Starred(Append(texts, t)) = Append(Starred(texts), Stars(t))
<1>1. PICK U, n, more, p, q, a, x : /\ U = Seq(T) /\ n = Len(texts) /\ more = Append(texts, t)
                                    /\ p = Starred(more) /\ q = Starred(texts) /\ x = Stars(t)
                                    /\ a = Append(q, x)
  OBVIOUS
<1>2. /\ n \in Nat /\ more \in Seq(U) /\ Len(more) = n + 1 /\ more[n + 1] = t /\ x \in U
      /\ \A i \in 1 .. n : more[i] = texts[i]
  <2>1. texts \in Seq(U) /\ t \in U /\ n \in Nat BY <1>1
  <2>2. /\ more \in Seq(U) /\ Len(more) = n + 1 /\ more[n + 1] = t
        /\ \A i \in 1 .. n : more[i] = texts[i]
    BY <1>1, <2>1, Appended
  <2>3. x \in U BY <1>1, StarsType
  <2> QED BY <2>1, <2>2, <2>3, Zenon
<1>3. ASSUME NEW ts \in Seq(U)
      PROVE  /\ Starred(ts) \in Seq(U) /\ Len(Starred(ts)) = Len(ts)
             /\ \A i \in 1 .. Len(ts) : Starred(ts)[i] = Stars(ts[i])
  <2>1. PICK k : k = Len(ts) OBVIOUS
  <2>2. k \in Nat /\ DOMAIN ts = 1 .. k /\ \A i \in 1 .. k : ts[i] \in Seq(T) BY <1>1, <2>1
  <2>3. Starred(ts) = [i \in 1 .. k |-> Stars(ts[i])] BY <2>2, Zenon DEF Starred
  <2>4. \A i \in 1 .. k : Stars(ts[i]) \in U BY <1>1, <2>2, StarsType
  <2>5. Starred(ts) \in [1 .. k -> U] BY <2>3, <2>4
  <2>6. Starred(ts) \in Seq(U) /\ Len(Starred(ts)) = k BY <2>2, <2>5, SequenceOf
  <2> QED BY <2>1, <2>3, <2>6
<1>4. p \in Seq(U) /\ Len(p) = n + 1 /\ \A i \in 1 .. n + 1 : p[i] = Stars(more[i])
  BY <1>1, <1>2, <1>3, Zenon
<1>5. q \in Seq(U) /\ Len(q) = n /\ \A i \in 1 .. n : q[i] = Stars(texts[i]) BY <1>1, <1>3, Zenon
<1>6. /\ a \in Seq(U) /\ Len(a) = n + 1 /\ a[n + 1] = x /\ \A i \in 1 .. n : a[i] = q[i]
  BY <1>1, <1>2, <1>5, Appended
<1>7. ASSUME NEW i \in 1 .. Len(p) PROVE p[i] = a[i]
  <2>1. i \in 1 .. n \/ i = n + 1 BY <1>2, <1>4
  <2>2. CASE i \in 1 .. n
    <3>1. i \in 1 .. n + 1 BY <1>4
    <3> QED BY <1>2, <1>4, <1>5, <1>6, <2>2, <3>1, Zenon
  <2>3. CASE i = n + 1
    <3>1. n + 1 \in 1 .. n + 1 BY <1>2
    <3> QED BY <1>1, <1>2, <1>4, <1>6, <2>3, <3>1, Zenon
  <2> QED BY <2>1, <2>2, <2>3
<1>8. p = a BY <1>4, <1>6, <1>7, SameSeq
<1> QED BY <1>1, <1>5, <1>8, Zenon

\* The stars of expressions do not meet.
LEMMA StarsOfExpressions ==
  ASSUME NEW texts \in Seq(Expressions)
  PROVE  Stars(FlattenSeq(texts)) = FlattenSeq(Starred(texts))
<1>1. PICK E, T : E = Expressions /\ T = FilterTokens OBVIOUS
<1>2. E \subseteq Seq(T) /\ \A t \in E : t # <<>> /\ t[1] = "("
  BY <1>1 DEF Expressions, IsExpression
<1>3. \A s \in Seq(E) : s \in Seq(Seq(T)) BY <1>2, SeqWider
<1>4. PICK S : S = {s \in Seq(E) : Stars(FlattenSeq(s)) = FlattenSeq(Starred(s))} OBVIOUS
<1>5. <<>> \in S
  <2>1. <<>> \in Seq(E) /\ Starred(<<>>) = <<>> BY DEF Starred
  <2> QED BY <1>4, <2>1, FlattenEmpty, StarsOfNone, Zenon
<1>6. ASSUME NEW s \in Seq(E), NEW x \in E, s \in S PROVE Append(s, x) \in S
  <2>1. s \in Seq(Seq(T)) /\ x \in Seq(T) /\ x # <<>> /\ x[1] = "(" BY <1>2, <1>3, Zenon
  <2>2. PICK g : g = FlattenSeq(s) OBVIOUS
  <2>3. g \in Seq(T) /\ FlattenSeq(Append(s, x)) = Then(g, x)
    BY <2>1, <2>2, FlattenType, FlattenAppend DEF Then
  <2>4. ~StarsMeet(g, x)
    <3>1. "(" # "*" OBVIOUS
    <3> QED BY <2>1, <3>1, Zenon DEF StarsMeet
  <2>5. Stars(Then(g, x)) = Then(Stars(g), Stars(x)) BY <2>1, <2>3, <2>4, StarsThen
  <2>6. Stars(g) = FlattenSeq(Starred(s)) BY <1>4, <1>6, <2>2, Zenon
  <2>7. Starred(s) \in Seq(Seq(T)) /\ Starred(Append(s, x)) = Append(Starred(s), Stars(x))
    BY <2>1, StarredMore
  <2>8. Stars(x) \in Seq(T) BY <2>1, StarsType
  <2>9. FlattenSeq(Append(Starred(s), Stars(x))) = Then(FlattenSeq(Starred(s)), Stars(x))
    BY <2>7, <2>8, FlattenAppend DEF Then
  <2>10. Append(s, x) \in Seq(E) OBVIOUS
  <2> QED BY <1>4, <2>3, <2>5, <2>6, <2>7, <2>9, <2>10, Zenon
<1>7. texts \in S BY ONLY <1>1, <1>5, <1>6, texts \in Seq(Expressions), SeqInduction
<1> QED BY <1>4, <1>7, Zenon

\* What a text lacks its parts lack.
LEMMA ThenLacks ==
  ASSUME NEW T, NEW s \in Seq(T), NEW t \in Seq(T), NEW x, Positions(Then(s, t), x) = {}
  PROVE  Positions(s, x) = {} /\ Positions(t, x) = {}
<1>1. PICK n, m, st : n = Len(s) /\ m = Len(t) /\ st = s \o t OBVIOUS
<1>2. /\ n \in Nat /\ m \in Nat /\ st \in Seq(T) /\ Len(st) = n + m
      /\ \A i \in 1 .. n : st[i] = s[i]
      /\ \A i \in 1 .. m : st[n + i] = t[i]
  BY <1>1, Joined
<1>3. \A i \in 1 .. n + m : st[i] # x BY <1>1, <1>2 DEF Positions, Then
<1>4. \A i \in 1 .. n : s[i] # x
  <2>1. \A i \in 1 .. n : i \in 1 .. n + m BY <1>2
  <2> QED BY <1>2, <1>3, <2>1, Zenon
<1>5. \A i \in 1 .. m : t[i] # x
  <2>1. \A i \in 1 .. m : n + i \in 1 .. n + m BY <1>2
  <2> QED BY <1>2, <1>3, <2>1, Zenon
<1>6. DOMAIN s = 1 .. n /\ DOMAIN t = 1 .. m BY <1>1
<1> QED BY <1>4, <1>5, <1>6 DEF Positions

\* What texts in a row lack each of them lacks.
LEMMA FlattenLacks ==
  ASSUME NEW T, NEW texts \in Seq(Seq(T)), NEW x, Positions(FlattenSeq(texts), x) = {}
  PROVE  \A i \in 1 .. Len(texts) : Positions(texts[i], x) = {}
<1>1. PICK U : U = Seq(T) OBVIOUS
<1>2. PICK S : S = {s \in Seq(U) : Positions(FlattenSeq(s), x) = {} =>
                                     \A i \in 1 .. Len(s) : Positions(s[i], x) = {}}
  OBVIOUS
<1>3. <<>> \in S
  <2>1. <<>> \in Seq(U) /\ \A i \in 1 .. Len(<<>>) : FALSE OBVIOUS
  <2> QED BY <1>2, <2>1, Zenon
<1>4. ASSUME NEW s \in Seq(U), NEW t \in U, s \in S PROVE Append(s, t) \in S
  <2>1. PICK more, n, g : more = Append(s, t) /\ n = Len(s) /\ g = FlattenSeq(s) OBVIOUS
  <2>2. /\ more \in Seq(U) /\ Len(more) = n + 1 /\ more[n + 1] = t /\ n \in Nat
        /\ \A i \in 1 .. n : more[i] = s[i]
    BY <2>1, Appended
  <2>3. FlattenSeq(more) = Then(g, t) /\ g \in Seq(T) /\ t \in Seq(T)
    BY <1>1, <2>1, FlattenAppend, FlattenType DEF Then
  <2>4. ASSUME Positions(FlattenSeq(more), x) = {}, NEW i \in 1 .. Len(more)
        PROVE  Positions(more[i], x) = {}
    <3>1. Positions(g, x) = {} /\ Positions(t, x) = {} BY <2>3, <2>4, ThenLacks
    <3>2. \A j \in 1 .. n : Positions(s[j], x) = {} BY <1>2, <1>4, <2>1, <3>1, Zenon
    <3>3. i \in 1 .. n \/ i = n + 1 BY <2>2
    <3> QED BY <2>2, <3>1, <3>2, <3>3, Zenon
  <2> QED BY <1>2, <2>1, <2>2, <2>4, Zenon
<1>5. texts \in S BY ONLY <1>1, <1>3, <1>4, texts \in Seq(Seq(T)), SeqInduction
<1> QED BY <1>2, <1>5, Zenon

--------
(* Filters return *)

\* What printing and parsing keep, of a text of a filter of some level.
Survives(n, s) ==
  LET r == ParseExpression[s]
  IN /\ s \in Expressions /\ r \in Filters[n]
     /\ Stars(FilterTexts[n][r]) = Stars(s)
     /\ Positions(s, "*") = {} => FilterTexts[n][r] = s
     /\ ParseExpression[FilterTexts[n][r]] = r

\* The exception of the parser is no filter.
LEMMA NoneInvalid ==
  ASSUME NEW n \in Nat
  PROVE  Invalid \notin Filters[n]
<1>1. Invalid \notin ItemFilters BY ItemTypes DEF Invalid
<1>2. n = 0 \/ n - 1 \in Nat OBVIOUS
<1>3. ASSUME NEW m \in Nat, n = m + 1 PROVE Invalid \notin Filters[n]
  <2>1. Filters[m + 1] = ItemFilters \cup [type : {"&", "|"}, filters : Seq(Filters[m])]
                                     \cup [type : {"!"}, filter : Filters[m]]
    BY FiltersAre
  <2>2. Invalid \notin [type : {"&", "|"}, filters : Seq(Filters[m])] BY DEF Invalid
  <2>3. Invalid \notin [type : {"!"}, filter : Filters[m]] BY DEF Invalid
  <2> QED BY <1>1, <1>3, <2>1, <2>2, <2>3, Zenon
<1>4. n - 1 \in Nat => n = (n - 1) + 1 OBVIOUS
<1> QED BY <1>1, <1>2, <1>3, <1>4, FiltersAre

LEMMA WrappedLacks ==
  ASSUME NEW s \in Seq(FilterTokens), NEW x, Positions(Wrapped(s), x) = {}
  PROVE  Positions(s, x) = {}
<1>1. PICK T, a, b : T = FilterTokens /\ a = <<"(">> /\ b = <<")">> OBVIOUS
<1>2. a \in Seq(T) /\ b \in Seq(T) /\ s \in Seq(T) BY <1>1, MarksAreTokens
<1>3. Then(a, s) \in Seq(T) BY <1>2, Joined DEF Then
<1>4. Wrapped(s) = Then(Then(a, s), b) BY <1>1, Zenon DEF Wrapped, Then
<1>5. Positions(Then(a, s), x) = {} BY <1>2, <1>3, <1>4, ThenLacks
<1> QED BY <1>2, <1>5, ThenLacks

\* A sequence made of another one, value by value.
Maps(e, A, B) == \A x \in A : e[x] \in B

\* What such a sequence holds.
MadeOf(made, values, e, B) ==
  /\ made \in Seq(B) /\ Len(made) = Len(values)
  /\ \A i \in 1 .. Len(values) : made[i] = e[values[i]]

LEMMA EachType ==
  ASSUME NEW A, NEW B, NEW values \in Seq(A), NEW e, Maps(e, A, B),
         NEW made, made = PiecesOf(e, values)
  PROVE  MadeOf(made, values, e, B)
<1>1. PICK n : n = Len(values) OBVIOUS
<1>2. /\ n \in Nat /\ DOMAIN values = 1 .. n /\ \A i \in 1 .. n : values[i] \in A
      /\ made = [i \in DOMAIN values |-> e[values[i]]]
  BY <1>1 DEF PiecesOf
<1>3. made \in [1 .. n -> B] BY <1>2 DEF Maps
<1>4. made \in Seq(B) /\ Len(made) = n BY <1>2, <1>3, SequenceOf
<1> QED BY <1>1, <1>2, <1>4 DEF MadeOf

\* Filters survive being printed and parsed: items,
LEMMA ItemSurvives ==
  ASSUME NEW n \in Nat, NEW f \in ItemFilters
  PROVE  Survives(n, FilterTexts[n][f])
<1>1. PICK t, s, r, u : t = ItemText(f) /\ s = Wrapped(t) /\ r = ParseItem(t) /\ u = ItemText(r)
  OBVIOUS
<1>2. Unmarked(t) /\ r \in ItemFilters /\ Stars(u) = Stars(t) /\ ParseItem(u) = r
      /\ (Positions(t, "*") = {} => u = t)
  BY <1>1, ItemReturns, Zenon DEF ItemReturned
<1>3. Unmarked(u) BY <1>1, <1>2, ItemReturns DEF ItemReturned
<1>4. /\ s \in Expressions /\ ParseExpression[s] = r
      /\ ParseExpression[Wrapped(u)] = r
  BY <1>1, <1>2, <1>3, ParsedItem, Zenon DEF ItemExpression
<1>5. FilterTexts[n][f] = s /\ FilterTexts[n][r] = Wrapped(u) /\ r \in Filters[n]
  BY <1>1, <1>2, NestedTexts DEF ItemExpression
<1>6. t \in Seq(FilterTokens) /\ u \in Seq(FilterTokens) BY <1>2, <1>3 DEF Unmarked
<1>7. Stars(Wrapped(u)) = Stars(s) BY <1>1, <1>2, <1>6, StarsOfWrapped, Zenon
<1>8. Positions(s, "*") = {} => Wrapped(u) = s
  <2>1. Positions(s, "*") = {} => Positions(t, "*") = {} BY <1>1, <1>6, WrappedLacks
  <2> QED BY <1>1, <1>2, <2>1, Zenon
<1> QED BY <1>4, <1>5, <1>7, <1>8, Zenon DEF Survives

\* negations of filters that do,
LEMMA NotSurvives ==
  ASSUME NEW n \in Nat, \A g \in Filters[n] : Survives(n, FilterTexts[n][g]), NEW f \in Filters[n]
  PROVE  Survives(n + 1, FilterTexts[n + 1][Not(f)])
<1>1. PICK u, q, w : u = FilterTexts[n][f] /\ q = ParseExpression[u] /\ w = FilterTexts[n][q]
  OBVIOUS
<1>2. /\ u \in Expressions /\ q \in Filters[n] /\ Stars(w) = Stars(u)
      /\ (Positions(u, "*") = {} => w = u) /\ ParseExpression[w] = q
  BY <1>1, Zenon DEF Survives
<1>3. w \in Expressions BY <1>1, <1>2, Zenon DEF Survives
<1>4. q # Invalid BY <1>2, NoneInvalid
<1>5. PICK s, t : s = NotExpression(u) /\ t = NotExpression(w) OBVIOUS
<1>6. s \in Expressions /\ ParseExpression[s] = Not(q) BY <1>1, <1>2, <1>4, <1>5, ParsedNot
<1>7. t \in Expressions /\ ParseExpression[t] = Not(q) BY <1>2, <1>3, <1>4, <1>5, ParsedNot
<1>8. /\ FilterTexts[n + 1][Not(f)] = s /\ FilterTexts[n + 1][Not(q)] = t
      /\ Not(q) \in Filters[n + 1]
  BY <1>1, <1>2, <1>5, NestedTexts
<1>9. PICK T, x, a, b : /\ T = FilterTokens /\ x = <<"!">> /\ a = Then(x, u) /\ b = Then(x, w)
  OBVIOUS
<1>10. u \in Seq(T) /\ w \in Seq(T) /\ "!" \in T /\ x \in Seq(T) /\ "!" # "*"
  <2>1. u \in Seq(T) /\ w \in Seq(T) /\ "!" \in T /\ "!" # "*"
    BY <1>2, <1>3, <1>9, MarksAreTokens DEF Expressions
  <2> QED BY <1>9, <2>1
<1>11. a \in Seq(T) /\ b \in Seq(T) BY <1>9, <1>10, Joined DEF Then
<1>12. Stars(a) = Then(x, Stars(u)) /\ Stars(b) = Then(x, Stars(w)) BY <1>9, <1>10, StarsBehind
<1>13. Stars(Wrapped(a)) = Stars(Wrapped(b)) BY <1>2, <1>9, <1>11, <1>12, StarsOfWrapped, Zenon
<1>14. s = Wrapped(a) /\ t = Wrapped(b) BY <1>5, <1>9, Zenon DEF NotExpression
<1>15. Positions(s, "*") = {} => t = s
  <2>1. ASSUME Positions(s, "*") = {} PROVE Positions(u, "*") = {}
    <3>1. Positions(a, "*") = {} BY <1>9, <1>11, <1>14, <2>1, WrappedLacks
    <3> QED BY <1>9, <1>10, <3>1, ThenLacks
  <2> QED BY <1>2, <1>5, <2>1, Zenon
<1> QED BY <1>6, <1>7, <1>8, <1>13, <1>14, <1>15, Zenon DEF Survives

\* groups of filters that do,
LEMMA GroupSurvives ==
  ASSUME NEW n \in Nat, \A g \in Filters[n] : Survives(n, FilterTexts[n][g]),
         NEW type \in {"&", "|"}, NEW fs \in Seq(Filters[n])
  PROVE  Survives(n + 1, FilterTexts[n + 1][Group(type, fs)])
<1>1. PICK E, F : E = Expressions /\ F = Filters[n] OBVIOUS
<1>2. PICK texts, members, others :
        /\ texts = PiecesOf(FilterTexts[n], fs) /\ members = PiecesOf(ParseExpression, texts)
        /\ others = PiecesOf(FilterTexts[n], members)
  OBVIOUS
<1>3. \A g \in F : /\ FilterTexts[n][g] \in E /\ ParseExpression[FilterTexts[n][g]] \in F /\ Stars(FilterTexts[n][ParseExpression[FilterTexts[n][g]]]) = Stars(FilterTexts[n][g])
                   /\ (Positions(FilterTexts[n][g], "*") = {} => FilterTexts[n][ParseExpression[FilterTexts[n][g]]] = FilterTexts[n][g])
                   /\ ParseExpression[FilterTexts[n][ParseExpression[FilterTexts[n][g]]]] = ParseExpression[FilterTexts[n][g]]
  BY <1>1, Zenon DEF Survives
<1>4. PICK k : k = Len(fs) OBVIOUS
<1>5. fs \in Seq(F) /\ k \in Nat /\ \A i \in 1 .. k : fs[i] \in F BY <1>1, <1>4
<1>6. texts \in Seq(E) /\ Len(texts) = k /\ \A i \in 1 .. k : texts[i] = FilterTexts[n][fs[i]]
  <2>1. Maps(FilterTexts[n], F, E) BY <1>3 DEF Maps
  <2>2. fs \in Seq(F) /\ texts = PiecesOf(FilterTexts[n], fs) BY <1>2, <1>5, Zenon
  <2>3. MadeOf(texts, fs, FilterTexts[n], E) BY ONLY <2>1, <2>2, EachType, Zenon
  <2> QED BY <1>4, <2>3, Zenon DEF MadeOf
<1>7. PICK R : R = {FilterTexts[n][g] : g \in F} OBVIOUS
<1>8. texts \in Seq(R) /\ Maps(ParseExpression, R, F)
  <2>1. Maps(FilterTexts[n], F, R) BY <1>7 DEF Maps
  <2>2. texts \in Seq(R)
    <3>1. MadeOf(texts, fs, FilterTexts[n], R) BY <1>2, <1>5, <2>1, EachType, Zenon
    <3> QED BY <3>1, Zenon DEF MadeOf
  <2> QED BY <1>3, <1>7, <2>2 DEF Maps
<1>9. members \in Seq(F) /\ Len(members) = k /\ \A i \in 1 .. k : members[i] = ParseExpression[texts[i]]
  <2>1. MadeOf(members, texts, ParseExpression, F) BY ONLY <1>2, <1>8, EachType, Zenon
  <2> QED BY <1>6, <2>1, Zenon DEF MadeOf
<1>10. others \in Seq(E) /\ Len(others) = k /\ \A i \in 1 .. k : others[i] = FilterTexts[n][members[i]]
  <2>1. Maps(FilterTexts[n], F, E) BY <1>3 DEF Maps
  <2>2. members \in Seq(F) /\ others = PiecesOf(FilterTexts[n], members) BY <1>2, <1>9, Zenon
  <2>3. MadeOf(others, members, FilterTexts[n], E) BY ONLY <2>1, <2>2, EachType, Zenon
  <2> QED BY <1>9, <2>3, Zenon DEF MadeOf
<1>11. ASSUME NEW i \in 1 .. k
       PROVE  /\ ParseExpression[others[i]] = members[i] /\ Stars(others[i]) = Stars(texts[i])
              /\ (Positions(texts[i], "*") = {} => others[i] = texts[i])
  <2>1. PICK f, u : f = fs[i] /\ u = texts[i] OBVIOUS
  <2>2. f \in F /\ u = FilterTexts[n][f] BY <1>5, <1>6, <2>1
  <2>3. members[i] = ParseExpression[u] /\ others[i] = FilterTexts[n][members[i]]
    BY <1>9, <1>10, <2>1, Zenon
  <2> QED BY <1>3, <2>1, <2>2, <2>3
<1>12. Invalid \notin Range(members)
  <2>1. Invalid \notin F BY <1>1, NoneInvalid
  <2>2. \A i \in DOMAIN members : members[i] \in F BY <1>9
  <2> QED BY <2>1, <2>2 DEF Range
<1>13. PICK s, t : s = GroupExpression(type, texts) /\ t = GroupExpression(type, others) OBVIOUS
<1>14. s \in E /\ ParseExpression[s] = Group(type, members)
  BY <1>1, <1>2, <1>6, <1>12, <1>13, ParsedGroup, Zenon
<1>15. t \in E /\ ParseExpression[t] = Group(type, members)
  <2>1. DOMAIN others = 1 .. k /\ DOMAIN members = 1 .. k BY <1>9, <1>10
  <2>2. members = [i \in DOMAIN members |-> members[i]] BY <1>2 DEF PiecesOf
  <2>3. members = PiecesOf(ParseExpression, others) BY <1>11, <2>1, <2>2 DEF PiecesOf
  <2> QED BY <1>1, <1>10, <1>12, <1>13, <2>3, ParsedGroup, Zenon
<1>16. /\ FilterTexts[n + 1][Group(type, fs)] = s
       /\ FilterTexts[n + 1][Group(type, members)] = t
       /\ Group(type, members) \in Filters[n + 1]
  BY <1>1, <1>2, <1>5, <1>9, <1>13, NestedTexts, Zenon
<1>17. PICK T, x, g, h, a, b : /\ T = FilterTokens /\ x = <<type>>
                               /\ g = FlattenSeq(texts) /\ h = FlattenSeq(others)
                               /\ a = Then(x, g) /\ b = Then(x, h)
  OBVIOUS
<1>18. type \in T /\ type # "*" /\ x \in Seq(T)
  <2>1. type \in T /\ type # "*" BY <1>17, MarksAreTokens
  <2> QED BY <1>17, <2>1
<1>19. texts \in Seq(Seq(T)) /\ others \in Seq(Seq(T))
  <2>1. E \subseteq Seq(T) BY <1>1, <1>17 DEF Expressions
  <2> QED BY <1>6, <1>10, <2>1, SeqWider
<1>20. g \in Seq(T) /\ h \in Seq(T) BY <1>17, <1>19, FlattenType
<1>21. a \in Seq(T) /\ b \in Seq(T) BY <1>17, <1>18, <1>20, Joined DEF Then
<1>22. Stars(g) = Stars(h)
  <2>1. DOMAIN texts = 1 .. k /\ DOMAIN others = 1 .. k BY <1>6, <1>10
  <2>2. Starred(texts) = Starred(others) BY <1>11, <2>1 DEF Starred
  <2> QED BY <1>1, <1>6, <1>10, <1>17, <2>2, StarsOfExpressions, Zenon
<1>23. Stars(a) = Then(x, Stars(g)) /\ Stars(b) = Then(x, Stars(h))
  BY <1>17, <1>18, <1>20, StarsBehind
<1>24. Stars(Wrapped(a)) = Stars(Wrapped(b)) BY <1>17, <1>21, <1>22, <1>23, StarsOfWrapped, Zenon
<1>25. s = Wrapped(a) /\ t = Wrapped(b) BY <1>13, <1>17, Zenon DEF GroupExpression
<1>26. Positions(s, "*") = {} => t = s
  <2>1. ASSUME Positions(s, "*") = {} PROVE others = texts
    <3>1. Positions(a, "*") = {} BY <1>17, <1>21, <1>25, <2>1, WrappedLacks
    <3>2. Positions(g, "*") = {} BY <1>17, <1>18, <1>20, <3>1, ThenLacks
    <3>3. \A i \in 1 .. k : Positions(texts[i], "*") = {} BY <1>6, <1>17, <1>19, <3>2, FlattenLacks
    <3>4. \A i \in 1 .. k : others[i] = texts[i] BY <1>11, <3>3, Zenon
    <3> QED BY <1>6, <1>10, <3>4, SameSeq
  <2> QED BY <1>13, <2>1, Zenon
<1> QED BY <1>1, <1>14, <1>15, <1>16, <1>24, <1>25, <1>26, Zenon DEF Survives

\* and so, level by level, all filters.
LEMMA FiltersSurvive ==
  ASSUME NEW n \in Nat, NEW f \in Filters[n]
  PROVE  Survives(n, FilterTexts[n][f])
<1>1. PICK S : S = {m \in Nat : \A g \in Filters[m] : Survives(m, FilterTexts[m][g])} OBVIOUS
<1>2. 0 \in S
  <2>1. \A g \in Filters[0] : Survives(0, FilterTexts[0][g]) BY FiltersAre, ItemSurvives
  <2>2. 0 \in Nat OBVIOUS
  <2> QED BY <1>1, <2>1, <2>2, Zenon
<1>3. ASSUME NEW m \in Nat, m \in S PROVE m + 1 \in S
  <2>1. m + 1 \in Nat OBVIOUS
  <2>2. \A g \in Filters[m] : Survives(m, FilterTexts[m][g]) BY <1>1, <1>3, Zenon
  <2>3. ASSUME NEW g \in Filters[m + 1] PROVE Survives(m + 1, FilterTexts[m + 1][g])
    <3>1. CASE g \in ItemFilters BY <2>1, <3>1, ItemSurvives
    <3>2. CASE g \in [type : {"&", "|"}, filters : Seq(Filters[m])]
      <4>1. g = Group(g.type, g.filters) /\ g.type \in {"&", "|"} /\ g.filters \in Seq(Filters[m])
        BY <3>2 DEF Group
      <4>2. PICK type \in {"&", "|"}, fs \in Seq(Filters[m]) : g = Group(type, fs) BY <4>1, Zenon
      <4>3. Survives(m + 1, FilterTexts[m + 1][Group(type, fs)]) BY <2>2, GroupSurvives
      <4> QED BY <4>2, <4>3, Zenon
    <3>3. CASE g \in [type : {"!"}, filter : Filters[m]]
      <4>1. g = Not(g.filter) /\ g.filter \in Filters[m] BY <3>3 DEF Not
      <4>2. PICK q \in Filters[m] : g = Not(q) BY <4>1, Zenon
      <4>3. Survives(m + 1, FilterTexts[m + 1][Not(q)]) BY <2>2, NotSurvives
      <4> QED BY <4>2, <4>3, Zenon
    <3>4. g \in ItemFilters \cup [type : {"&", "|"}, filters : Seq(Filters[m])]
                            \cup [type : {"!"}, filter : Filters[m]]
      BY FiltersAre
    <3> QED BY <3>1, <3>2, <3>3, <3>4, Zenon
  <2> QED BY <1>1, <2>1, <2>3, Zenon
<1>4. n \in S BY <1>2, <1>3, Induction
<1> QED BY <1>1, <1>4, Zenon

\* The text is the filter's, what was parsed is the text's.
FilterInv ==
  codec = "filter" =>
    /\ source \in FilterObjects
    /\ text # NotYet => text = FilterToString(source)
    /\ back # NotYet => text # NotYet /\ back = Parse(text)

\* An expression is tight: trim() and the test of its ends change nothing.
LEMMA ParseIs ==
  ASSUME NEW s \in Expressions
  PROVE  Parse(s) = ParseExpression[s]
<1>1. /\ s \in Seq(FilterTokens) /\ Len(s) \in Nat /\ Len(s) >= 2 /\ s[1] = "(" /\ s[Len(s)] = ")"
  BY DEF Expressions, IsExpression
<1>2. Tight(s) BY <1>1 DEF Tight, Blank
<1>3. Trim(s) = s BY <1>1, <1>2, TrimTight
<1>4. s # <<>> /\ Head(s) = "(" /\ Last(s) = ")" BY <1>1 DEF Last
<1> QED BY <1>3, <1>4, Zenon DEF Parse

\* What the parser makes of the text of any filter prints that text again, a star
\* more or less aside, and is parsed again to itself: for filters of any words,
\* with groups and negations nested up to any bound.
THEOREM FiltersReturn == ConversionsSpec => []PrintsItsText
<1>1. ConversionsInit => FilterInv BY DEF ConversionsInit, FilterInv
<1>2. FilterInv /\ [ConversionsNext]_textVars => FilterInv'
  <2>1. SUFFICES ASSUME FilterInv, [ConversionsNext]_textVars, codec = "filter" PROVE FilterInv'
    BY Steps DEF textVars, FilterInv
  <2>2. CASE UNCHANGED textVars BY <2>1, <2>2 DEF textVars, FilterInv
  <2>3. CASE WriteFilter BY <2>1, <2>3 DEF WriteFilter, Writes, FilterInv
  <2>4. CASE ParseFilter BY <2>1, <2>4 DEF ParseFilter, Reads, FilterInv
  <2> QED BY <2>1, <2>2, <2>3, <2>4, Steps
<1>3. FilterInv => PrintsItsText
  <2>1. SUFFICES ASSUME FilterInv, FilterReturned
                 PROVE  /\ back \in Filters[MaxNesting]
                        /\ Stars(FilterToString(back)) = Stars(text)
                        /\ Positions(text, "*") = {} => FilterToString(back) = text
                        /\ Parse(FilterToString(back)) = back
    BY Zenon DEF PrintsItsText
  <2>2. source \in Filters[MaxNesting] /\ text = FilterToString(source) /\ back = Parse(text)
    BY <2>1, FiltersAssumption DEF FilterInv, FilterReturned
  <2>3. MaxNesting \in Nat BY FilterAssumption
  <2>4. \A f \in Filters[MaxNesting] : Survives(MaxNesting, FilterToString(f))
    BY <2>3, FiltersSurvive, Zenon DEF FilterToString
  <2>5. PICK r : r = ParseExpression[text] OBVIOUS
  <2>6. /\ text \in Expressions /\ r \in Filters[MaxNesting]
        /\ Stars(FilterToString(r)) = Stars(text)
        /\ Positions(text, "*") = {} => FilterToString(r) = text
        /\ ParseExpression[FilterToString(r)] = r
    BY <2>2, <2>4, <2>5, Zenon DEF Survives, FilterToString
  <2>7. back = r BY <2>2, <2>5, <2>6, ParseIs, Zenon
  <2>8. FilterToString(r) \in Expressions BY <2>4, <2>6, Zenon DEF Survives
  <2>9. Parse(FilterToString(r)) = r BY <2>6, <2>8, ParseIs, Zenon
  <2> QED BY <2>6, <2>7, <2>9, Zenon
<1> QED BY <1>1, <1>2, <1>3, PTL DEF ConversionsSpec

--------
(* Streams and conversions together *)

\* A program that uses the codecs uses a stream, which changes no conversion, or
\* converts, which changes no stream.
LEMMA EachByItself == CodecsSpec => Spec /\ ConversionsSpec
<1>1. CodecsInit => Init /\ ConversionsInit BY DEF CodecsInit
<1>2. [CodecsNext]_codecVars => [Next]_vars /\ [ConversionsNext]_textVars
  BY Zenon DEF CodecsNext, UseBer, UseText, codecVars
<1> QED BY <1>1, <1>2, PTL DEF CodecsSpec, Spec, ConversionsSpec

\* So all of these hold of such a program, whichever codec it uses.
THEOREM CodecsAreRight ==
  CodecsSpec => []( /\ ReadsBack /\ ThrowsOnlyOnTruncation
                    /\ RoundTripUnlessCommaDigits /\ PrintsItsText
                    /\ NamesSurvive /\ EqualNamesAreTheSame
                    /\ DescribesEachControl /\ SentAsAsked
                    /\ MessagesKeepWhatIsGiven /\ GuidanceFitsTheSystem)
<1> QED BY EachByItself, StreamsReadBack, WholeStreamsDoNotThrow, AddressesReturn, FiltersReturn,
     NamesReturn, EqualNamesAre, ControlsDescribed, SentIsAsked, MessagesKeep,
     GuidanceIsRight, PTL
===============================================================================
