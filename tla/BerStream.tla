------------------------------- MODULE BerStream -------------------------------
(***************************************************************************)
(* BerWriter and BerReader of src/runtime.cjs: a program writes a stream   *)
(* of items, buffer() makes bytes of it, some prefix of them arrives, and  *)
(* the same items are read.                                                *)
(*                                                                         *)
(* The writer puts every length and every integer into one byte; the       *)
(* reader knows the long form of a length, whose first byte has its high   *)
(* bit set.                                                                *)
(***************************************************************************)
EXTENDS Integers, Sequences, SequencesExt

CONSTANTS ByteSize,  \* values of a byte: 256
          Sequence, Integer, OctetString,  \* tags
          Strings,   \* strings written, as bytes
          Numbers,   \* integers written
          MaxItems   \* bound: items of a stream

Byte == 0 .. ByteSize - 1
High == ByteSize \div 2

ASSUME SizeAssumption ==
  /\ ByteSize \in Nat /\ ByteSize > 3
  /\ {Sequence, Integer, OctetString} \subseteq Byte
  /\ Sequence # Integer /\ Integer # OctetString /\ OctetString # Sequence
  /\ Strings \subseteq Seq(Byte) /\ Numbers \subseteq Int

VARIABLES
  chunks,  \* BerWriter: the numbers pushed so far
  stack,   \* BerWriter: where the lengths of the open sequences go
  items,   \* history: what was written, in order
  bytes,   \* the bytes that arrived
  offset,  \* BerReader
  got,     \* what the reader returned so far
  status   \* "writing", "reading", "threw", or "underflow" of the stack

writer == <<chunks, stack, items>>
vars == <<chunks, stack, items, bytes, offset, got, status>>

Init ==
  /\ chunks = <<>> /\ stack = <<>> /\ items = <<>>
  /\ bytes = <<>> /\ offset = 0 /\ got = <<>>
  /\ status = "writing"

-------------------------------------------------------------------------------
(* BerWriter *)

Room == status = "writing" /\ Len(items) < MaxItems
UnchangedReader == UNCHANGED <<bytes, offset, got, status>>

\* The item of a sequence gets its length when the sequence ends.
StartSequence ==
  /\ Room
  /\ chunks' = chunks \o <<Sequence, 0>>
  /\ stack' = Append(stack, Len(chunks) + 2)
  /\ items' = Append(items, [tag |-> Sequence, at |-> Len(chunks) + 2, value |-> 0])
  /\ UnchangedReader

Ended(item, length) ==
  IF item.tag = Sequence /\ item.at = Last(stack) THEN [item EXCEPT !.value = length] ELSE item

EndSequenceCountsItself ==
  /\ status = "writing" /\ stack # <<>>
  /\ LET length == Len(chunks) - Last(stack) IN
     /\ chunks' = [chunks EXCEPT ![Last(stack)] = length + 1]
     /\ items' = [i \in DOMAIN items |-> Ended(items[i], length)]
  /\ stack' = Front(stack)
  /\ UnchangedReader
EndSequence ==
  /\ status = "writing" /\ stack # <<>>
  /\ LET length == Len(chunks) - Last(stack) IN
     /\ chunks' = [chunks EXCEPT ![Last(stack)] = length]
     /\ items' = [i \in DOMAIN items |-> Ended(items[i], length)]
  /\ stack' = Front(stack)
  /\ UnchangedReader

EndSequenceThrows ==
  /\ status = "writing" /\ stack = <<>>
  /\ status' = "underflow"
  /\ UNCHANGED <<writer, bytes, offset, got>>

WriteString(string) ==
  /\ Room
  /\ chunks' = chunks \o <<OctetString, Len(string)>> \o string
  /\ items' = Append(items, [tag |-> OctetString, value |-> string])
  /\ UNCHANGED stack /\ UnchangedReader

WriteInt(value) ==
  /\ Room
  /\ chunks' = chunks \o <<Integer, 1, value % ByteSize>>
  /\ items' = Append(items, [tag |-> Integer, value |-> value])
  /\ UNCHANGED stack /\ UnchangedReader

\* Buffer.from(chunks) keeps the low byte of each number.
Masked == [i \in DOMAIN chunks |-> chunks[i] % ByteSize]

\* buffer(), and how much of it arrives.
Deliver ==
  /\ status = "writing"
  /\ \E size \in 0 .. Len(chunks) : bytes' = SubSeq(Masked, 1, size)
  /\ status' = "reading"
  /\ UNCHANGED <<writer, offset, got>>

-------------------------------------------------------------------------------
(* BerReader *)

Throw == [throws |-> TRUE]
Result(value, next) == [throws |-> FALSE, value |-> value, next |-> next]

ReadByte(at) == IF at >= Len(bytes) THEN Throw ELSE Result(bytes[at + 1], at + 1)

\* (value << 8) | byte over some bytes; the counts that occur here keep it in
\* 32 bits.
Number(at, count) ==
  IF at + count > Len(bytes) THEN Throw
  ELSE Result(FoldLeft(LAMBDA value, byte : value * ByteSize + byte, 0,
                       SubSeq(bytes, at + 1, at + count)),
              at + count)

ReadLengthEarly(at) ==
  LET first == ReadByte(at) IN
  IF first.throws \/ first.value < High \div 2 THEN first
  ELSE Number(at + 1, first.value % High)
ReadLength(at) ==
  LET first == ReadByte(at) IN
  IF first.throws \/ first.value < High THEN first
  ELSE Number(at + 1, first.value % High)

\* A tag and a length.
ReadHeader(tag) ==
  LET read == ReadByte(offset) IN
  IF read.throws \/ read.value # tag THEN Throw ELSE ReadLength(offset + 1)

Smaller(m, n) == IF m < n THEN m ELSE n

\* subarray(): what there is of the string.
ReadString ==
  LET length == ReadHeader(OctetString) IN
  IF length.throws THEN Throw
  ELSE Result(SubSeq(bytes, length.next + 1, Smaller(length.next + length.value, Len(bytes))),
              length.next + length.value)

ReadInt ==
  LET length == ReadHeader(Integer) IN
  IF length.throws THEN Throw ELSE Number(length.next, length.value)

Read(item) ==
  CASE item.tag = Sequence    -> ReadHeader(Sequence)
    [] item.tag = OctetString -> ReadString
    [] item.tag = Integer     -> ReadInt

\* The program reads the next of the items it knows were written, and stops at
\* an exception.
ReadNext ==
  /\ status = "reading" /\ Len(got) < Len(items)
  /\ LET result == Read(items[Len(got) + 1]) IN
     IF result.throws
     THEN status' = "threw" /\ UNCHANGED <<offset, got>>
     ELSE /\ offset' = result.next
          /\ got' = Append(got, result.value)
          /\ UNCHANGED status
  /\ UNCHANGED <<writer, bytes>>

Next ==
  \/ StartSequence
  \/ EndSequence
  \/ EndSequenceThrows
  \/ \E string \in Strings : WriteString(string)
  \/ \E value \in Numbers : WriteInt(value)
  \/ Deliver
  \/ ReadNext

Spec == Init /\ [][Next]_vars

-------------------------------------------------------------------------------
(* Properties *)

\* The item fits into what the writer has room for: a short length, and a byte
\* for an integer.
Fits(item) ==
  CASE item.tag = Sequence    -> item.value < High
    [] item.tag = OctetString -> Len(item.value) < High
    [] item.tag = Integer     -> item.value \in Byte

FitUpTo(n) == \A i \in 1 .. n : Fits(items[i])

Clipped == offset > Len(bytes)

\* As long as the items fit, each is read as it was written.  If bytes are
\* missing, the last string may be a part of the one written, and then nothing
\* can be read after it.
ReadsBack ==
  \A i \in DOMAIN got : FitUpTo(i) =>
    \/ got[i] = items[i].value
    \/ /\ i = Len(got) /\ Clipped
       /\ items[i].tag = OctetString /\ IsPrefix(got[i], items[i].value)

\* Reading throws only if bytes are missing, or at or after an item that does
\* not fit.
ThrowsOnlyOnTruncation ==
  status = "threw" => Len(bytes) < Len(chunks) \/ ~FitUpTo(Len(got) + 1)
===============================================================================
