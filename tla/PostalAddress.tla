---------------------------- MODULE PostalAddress ----------------------------
(***************************************************************************)
(* PostalAddress of src/runtime.cjs: the lines of an address are joined    *)
(* with "$" after "\", "$" and "," have been written as escapes, and split *)
(* and unescaped again.                                                    *)
(*                                                                         *)
(* A text is a sequence of tokens: the special characters, the digit pairs *)
(* that can follow a backslash in an escape, and "text" for anything else. *)
(***************************************************************************)
EXTENDS Texts

Backslash == "\\"
Digits == {"24", "2c", "5c"}
Tokens == {Backslash, "$", Comma} \cup Digits \cup {"text"}

\* replace(/char/g, escape): every occurrence of one character.
Escape(line, char, digits) ==
  FlattenSeq([i \in DOMAIN line |->
    IF line[i] = char THEN <<Backslash, digits>> ELSE <<line[i]>>])

\* replace(/escape/g, char): two escapes cannot overlap.
Unescape(line, digits, char) ==
  LET escaped(i) == i > 1 /\ line[i] = digits /\ line[i - 1] = Backslash
  IN FlattenSeq([i \in DOMAIN line |->
       CASE escaped(i)                       -> <<char>>
         [] i < Len(line) /\ escaped(i + 1) -> <<>>
         [] OTHER                            -> <<line[i]>>])

EscapeLate(line) ==
  Escape(Escape(Escape(line, "$", "24"), Comma, "2c"), Backslash, "5c")
EscapeLine(line) ==
  Escape(Escape(Escape(line, Backslash, "5c"), "$", "24"), Comma, "2c")

UnescapeLine(line) ==
  Unescape(Unescape(Unescape(line, "24", "$"), "5c", Backslash), "2c", Comma)

AddressToString(lines) == Join([i \in DOMAIN lines |-> EscapeLine(lines[i])], "$")

AddressFromString(text) ==
  LET lines == Split(text, "$")
  IN [i \in DOMAIN lines |-> UnescapeLine(lines[i])]

\* A line with a backslash before the digits 2c.
HasCommaDigits(line) ==
  \E i \in 1 .. Len(line) - 1 : line[i] = Backslash /\ line[i + 1] = "2c"
===============================================================================
