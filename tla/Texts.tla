-------------------------------- MODULE Texts --------------------------------
(***************************************************************************)
(* Texts as sequences of tokens: what join(), split(), trim() and          *)
(* filter(Boolean) of JavaScript do with them.  A separator is one token.  *)
(***************************************************************************)
EXTENDS Naturals, SequencesExt

\* The positions of a token.
Positions(s, token) == {i \in DOMAIN s : s[i] = token}

\* words.join(separator).
Join(words, separator) ==
  FlattenSeq([i \in DOMAIN words |-> IF i = 1 THEN words[i] ELSE <<separator>> \o words[i]])

\* Of a set of numbers: how many come before one, and the one that n come before.
Rank(S, e) == Cardinality({d \in S : d < e})
Nth(S, n) == CHOOSE e \in S : Rank(S, e) = n

\* The values at some positions, in order.
At(values, kept) == [k \in 1 .. Cardinality(kept) |-> values[Nth(kept, k - 1)]]

\* The pieces of s between the tokens at some positions.
SplitAt(s, positions) ==
  LET cuts == {0, Len(s) + 1} \cup positions
  IN [k \in 1 .. Cardinality(cuts) - 1 |-> SubSeq(s, Nth(cuts, k - 1) + 1, Nth(cuts, k) - 1)]

\* s.split(separator).
Split(s, separator) == SplitAt(s, Positions(s, separator))

\* words.filter(Boolean).
NonEmpty(words) == At(words, {i \in DOMAIN words : words[i] # <<>>})

Blank == " "
Comma == ","

\* s.trim().
Trim(s) ==
  LET kept == DOMAIN s \ Positions(s, Blank)
  IN IF kept = {} THEN <<>> ELSE SubSeq(s, Min(kept), Max(kept))
===============================================================================
