---------------------------- MODULE MCEntryValues ----------------------------
(***************************************************************************)
(* Model checking of EntryValues: an entry that is seeded with an array    *)
(* and a string, or is still to be added.                                  *)
(***************************************************************************)
EXTENDS EntryValues

X == <<"x">>
BlankX == <<" ", "x">>

SomeSeeds == {NoEntry, <<NewArray(<<Text(X)>>), Text(BlankX)>>}
\* The list names attribute 1, in another case than the entry.
SomeModes ==
  [kind : {"absent", "true", "other"}]
    \cup {[kind |-> "list", names |-> {[attribute |-> 1, spelling |-> "another"]}]}
SomeScalars == {Text(BlankX)}
SomePayloads == {<<>>, <<Buffer(X)>>, <<Buffer(BlankX), Text(BlankX)>>}
SomeCandidates == {Text(X), Buffer(X), Text(BlankX), Buffer(BlankX)}
===============================================================================
