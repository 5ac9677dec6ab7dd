---------------------------- MODULE MCNamedSearch ----------------------------
(***************************************************************************)
(* Instances of NamedSearch for model checking.                            *)
(***************************************************************************)
EXTENDS NamedSearch

CONSTANTS a, b, c,           \* names
          paged, plain, stream

Names == {a, b, c}
Seeds == <<a, b, c>>
OneName == {a}
OnePaged == {paged}
OnePlain == {plain}
OneStream == {stream}
Nothing == {}
==============================================================================
