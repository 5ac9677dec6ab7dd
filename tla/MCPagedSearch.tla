---------------------------- MODULE MCPagedSearch ----------------------------
(***************************************************************************)
(* Instances of PagedSearch for model checking.                            *)
(***************************************************************************)
EXTENDS PagedSearch

CONSTANTS a, b, c,           \* names
          paged, plain, stream

Names == {a, b, c}
Seeds == <<a, b, c>>
OneName == {a}
OnePaged == {paged}
OnePlain == {plain}
OneStream == {stream}
Nothing == {}
==============================================================================
