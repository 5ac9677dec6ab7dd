------------------------------ MODULE MCTlsScope ------------------------------
(***************************************************************************)
(* Model checking of TlsScope.                                             *)
(***************************************************************************)
EXTENDS TlsScope, TLC

CONSTANTS c1, c2

Clients2 == {c1, c2}

\* Clients are interchangeable.
Symmetry == Permutations(Clients)
===============================================================================
