---------------------------- MODULE MCLdapClient ----------------------------
(***************************************************************************)
(* Model checking of LdapClient.                                           *)
(***************************************************************************)
EXTENDS LdapClient, TLC

CONSTANTS c1, c2, c3, t1, t2, nold

Clients2 == {c1, c2}
Clients3 == {c1, c2, c3}
Dirs1 == {t1}
Dirs2 == {t1, t2}

\* Clients and directories are interchangeable in the safety runs.
Symmetry == Permutations(Clients) \cup Permutations(TempDirs)
=============================================================================
