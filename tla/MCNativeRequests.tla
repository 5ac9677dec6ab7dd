--------------------------- MODULE MCNativeRequests ---------------------------
(***************************************************************************)
(* Model checking of NativeRequests.                                       *)
(***************************************************************************)
EXTENDS NativeRequests

\* Every code that has a class, a lost connection, LDAP_LOCAL_ERROR, a timeout,
\* and a code without a class.
SomeCodes == ({row[1] : row \in StatusClasses} \ Special) \cup {-1, -2, -5, 999}
===============================================================================
