\* Two clients in one process, for either kind of libldap.
CONSTANTS
  c1 = c1  c2 = c2
  Global = global  NoFile = nofile
  Clients <- Clients2
  MaxStarts = 2
SPECIFICATION Spec
SYMMETRY Symmetry
INVARIANTS
  SetupFailsOnlyOnStale
PROPERTIES
  VerifyIsOwn
  MaterialIsOwn
\* A program may be done with its clients.
CHECK_DEADLOCK FALSE
