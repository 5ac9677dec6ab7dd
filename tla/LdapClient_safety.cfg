\* Three constructors over two ids: the counter wraps, ids are reused.
CONSTANTS
  c1 = c1  c2 = c2  c3 = c3
  t1 = t1  t2 = t2  nold = nold
  Clients <- Clients3
  NoLd = nold
  IdSpace = 2
  TempDirs <- Dirs2
  MaxUnbinds = 2
SPECIFICATION Spec
SYMMETRY Symmetry
INVARIANTS
  TypeOK
  HandleIsolation
  TempFilesAccounted
  OpenLdsAccounted
  ClosedTracksOnlyLate
  NoUseAfterUnbind
PROPERTIES
  ReuseTakesACycle
\* A program may never construct a client, or be done with all of them.
CHECK_DEADLOCK FALSE
