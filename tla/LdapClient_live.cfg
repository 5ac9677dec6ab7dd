\* Two constructors, ids never reused.
CONSTANTS
  c1 = c1  c2 = c2  c3 = c3
  t1 = t1  t2 = t2  nold = nold
  Clients <- Clients2
  NoLd = nold
  IdSpace = 4
  TempDirs <- Dirs2
  MaxUnbinds = 2
SPECIFICATION FairSpec
PROPERTIES
  TempFilesRemoved
  ImplementsSession
\* A program may never construct a client, or be done with all of them.
CHECK_DEADLOCK FALSE
