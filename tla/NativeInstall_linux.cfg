\* A Linux machine, the files of the package itself.
CONSTANTS
  Roots = 1
  Triples = 2
SPECIFICATION Spec
INVARIANTS
  InstalledLoads
  ShippedIsUsed
PROPERTY KeepsWhatLoads
\* The hook exits.
CHECK_DEADLOCK FALSE
