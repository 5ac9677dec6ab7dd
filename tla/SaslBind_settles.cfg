CONSTANT MaxRounds = 3
SPECIFICATION FairSpec
INVARIANTS
  MessagesFreed
  ResolvedMeansAccepted
  ResolvedAsAsked
PROPERTIES
  BindSettles
\* One bind: it stops when it has settled.
CHECK_DEADLOCK FALSE
