CONSTANT MaxRounds = 3
SPECIFICATION Spec
INVARIANTS
  RoundTripsAnswered
\* One bind: it stops when it has settled.
CHECK_DEADLOCK FALSE
