\* One request of every kind.
CONSTANTS
  OtherCodes <- SomeCodes
  NoCode = nocode
SPECIFICATION Spec
INVARIANTS
  FreedAtTheEnd
  ErrorsCarryTheCode
\* It stops when it has settled.
CHECK_DEADLOCK FALSE
