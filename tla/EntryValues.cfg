\* An entry added may have any value there.
CONSTANTS
  Attributes = {1, 2}
  Seeds <- SomeSeeds
  Candidates <- SomeCandidates
  Scalars <- SomeScalars
  Payloads <- SomePayloads
  Modes <- SomeModes
  Cells = {1, 2, 3, 4, 5, 6, 7}
  MaxValues = 3
  MaxSteps = 4
SPECIFICATION Spec
INVARIANTS
  LastChangeHolds
  CompareFindsWhatSearchReturned
PROPERTIES
  SharesOnlyWhatWasGiven
  SearchKeepsEveryValue
\* The steps are over.
CHECK_DEADLOCK FALSE
