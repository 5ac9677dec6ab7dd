\* Three seeded entries and one more; any entry may be renamed to a, a may be
\* added again, and every a deleted at once, between pages of one entry.
CONSTANTS
  a = a  b = b  c = c
  paged = paged  plain = plain  stream = stream
  Dns <- Names
  SeedDns <- Seeds
  NewDns <- OneName
  DelDns <- OneName
  MaxEntries = 4
  Paged <- OnePaged
  Plain <- Nothing
  Streams <- OneStream
  PageSize = 1
SPECIFICATION FairSpec
INVARIANTS
  ReportedOnce
  MissedOnlyByDeletes
PROPERTIES
  CallsSettle
\* A program may be done with its calls.
CHECK_DEADLOCK FALSE
