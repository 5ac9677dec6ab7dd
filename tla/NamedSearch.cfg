\* Nothing is deleted: entries are added and renamed between the pages.
CONSTANTS
  a = a  b = b  c = c
  paged = paged  plain = plain  stream = stream
  Dns <- Names
  SeedDns <- Seeds
  NewDns <- OneName
  DelDns <- Nothing
  MaxEntries = 5
  Paged <- OnePaged
  Plain <- OnePlain
  Streams <- OneStream
  PageSize = 2
SPECIFICATION NamedSpec
PROPERTIES
  ImplementsAtomicSearch
\* A program may be done with its calls.
CHECK_DEADLOCK FALSE
