\* Bytes, addresses and filters as in Codecs.cfg.
CONSTANTS
  ByteSize = 8
  Sequence = 3  Integer = 2  OctetString = 4
  Strings <- SomeStrings
  Numbers <- SomeIntegers
  MaxItems = 4
  Addresses <- SomeAddresses
  FilterObjects <- SomeFilters
  FilterWords <- SomeFilterWords
  MaxNesting = 3
  Dns = {}
  DnTexts = {}
  MaxControls = 2
  ControlOptions = {}
  ClientOptions = {}
  SearchOptions = {}
  EntryNames = {}
  MessageCalls = {}
  IntRange = 16
  GivenValue = given
  Undefined = undefined
  Distributions = {}
  OtherLines = {}
  NotYet = notyet
SPECIFICATION CodecsSpec
INVARIANT RoundTrip
\* A program stops when everything is read.
CHECK_DEADLOCK FALSE
