\* Four items hold two nested sequences with two items.
CONSTANTS
  ByteSize = 8
  Sequence = 3  Integer = 2  OctetString = 4
  Strings <- SomeStrings
  Numbers <- SomeIntegers
  MaxItems = 4
  Addresses <- SomeAddresses
  FilterObjects <- SomeFilters
  FilterWords <- SomeFilterWords
  MaxNesting = 3
  Dns <- SomeDns
  DnTexts <- SomeDnTexts
  MaxControls = 2
  ControlOptions <- SomeControlOptions
  ClientOptions <- SomeClientOptions
  SearchOptions <- SomeSearchOptions
  EntryNames <- SomeEntryNames
  MessageCalls <- SomeMessageCalls
  IntRange = 16
  GivenValue = given
  Undefined = undefined
  Distributions <- SomeDistributions
  OtherLines <- SomeOtherLines
  NotYet = notyet
SPECIFICATION CodecsSpec
INVARIANTS
  ReadsBack
  ThrowsOnlyOnTruncation
  RoundTripUnlessCommaDigits
  PrintsItsText
  NamesSurvive
  EqualNamesAreTheSame
  DescribesEachControl
  SentAsAsked
  MessagesKeepWhatIsGiven
  GuidanceFitsTheSystem
\* A program stops when everything is read.
CHECK_DEADLOCK FALSE
