------------------------------ MODULE Conversions ------------------------------
(***************************************************************************)
(* A program that uses what src/runtime.cjs, src/client.cjs and the        *)
(* install hook convert: it turns an address, a filter or a name into text *)
(* and back, has controls described to the addon, makes a client,          *)
(* searches, renames an entry, copies a message, or has the hook print its *)
(* guidance.                                                               *)
(***************************************************************************)
EXTENDS PostalAddress, DnText, InstallGuidance, NativeArguments, Messages

CONSTANTS Addresses,       \* each a sequence of lines
          FilterObjects,   \* made by a program
          Dns,             \* made by a program
          DnTexts,         \* come from elsewhere
          ControlOptions,  \* arguments of the constructors
          MaxControls,     \* bound: controls of a request
          ClientOptions,   \* each for one platform
          SearchOptions,
          EntryNames,      \* texts of names, for a rename
          MessageCalls,    \* options, each for one class
          Distributions,
          OtherLines,      \* of os-release, each a sequence of lines
          NotYet

ASSUME AddressesAssumption ==
  \A address \in Addresses : address # <<>> /\ address \in Seq(Seq(Tokens))

ASSUME MaxControlsAssumption == MaxControls \in Nat

ASSUME OptionsAssumption ==
  /\ \A options \in SearchOptions : IsSearchOptions(options)
  /\ \A options \in ClientOptions : IsClientOptions(options)

ASSUME FiltersAssumption == FilterObjects \subseteq Filters[MaxNesting]

\* Texts are of strings.
ASSUME NamesAssumption ==
  /\ EntryNames \subseteq Seq(STRING) /\ DnTexts \subseteq Seq(STRING)
  /\ \A dn \in Dns :
       /\ dn = Dn(dn.rdns)
       /\ dn.rdns \in Seq(Seq([name : Seq(STRING), value : Seq(STRING)]))

ASSUME DistributionsAssumption ==
  /\ \A distribution \in Distributions : IsDistribution(distribution)
  /\ \A lines \in OtherLines : IsOther(lines)

\* This option is declared a boolean; undefined is no default of the others.
ASSUME MessagesAssumption ==
  /\ Undefined \notin {NoText, NoAttributes, "sub", "never"} /\ Undefined \notin BOOLEAN
  /\ \A call \in MessageCalls :
       /\ call.class \in MessageClasses
       /\ Get(call.options, "returnAttributeValues") \in Optional(BOOLEAN)

VARIABLES
  codec,   \* what is converted, by name
  source,  \* the address, filter, name, options, names or distribution
  text,    \* what was written for it, made of it, or passed to libldap
  back     \* what was read from that, or described, copied, or printed

textVars == <<codec, source, text, back>>

\* Controls, some of them left out.
OptionLists == BoundedSeq(ControlOptions \cup {Undefined}, MaxControls)

ConversionsInit ==
  /\ \/ codec = "dnText" /\ source = NotYet
     \/ codec = "address" /\ source \in Addresses
     \/ codec = "filter" /\ source \in FilterObjects
     \/ codec = "dn" /\ source \in Dns
     \/ codec = "controls" /\ source \in OptionLists
     \/ codec = "client" /\ source \in ClientOptions
     \/ codec = "search" /\ source \in SearchOptions
     \/ codec = "rename" /\ source \in [dn : EntryNames, newDN : EntryNames]
     \/ codec = "message" /\ source \in MessageCalls
     \/ codec = "guidance" /\ source \in Distributions
     \/ codec = "ber" /\ source = NotYet  \* nothing of this
  /\ IF codec = "dnText" THEN text \in DnTexts ELSE text = NotYet
  /\ back = NotYet

Writes(name) ==
  /\ codec = name /\ text = NotYet
  /\ UNCHANGED <<codec, source, back>>

Reads(names) ==
  /\ codec \in names /\ text # NotYet /\ back = NotYet
  /\ UNCHANGED <<codec, source, text>>

WriteAddress == Writes("address") /\ text' = AddressToString(source)
ReadAddress == Reads({"address"}) /\ back' = AddressFromString(text)

WriteFilter == Writes("filter") /\ text' = FilterToString(source)
ParseFilter == Reads({"filter"}) /\ back' = Parse(text)

WriteDn == Writes("dn") /\ text' = DnToString(source)
ParseName == Reads({"dn", "dnText"}) /\ back' = ParseDn(text)

MakeControls ==
  /\ Writes("controls")
  /\ text' = [i \in DOMAIN source |->
               IF source[i] = Undefined THEN Undefined ELSE Constructed(source[i])]
DescribeControls == Reads({"controls"}) /\ back' = EncodeControls(text)

\* The constructor of a client throws, or calls the addon.
Connect ==
  /\ Writes("client")
  /\ LET native == BuildNativeConnectOptions(source) IN
     text' = IF native = UnsupportedUrl THEN UnsupportedUrl ELSE ConnectArguments(native, source.platform)

\* The first request of search(), or of searchPaginated().
IsPaged(options) == options.paged # Undefined

FirstSearch ==
  /\ Writes("search")
  /\ \/ ~IsPaged(source) /\ text' = SearchArguments(ToNativeSearchOptions(source))
     \/ text' = SearchArguments(BuildPagedSearchOptions(source, NoCookie))

\* The server may have more, and says so with a cookie.
NextPage ==
  /\ Reads({"search"}) /\ text.page # NotSet
  /\ back' = SearchArguments(BuildPagedSearchOptions(source, ServerCookie))

\* modifyDN()
Rename == Writes("rename") /\ text' = RenameArguments(source.dn, source.newDN)
RenameEntry == Reads({"rename"}) /\ back' = Renamed(text)

MakeMessage == Writes("message") /\ text' = New(source.class, source.options)
CopyMessage == Reads({"message"}) /\ back' = New(source.class, text)

\* The file that the distribution installs; it may be missing.
InstallRelease ==
  /\ Writes("guidance")
  /\ text' \in {Unreadable} \cup ReleaseTexts(source, OtherLines)
PrintGuidance ==
  /\ Reads({"guidance"})
  /\ \E includeGssapi \in BOOLEAN :
       back' = FormatInstallGuidance(
                 [platform |-> source.platform, alpineRelease |-> source.alpineRelease,
                  osRelease |-> text], includeGssapi)

ConversionsNext ==
  \/ WriteAddress \/ ReadAddress
  \/ WriteFilter \/ ParseFilter
  \/ WriteDn \/ ParseName
  \/ MakeControls \/ DescribeControls
  \/ Connect \/ FirstSearch \/ NextPage
  \/ Rename \/ RenameEntry
  \/ MakeMessage \/ CopyMessage
  \/ InstallRelease \/ PrintGuidance

ConversionsSpec == ConversionsInit /\ [][ConversionsNext]_textVars

-------------------------------------------------------------------------------
(* Properties *)

AddressReturned == codec = "address" /\ back # NotYet

\* An address comes back as it was written, all lines of it, unless one of
\* them looks like an escaped comma.
RoundTripUnlessCommaDigits ==
  AddressReturned =>
    /\ Len(back) = Len(source)
    /\ \A i \in DOMAIN source : HasCommaDigits(source[i]) \/ back[i] = source[i]

\* An address comes back as it was written: "PostalAddress roundtrip" in
\* upstream/PostalAddress.test.ts.
RoundTrip == AddressReturned => back = source

FilterReturned == codec = "filter" /\ back # NotYet

\* A parsed filter prints the text it was parsed from, nested groups and all
\* kinds of match included; where there are stars it may print one twice, but
\* they do not add up: printing and parsing again changes nothing.
PrintsItsText ==
  FilterReturned =>
    /\ back \in Filters[MaxNesting]
    /\ Stars(FilterToString(back)) = Stars(text)
    /\ Positions(text, "*") = {} => FilterToString(back) = text
    /\ Parse(FilterToString(back)) = back

Named == codec \in {"dn", "dnText"} /\ back # NotYet

\* A name comes back as it was written unless one of its parts would have
\* needed an escape; and whatever a text was parsed to is parsed again from the
\* text it prints, unless that ends in a lone backslash.
NamesSurvive ==
  Named =>
    /\ codec = "dn" /\ NeedsNoEscape(source) => back = source
    /\ back # InvalidRdn =>
         LET printed == DnToString(back)
         IN Dangling(printed) \/ ParseDn(printed) = back

PlainDns == {dn \in Dns : NeedsNoEscape(dn)}
ParsedDns ==
  {dn \in {ParseDn(name) : name \in DnTexts} : dn # InvalidRdn /\ ~Dangling(DnToString(dn))}

\* DN.equals compares texts: it takes a parsed name for another parsed one, or
\* for one that needs no escape, only if their attributes are the same, case
\* aside, unless the text ends in a lone backslash.  Names that a program makes
\* of parts that need an escape may be taken for others.
EqualNamesAreTheSame ==
  Named /\ back # InvalidRdn =>
    \A other \in PlainDns \cup ParsedDns :
      DnEquals(back, other) /\ ~Dangling(DnToString(back)) =>
        LowerCased(other) = LowerCased(back)

\* Every control that was passed is described, in its place among them, and a
\* description fits no other control than one that asks for the same.
DescribesEachControl ==
  codec = "controls" /\ back # NotYet =>
    LET given == {i \in DOMAIN text : text[i] # Undefined}
    IN /\ Len(back) = Cardinality(given)
       /\ \A i \in given, options \in ControlOptions :
            EncodeControl(Constructed(options)) = back[Cardinality(1 .. i \cap given)] =>
              AsksTheSame(Constructed(options), text[i])

\* Clients for different places are made with different arguments, also where
\* the url is taken apart, and so are clients with different timeouts, of a
\* millisecond at least, where the library has timeouts.
Place(url) == <<url.scheme, url.host, OrElse(url.port, DefaultPort(url))>>
Millis(timeout) == Max({0, Truncated(OrElse(NumberOnly(timeout), 0))})

TellsClientsApart(options, arguments) ==
  arguments # UnsupportedUrl =>
    \A other \in {o \in ClientOptions : o.platform = options.platform} :
      LET native == BuildNativeConnectOptions(other) IN
      native # UnsupportedUrl /\ ConnectArguments(native, other.platform) = arguments =>
        /\ Place(other.url) = Place(options.url)
        /\ HasTimeouts(options.platform) =>
             /\ Millis(other.timeout) = Millis(options.timeout)
             /\ Millis(other.connectTimeout) = Millis(options.connectTimeout)

\* The limit of a search survives as an int32_t: at least 1 and in its range.
IsLimit(n) == n # Undefined /\ n >= 2 /\ n < IntRange
IsNoLimit(n) == n = Undefined \/ (n < 2 /\ n >= 0)

\* A SearchRequest of the same options describes the search that is sent; only
\* what it says of the time limit and the filter by default is something else.
RequestSays(sent, options) ==
  LET request == SearchRequest(options) IN
  /\ sent.scope = ScopeFromString(request.scope)
  /\ sent.scope = "SUBTREE" <=> request.scope = "sub"
  /\ sent.deref = MapDerefAliases(request.derefAliases)
  /\ sent.deref = "NEVER" <=> request.derefAliases = "never"
  /\ sent.attrsOnly = ~request.returnAttributeValues
  /\ sent.attributes = request.attributes
  /\ sent.sizeLimit = Int32(request.sizeLimit)
  /\ options.timeLimit # Undefined /\ request.timeLimit >= 2 /\ request.timeLimit < IntRange =>
       sent.timeout = Int32(request.timeLimit)
  /\ options.filter # Undefined => sent.filter = NormalizeFilter(request.filter)

\* The first comma of a name ends its RDN, which is not empty, and a parent
\* follows it.
IsCut(name) ==
  /\ BeforeComma(name) # <<>> /\ ~IsEscaped(name, FirstComma(name))
  /\ FirstComma(name) <= Len(name) => AfterComma(name) # <<>>

\* What libldap gets says what was asked. A client goes to its own url, with its
\* own timeouts but on Windows. A search has the limits it was given, of 1 at least, and none
\* if it was given none; its pages are of one search and differ in the cookie
\* alone, which is the empty one at first, also where options.paged has one
\* (src/types/Client.ts:12), and then the server's. A rename gives the entry the
\* new name, under its own parent if that is only an RDN, and asks for a move
\* only where there is one, unless the first comma of either name is escaped.
SentAsAsked ==
  /\ codec = "client" /\ text # NotYet => TellsClientsApart(source, text)
  /\ codec = "search" /\ text # NotYet =>
       /\ RequestSays(text, source)
       /\ IsLimit(source.timeLimit) => text.timeout = source.timeLimit \div 2
       /\ IsNoLimit(source.timeLimit) => text.timeout = NotSet
       /\ IsLimit(source.sizeLimit) => text.sizeLimit = source.sizeLimit \div 2
       /\ IsPaged(source) => text.page # NotSet /\ text.page.cookie = NoCookie
       /\ back # NotYet => back = [text EXCEPT !.page.cookie = ServerCookie]
  /\ codec = "rename" /\ back # NotYet /\ IsCut(source.dn) /\ IsCut(source.newDN) =>
       LET asked == IF Parent(source.newDN) # <<>> THEN source.newDN
                    ELSE Under(source.newDN, Parent(source.dn))
       IN /\ back = asked
          /\ text.newParent # NotSet <=> Parent(asked) # Parent(source.dn)

\* The constructors keep what src/types/messages declares: a message has every
\* option of its class, as it was given, and always those that are declared
\* without a question mark; and a message made of it is the same.
MessagesKeepWhatIsGiven ==
  codec = "message" /\ text # NotYet =>
    /\ \A option \in Declared(source.class) :
         /\ option \in DOMAIN text
         /\ Get(source.options, option) \in {Undefined, text[option]}
         /\ option \in MayBeUndefined(source.class) \/ text[option] # Undefined
    /\ back # NotYet => back = text

\* The packages that the hook names are those of the distribution, however its
\* os-release is written; without that file it names none in particular.
GuidanceFitsTheSystem ==
  codec = "guidance" /\ back # NotYet =>
    Head(back) = IF NeedsRelease(source) /\ text = Unreadable THEN "packages" ELSE source.manager
===============================================================================
