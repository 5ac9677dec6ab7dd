# Formal models of ldap-native

TLA+ models of `ldap-native`, an LDAP client for Node.js: a JavaScript `Client`
(`src/client.cjs`) over a C++ addon (`native/addon.cc`) that calls libldap, an
in-memory backend with the addon's interface (`src/mock-native.cjs`), the hook
that installs the addon and the loader that finds it. Paths in this file are
relative to the repository.

## Inventory

| Component | State | Operations | Correct when |
|---|---|---|---|
| Client life cycle, `src/client.cjs` | `nativeHandle`, `isConnected`, `tempPaths` | constructor, ten requests, `startTLS`, `unbind` | calls go out on the client's own connection; closing is final and complete |
| Handle table, `native/addon.cc` | `g_handles`, `g_nextId` | `Connect`, `GetHandle`, `Unbind` | an id names the connection it was made for; no connection is used after it is freed |
| TLS material, `src/client.cjs` | directories in `os.tmpdir()` | `makeTempFile`, `cleanupTempPaths` | what is written is removed, and only by its owner |
| Search and paging, `src/client.cjs` | the cookie, the entries collected | `search`, `searchPaginated`, the shaping of values | no entry twice, none missed without a reason, an end; no value lost |
| In-memory backend, `src/mock-native.cjs` | `handles`, `entries` per handle, the arrays in an entry | the addon's interface | pages and changes compose; a change stays as it was made |
| SASL bind, `client.cjs` and `addon.cc` | option merge, the message in hand | `bind`, `saslBind`, `BindSasl`, `RunSaslInteractiveBind` | success means acceptance; messages are freed; it ends |
| Install hook and loader, `scripts/install.cjs`, `scripts/create-prebuild.cjs`, `src/native-loader.cjs` | files, environment | `resolveNativePath`, the hook, staging, `loadNative` | exit code 0 means the loader has an addon to take, here and where the package goes |
| TLS option scoping, `addon.cc:102-117,408-463` | global and per-handle libldap options | `SetLdapOption`, `ApplyTlsOptions` | a client connects with its own options, and a gone file stops only those it must |
| Native requests, `addon.cc:490-1236`, `client.cjs` | libldap results | `Connect`, `Search`, `Compare`, `ModifyDN`, `Exop`, the others | libldap is asked what the caller asked; the caller of a failed request learns its code; what is allocated is freed |
| Codecs, `src/runtime.cjs` | the writer's chunks and stack, the reader's offset | BER, `PostalAddress`, DN, filters, messages, `StatusCodeParser` | decoding undoes encoding; nothing given is dropped |
| Controls, `runtime.cjs`, `client.cjs:34-67` | -- | constructors, `encodeControls` | every control is described, in its order |
| Install guidance, `src/install-guidance.cjs` | -- | `parseOsRelease`, `formatInstallGuidance` | the packages named are those of the system |
| Build/CI scripts, declarations, upstream copies, entry points | -- | -- | not modelled, see the end |

How they interact. A `Client` calls the addon (or the in-memory backend; the
interface is one) and awaits what it returns. The addon is synchronous: it calls
libldap and blocks until there is an answer, so the JavaScript side sees one
task at a time. Concurrency comes from the event loop: a method runs up to its
first `await`, and every other task may run before it continues. The addon's
tables are shared by all clients of the process; the temporary directory is
shared with the machine.

What is hard: the gap in `unbind()` between the native call and the `finally`
block; a counter of ids that wraps; failures half way through a constructor,
`startTLS` or the interactive bind; pages of a list that changes between them; a
time limit that is neither an answer nor an error; files an installer left
behind long ago. `PROJECT.json` lists each one at its line under `hazards`.

## Modules

| Module | Models | Uses |
|---|---|---|
| `HandleTable` | the addon's handle table | -- |
| `LdapClient` | clients and their temporary files; refinement mapping to `LdapSession` | EXTENDS `HandleTable` |
| `LdapSession` | what a client promises: one connection, opened once, closed once | -- |
| `MCLdapClient` | instances, symmetry | EXTENDS `LdapClient` |
| `LdapClient_proofs` | theorems about `LdapClient` | EXTENDS `LdapClient`, `TLAPS` |
| `MockDirectory` | the entry list of the in-memory backend | -- |
| `PagedSearch` | `search` and `searchPaginated` over it | EXTENDS `MockDirectory` |
| `NamedSearch` | the same with the names of the answers; refinement mapping to `AtomicSearch` | EXTENDS `PagedSearch` |
| `AtomicSearch` | what a search promises: the entries of one instant, under names of the time of the search | -- |
| `MCPagedSearch`, `MCNamedSearch` | instances | EXTENDS `PagedSearch`, `NamedSearch` |
| `PagedSearch_proofs` | theorems about both | EXTENDS `NamedSearch`, `TLAPS` |
| `EntryValues` | the values of an entry of that backend, and who shares their arrays | EXTENDS `Texts` |
| `MCEntryValues` | the values of the instance | EXTENDS `EntryValues` |
| `EntryValues_proofs` | theorems about `EntryValues` | EXTENDS `EntryValues`, `TLAPS` |
| `SaslBind` | a SASL bind from the option merge to libldap's loop | -- |
| `SaslBind_proofs` | theorems about `SaslBind` | EXTENDS `SaslBind`, `TLAPS` |
| `TlsScope` | TLS options in libldap's two scopes, for several clients | -- |
| `MCTlsScope` | instance and symmetry | EXTENDS `TlsScope` |
| `TlsScope_proofs` | theorems about `TlsScope` | EXTENDS `TlsScope`, `TLAPS` |
| `ResultCodes` | the error classes, their codes, `StatusCodeParser` | -- |
| `NativeRequests` | one request through its handler and back | EXTENDS `ResultCodes` |
| `MCNativeRequests` | the result codes of the instance | EXTENDS `NativeRequests` |
| `NativeRequests_proofs` | theorems about both | EXTENDS `NativeRequests`, `TLAPS` |
| `NativeInstall` | the install hook, staging and the loader over the files they find | -- |
| `NativeInstall_proofs` | theorems about `NativeInstall` | EXTENDS `NativeInstall`, `TLAPS` |
| `Texts` | `join`, `split` and `trim` over tokens | -- |
| `PostalAddress`, `FilterText`, `DnText` | addresses, filters and names to text and back | EXTENDS `Texts` |
| `InstallGuidance` | which packages the hook asks for | EXTENDS `Texts` |
| `Controls` | the controls and their descriptions | -- |
| `NativeArguments` | what libldap is called with for a search, a connection, a rename | EXTENDS `FilterText`, `Controls` |
| `Messages` | the constructors of the message classes, and their declarations | EXTENDS `Controls` |
| `Conversions` | a program that converts with the six above | EXTENDS these |
| `BerStream` | the BER writer and reader | -- |
| `Codecs` | a program that uses a stream or converts | EXTENDS `BerStream`, `Conversions` |
| `MCCodecs` | the inputs of the instance | EXTENDS `Codecs` |
| `Codecs_proofs` | theorems about `Codecs` and its two parts | EXTENDS `Codecs`, `TLAPS` |

### HandleTable and LdapClient

An `LDAP*` is named by the client whose constructor made it, since a constructor
calls `native.connect` once. `g_handles` is a function from the ids
(`0 .. IdSpace - 1`, 2^32 in the code) to connections or `NoLd`; `g_nextId` wraps
as a `uint32_t` does. `openLds` is the set of connections libldap has allocated
and not freed. `age` is history: how many registrations happened since a
connection got its id.

`LdapClient` has one action per outcome of an operation: `Construct`,
`ConstructFailsEarly` (no url, a file that cannot be written, a failing
`ldap_initialize`), `ConstructFailsInTls` (`ApplyTlsOptions` throws after
`ldap_initialize`: the connection is never registered, so never freed),
`Request` (the bind, search, add, modify, del, compare, modifyDN and exop calls,
of which the connection they go out on is kept), `StartTLS`, `Unbind` (the call,
up to its `await`), `UnbindAgain` (the early return) and `FinishUnbind` (the
`finally` block, in a later task). Writing TLS material may fail before or after
`mkdtempSync` made a directory, and removing it may fail: `lost` remembers the
directories nobody will remove for that reason. `late` remembers those that
`startTLS` wrote for a client that was already closed, which the code does not
refuse; the next `unbind()` of such a client returns at once, so they stay.

`LdapSession` is the abstract view: a session is opened or fails, serves calls on
its own connection, closes, is closed. `SessionOf` maps `phase`, `isConnected`
and `unbinding` to it; `ImplementsSession` checks the implementation, fairness
included, and the proofs cover `Safety`, the specification without fairness.

### MockDirectory, PagedSearch and NamedSearch

The backend's array only grows at its end, is filtered in order and renamed in
place, so an entry is the number of its creation and its index is the number of
live entries before it. `PageAt` is `search()` of the backend: a slice and, as
cookie, the next offset, 0 for the empty cookie.

A call reads its page when it calls the backend (`Read`) and gets it in a later
task (`Collect` for `search`, `Yield` for `searchPaginated`); `search` asks for the
next page in that same task, the generator when its consumer asks (`Pull`), or
never (`Stop`). `Add`, `Del`, `Rename` and `Unbind` are other tasks. `stable` and
`passed` are history variables for `MissedOnlyByDeletes`: what was there all along, and how many
deletions hit the part already read.

`NamedSearch` adds what a caller sees of renames: the backend clones the entries of
a page when it reads it (`clones`), each with the name it has then. `since` is
history: every pair of an entry and a name that was in the directory since the call
began. `AtomicSearch` promises of a search that its answer has the entries of the
directory at one instant, each once and under a name it had between the call and
that instant; if it is taken in the call itself, the names are of that instant too.
More is not true of pages: an entry renamed between two of them is answered with
the name it had when its own page was read, so that entries and names together
may be those of no instant.

### EntryValues

A cell is a JavaScript array; slots of an entry, the caller's argument and the
entry a search returned refer to cells. `AddObject` stores the caller's arrays,
`AddAttributes`, `Modify` and `Search` copy (`CopiedSlot`, `Store`). `Modify` is the loop of the
backend, change by change, and may throw on the way, with the changes before it
kept. A value is a text or a Buffer and is never written into. An attribute that
was added as a single string is a scalar: adding to it spreads its characters,
and deleting from it or comparing with it throws a `TypeError`, as a string has no
`filter` or `some` (the docker tests add such scalars,
`tests/integration/docker-openldap.integration.test.cjs:173-185`). `Shape` is the client's part of a search:
`singleValueAttributes`, then `trimAttributeValues`, each of which is absent, true, a list of names in
any case, or something else that matches nothing (`MatchesAttributeOption`). The keys of an entry
differ in more than their case. `given` is history: the arrays that a
caller put into the entry itself, the only ones `SharesOnlyWhatWasGiven` excuses. `dn` is
not an attribute; `__getState`, which tests use, exposes the store and is left out.
New arrays go into the free cells in order (`Allocate`), and what `filter()` leaves of an
array is taken by position (`At`); both count instead of recursing, so that they can be
proved about.

### SaslBind

The payload is computed from every configuration and every argument (`BindPayload`,
`SaslPayload`: `undefined` keeps what is configured, `null` drops it). `config` and `request` keep what
was configured and asked, from which `MechanismsAsked` says what the caller may expect, without
the merge. `Dispatch`
is `BindSasl` up to the network, `OneShot` is `ldap_sasl_bind_s`, and
`BeginNegotiation`, `ContinueNegotiation`, `Answer`, `ConnectionLost` and `TimeOut`
are the steps of the loop. libldap and the server are external: `server` is what
the server last said, `agreed` the mechanism under negotiation. Without a
mechanism, libldap chooses one, which is what happens when the loop goes round
after a time-out. The SSPI branch of the Windows build is not modelled.

### TlsScope

`SetLdapOption` writes each option to libldap's global options and to the handle.
Which of the two a libldap honours is chosen in the initial state (`scope`), as
the comment in the code leaves it open. `options` holds both kinds, `context`
what a TLS context was made from when `LDAP_OPT_X_TLS_NEWCTX` was set (`Renewed`,
external: it fails on a file that is gone; so is that a new handle begins with the
library's defaults, while a libldap that copies its global options into new handles
would pass on what other clients set, whichever scope it honours), and `used` what the connection of a
client came out of. One file and the verification stand for all options:
`Applies` sets them in the order of the code, `Breaks` stops at any of them, and
nothing is undone. `ConstructThrows` removes the file the constructor wrote;
`FinishUnbind` removes the client's files and leaves the global options that name
them. `writer`, `mine` and `missing` are history. The client's own life cycle is
`LdapClient`'s, cut down to what touches options and files.

### ResultCodes and NativeRequests

`ResultCodes` holds two tables of `src/runtime.cjs`: the code each class of error puts
on its objects, and the class `StatusCodeParser` picks for a code.

`NativeRequests` is one request of any kind but a SASL bind, with the objects its handler
takes from `malloc`, `new` and libldap. `Convert` is the part that reads the arguments and
allocates, with `ConvertThrows`, `OptionRefused` and `ControlRefused` as its other
ends; `Send`, `SendSearch`, `SendExop` and `SendCompare` are the calls of libldap,
which comes back with any code; `Read` builds the answer of a search. A compare
waits by itself: `CompareAnswers`, `CompareFails` (-1), and `CompareTimesOut`, where
the handler passes a null message to `ldap_parse_result`, which is undefined.
`ErrorOf` is `MakeLdapError` and `convertNativeError`. Two kinds of leak are in the
model and named by `FreedAtTheEnd`. The model also follows the code where a compare takes
every code but `compareTrue` for "no", and where a search that met a limit resolves with
what it has (`Accepted`); nothing says otherwise, so that no property is about it.

### NativeInstall

A file is absent, loads, misses a shared library, or was built for something
else. The candidates are numbered in the order of `resolveNativePath`. Which file
is found depends on existence alone, so that a file for another platform ends the
hook without a build (`scripts/install.cjs:79`), while `docs/BUILD.md:17` and `README.md:119`
speak of a fall-back when no compatible binary is there. The actions are the hook's
ways through `install.cjs`; `LoadNative` is what the loader does afterwards with the same
files and environment. `node-gyp` removes the old build before it makes the new one, so
a failing build may leave nothing. The hook exits 0 when `node-gyp` does and does not load what was built
(`scripts/install.cjs:92`), so that a built addon loads or misses a library: after a build,
`InstalledLoads` only says that the loader takes what was built, and loads it unless that is so.

`Stage` is `create-prebuild.cjs`, which copies the addon to the prebuild of every triple of
the machine, the one without a libc included; a package of a glibc machine is therefore
found on a musl one and fails there. `Publish` is external: the package arrives on
another machine without its `build/`, where its prebuilds may miss libraries, or mean
nothing on an unlike one, and where other packages may be installed. Prebuilds and
packages alternate per triple, which is not what `docs/PREBUILDS.md:29` says.

### The codecs

Each codec is a module of operators, but for BER streams, which are a state machine. In
`Conversions` a program picks one of them and one input, writes it and reads it back;
`Codecs` adds the streams. What a program converts is what `Addresses`,
`FilterObjects`, `Dns`, `ControlOptions` and the other constants hold, of any size.

In `PostalAddress` a text is a sequence of tokens, the digit pairs of the escapes
being one token each. `Escape` and `Unescape` are single replacements and
`EscapeLine`, `UnescapeLine` compose them in the order of the code.

In `BerStream` a program calls the writer in any order; `items` is the history of
what it wrote, the length of a sequence included once `endSequence` knows it.
`Deliver` is `buffer()`, which keeps the low byte of every number, followed by the
loss of any suffix; then the program reads the same items. Only the default tags
are used. A byte has `ByteSize` values, so that a length of `ByteSize \div 2` is
where the long form begins, which the reader knows and the writer does not.

In `FilterText` filters are records: `ItemFilters` those without filters in them, and
`Filters[n]` those with up to `n` groups and negations in one another, whose values have no
parentheses and stars of their own, which `toString` does not escape. `FilterTexts[n]` prints the
filters of a level by what it prints for the level below. `ParseExpression` is the code's
recursive descent over tokens; of `parseGroup`, `Depth` is the counter, `Openings` the places where
`start` is set and `Members` the parts that are cut out. The attribute of a parsed filter may end
in `~`, `>`, `<` or `:`, because the parser looks for `=` only: it prints the same text.
The condition for a presence filter in `ParseItem` is the code's, and cannot hold.

In `DnText` nothing is escaped when a name is printed. `DN.parse` splits at commas by a
lookahead over the rest of the text, in pairs of a backslash and its successor
(`Dangling`, `Separators`): it separates at escaped commas too, and at no comma at all
before a backslash that ends the text. `DN.equals` compares what is printed: names that a
program makes of parts with commas may print what other names print, so that
`EqualNamesAreTheSame` is about parsed names and those that need no escape.

`Controls` has the constructors and `encodeControls`. `addon.cc` never reads the
descriptions, so that no control of a caller, even a critical one, reaches a server; the
paging control comes from the search options. `docs/COMPATIBILITY.md:58` says that
much: a full encoder is a future enhancement. `Control` is taken with an object of options; of its
string form only the arguments differ, and a `type` among the options of a class that has one, which the
declarations do not allow, is left out.

`Messages` has one operator per constructor of `src/runtime.cjs:595-684`, each of which sets its own
fields after those of the class it extends, and apart from them what `src/types/messages` declares:
the options of each class (`Declared`) and the members that may be undefined.
`MessagesKeepWhatIsGiven` compares the two. `SearchRequest` has 10 as its default time limit, while
the client sends none.

`NativeArguments` follows numbers and names into libldap. Numbers are counted in halves and
become an `int32_t` of `IntRange` values: a time limit below 1 is cut to none, a large one
wraps; timeouts below a millisecond are dropped, and on Windows both are, as `winldap.h` has neither
of the options under whose `#ifdef` `addon.cc:525,537` sets them (`HasTimeouts`).
`options.paged.cookie`, declared in
`src/types/Client.ts:12`, is never used, as a paged search begins with the empty cookie.
`Comma` is where `ModifyDN` cuts a name, and `Parent` where a server does (external): they
disagree when the comma is escaped. The in-memory backend takes the new name as it is,
so that a rename to an RDN alone loses the parent there.

In `InstallGuidance` a file is a sequence of lines of tokens. `ReleaseTexts` writes the
`os-release` of a distribution in every order and quoting, among other lines. `ManagerOf` is what a
distribution is installed with by its fields themselves, which `GuidanceFitsTheSystem` compares
with what the hook makes of the file.

## Runs

| Run | Instance | Shows |
|---|---|---|
| `LdapClient_safety` | 3 constructors, 2 ids, 2 directories, 2 unbinds in flight | isolation, ownership of files and connections, no use after unbind, also after the counter wrapped |
| `LdapClient_live` | 2 constructors, 4 ids | every unbind's files are removed, `LdapSession` is implemented |
| `PagedSearch_safety` | 3 entries and one more, pages of one, a search and a stream | nothing twice, misses only through deletions, calls settle |
| `NamedSearch` | 3 entries and two more, pages of two, all three kinds of call, renames, no deletions | the answer has the entries of one instant, each once and under a name it had during the search |
| `EntryValues` | 2 attributes, arrays of up to 3 values in 7 cells, 4 steps | the last change of an attribute holds; `compare` finds what a search returned; only arrays given to `add` in an object are shared; shaping loses no value, and heeds a name in any case |
| `SaslBind_settles` | every configuration, up to 3 answers | messages freed, success means acceptance, the mechanism asked for, an end |
| `SaslBind_roundtrips` | the same | **violated**: see below |
| `TlsScope` | 2 clients, 2 `startTLS` calls, either scope | the options a connection comes out of are its client's, unless only global options count and another client set some since; a set-up misses only files another client removed |
| `NativeRequests` | every operation, codes of every kind | what is freed, that the code reaches the caller |
| `Codecs` | streams of 4 items, bytes of 8 values, every truncation; addresses of one line of three tokens, or two of two; 1778 filters, three levels; names of two attributes and texts of five tokens; two controls; limits around 0, 1 and the end of the range; pairs of names for a rename; two options of each message class; eleven systems | items that fit are read as written, a string may be cut and then nothing more is read, no other exception; an address comes back, except a line with `\2c`; a parsed filter prints its text, up to doubled stars; names come back unless they needed an escape, and parsed names that are equal have equal parts; controls, searches, clients, renames and messages say what was asked; the guidance fits the system |
| `Codecs_address` | the addresses | **violated**: see below |
| `NativeInstall_linux` | one root, two triples, every combination of files and flags, staging, one other machine | exit code 0 means the loader loads what was found or takes what was built; only a forced build takes away what loaded; a shipped prebuild is used |

Bounds. Two ids and three constructors are the least with which an id is handed
out twice while its first holder is alive; two directories let two clients, or
two calls of one client, compete for one name; two unbinds in flight are the
least that overlap. A page of one entry puts a page boundary between any two
entries, and three entries with one name to rename to let one deletion hit
several of them, before and after the offset. A second round is the first one
that carries an answer, and a third the first that follows a carried answer.
Two clients are the least of which one can write
the options of the other; two `startTLS` calls let one follow a refused one. A
request is alone: what it holds is its own. Bytes of eight values put the high
bit at four, with strings just below and at it and integers on both sides of the
range; four items nest two sequences around two values. Three tokens hold an
escape and what is before or after it. Groups of two members, three levels deep, have
a parenthesis that closes an inner group before the outer one has ended. Four
steps on an entry are an array made, stored, changed or returned, and written to; seven
cells are two entries, an argument and two arrays to spare. One text of five
tokens has an escaped comma with a part on either side. Fields of a message are
independent, so that two at a time show whether one hides another. One root shows the
competition of places, and the theorems hold for any number of roots and triples.
`CHECK_DEADLOCK FALSE` is in every configuration: a program may construct no
client, be done with its calls, or exit.

Fairness. `FinishUnbind`, `Collect` and `Yield` are weakly fair: a task that is
queued is run. Requests, consumers that pull, and changes of the entries are
not fair. In `SaslBind` the addon's own steps are weakly fair, and so is "an
answer or a lost connection" while waiting: without a time limit there is
nothing else the call can end with, and TCP guarantees no more. `TimeOut` is not
fair, and `BindSettles` is about binds without a time limit: with one, the loop
may go round for ever.

### What the violated runs show

* `RoundTripsAnswered`: the comment in `native/addon.cc:705-710` says the loop
  goes through each round-trip and keeps the SASL state machine intact. With
  `options.timeout` set, `ldap_result` returns 0 when the time is over; the loop
  only looks for -1, goes round with no message and no mechanism, and libldap
  begins a new negotiation.
* `RoundTrip`: the test "PostalAddress roundtrip" (`upstream/PostalAddress.test.ts:5`)
  reads back what it wrote; `fromString` undoes `\5c` before `\2c`, so a backslash
  that stands before `2c` comes back, with it, as a comma.

## Proofs

`LdapClient_proofs` proves, for any set of clients, any set of directories and any
number of ids, every safety property of `LdapClient_safety`. The assumptions are
those of `HandleTable`: there are at least two ids, and `NoLd` is not a client.

The properties are not inductive by themselves. `Inv` adds

* `UnbuiltIsBlank`: a client that has not been built, or whose constructor threw,
  has no handle, no files and no unbind in flight;
* `TableInv`: what the table names is open, belongs to a built client and is
  named once;
* `FilesInv`: the sets of paths of two clients are disjoint, disjoint from `lost`,
  and together with it are what is on disk;
* `AgeInv`: while a client's age is below `IdSpace`, the counter is exactly that
  many steps, modulo `IdSpace`, past the id after the client's: it can only meet
  an id in use after a whole cycle.

`Isolation` and `NoDanglingHandle` rest on `TableInv`: `Erase` is the only step that
frees a connection and it clears the only entry that names it. `TempFiles` and
`ClosedIsClean` rest on `FilesInv`. `ReuseIsRemote` is an action property and
follows from `AgeInv` in the state before the constructor that reuses an id.

`NativeRequests_proofs` proves both safety properties of `NativeRequests` for
any set of result codes. The invariant adds what is held at each stage
(`HoldInv`) and that no code is known before libldap answered (`StageInv`). Of the tables it
proves that they agree: a class has one code, and a code that has a class is parsed to it.

The safety part of the refinement of `LdapSession` is proved too. It fails after an id was
handed out twice, so `ImplementsSessionSafely` is about behaviours without that
(`[]~reused`), and `EnoughIds` says when there is none: with at least as many ids as clients, since
a client's age stays below the number of clients (`YoungInv`). A step maps to a step of the
session because a client holds its connection exactly while it is connected
(`ConnectedInv`).

`PagedSearch_proofs` is about any directory, any calls and any page size of at least one; a
page size of 0 is taken as 100 and a negative one would loop for ever, and
`PageSizeAssumption` excludes both.

* `ReportedOnce` says nothing about the offset of the next page, so `SeenInv` does:
  what a call has read and what is still there has an index below the offset. It is kept
  by additions because they come last, by deletions because indices only shrink
  (`IndexShrinks`), and by the next page because a slice that is followed by another ends
  before the offset plus its length (`SliceEnds`, by counting: `FewBelow` injects the entries
  below an offset into the numbers below it).
* `MissedOnlyByDeletes` needs `MissedInv`: the entries below the offset that a call has not read,
  and that were there all along, are at most as many as deletions hit its pages. A deletion
  below the offset pulls one entry below it (`FewMoveBelow`), and a page misses none of those at
  or behind its offset, as every index below the size belongs to an entry (`IndexOnto`).
* `ImplementsAtomicSearch` holds when nothing is deleted. `Snapshot` says that all that lies
  before the offset has been read, so that the last page completes the entries of the
  instant at which it is read; `NamesInv`, that each entry read has one clone, with a name it
  had since the call began. Each step of a page maps to the abstract step or a stutter.

`SaslBind_proofs` proves the three safety properties for any number of rounds. `HandInv`: a
message is only in hand at the top of the loop, and is the server's last word;
`PayloadInv`: the payload is the merge of what was configured and asked; `MechanismInv`: before a
time-out the mechanism is that of the payload, in `currentMechanism` until libldap has it and in
`agreed` from then on.

`NativeInstall_proofs` proves all three properties for any number of roots and triples.
They rest on the order of the candidates: node-gyp's place comes first (`BuildIsFirst`), so
that staging changes nothing here (`StageKeepsLoader`), and the prebuild of the first triple
comes next (`PrebuildIsNext`), which is what a package without `build/` is installed from.
`BuildInv` says who builds: those who asked, and those who have nothing.

`TlsScope_proofs` proves all three properties for any number of clients and calls. `NamedInv`
is about the files that options name: options of a handle name only its client's, and a
temporary file is on disk until its owner threw or unbound. That holds although options survive
their client, and although `ApplyTlsOptions` may stop at any option (`WriteNames`). `VerifyIsOwn`
and `MaterialIsOwn` are about the step that connects; `OwnInv` is what they need before it: as
long as nobody else wrote the options that are honoured for a client, these options, and the
context that was made of them, are made of its own requests. A second `startTLS` that is refused half way
leaves a mixture, each part of which is still the client's.

`Codecs_proofs` proves every invariant of the run `Codecs`, for every value of the
constants, and in `CodecsAreRight` all of them together: a program that uses a stream
changes no conversion, and one that converts changes no stream (`EachByItself`), so that
each part can be proved alone.

*Streams*: bytes of any size, any number of items, any nesting and any truncation. While
writing, `Layout` gives every item a position in the chunks, one behind the other, and says
that the bytes there encode it, but for the length byte of a sequence that is still open.
`Deliver` hands out the low byte of each chunk up to a point, and while reading, the offset
is the position of the next item (`Reading`) until something is cut. The number that a
header carries is a fold over one byte; `FoldOfOne` unfolds it by giving the recursive
function.

*Conversions* take two steps from their input, so that the invariant is what was written and
what was read from it; the work is in the operators. What join, split, trim and parse do is
induction over data, and the library's induction theorems cannot be used here. `Induction`
states it about sets instead: a set that has 0 and with each number the next one has every
number, as otherwise those below a missing one would fit among themselves without 0 (the
pigeonhole principle of finite sets). `SeqInduction` says the same of sequences. With these,
each recursive definition is shown to satisfy its equation on all of its domain.

* `AddressesReturn`: any lines of any tokens. Every replacement acts on each token by
  itself, and a line without an escaped comma's look-alike comes back from their
  composition; the separator is no token of an escaped line.
* `NamesReturn`, `EqualNamesAre`: any names and texts. `split` undoes `join` where no piece
  has the separator, and what was split is trimmed, so that it is printed and split at the
  same places. What the lookahead sees of the text behind a comma depends only on whether
  that text ends in a lone backslash.
* `FiltersReturn`: any words, any nesting. `Survives` says of a text that what the parser
  makes of it is a filter of the same level, prints the same text but for stars in a row,
  and comes back from that text. Items have it because the parser takes them apart at the
  first `=` and at the stars; negations and groups have it when their members do, as a text
  of balanced parentheses is closed where its depth returns to 0 and nowhere before, so that
  `Members` cuts the text of a group into the texts of its members. `Stars` is kept by a
  member because it begins and ends with a parenthesis.
* `ControlsDescribed`, `SentIsAsked`, `MessagesKeep`, `GuidanceIsRight`: any options,
  systems and texts; by counting what was left out before a position, by arithmetic of the
  range of an `int32_t`, and field by field.

The assumptions say what the constants are: addresses and names are sequences of lines and
parts, options have the types of `src/types/Client.ts` or of the constructors, a message class
exists and is given a boolean where one is declared, the lines of `OtherLines` assign no key the
hook looks for, and
filters have at most `MaxNesting` levels, which is any number.

`EntryValues_proofs` proves the four properties of `EntryValues` for any number of attributes,
arrays, values and
steps. Its assumptions say what the constants are: there are finitely many attributes and cells, enough
cells for one entry, and values are texts or Buffers. `HoldsOnlyGiven` is what sharing rests on: of the
cells the caller holds, those in the entry were given. New arrays get cells that were free
(`Allocation`), because for any two finite sets of numbers the n-th element of the larger exists for
every rank in the smaller (`RankOnto`, by counting an injection). `FoundIsCurrent` relates what
the last search
returned to the entry, value by value. `LastChangeHolds` follows from one round of the loop (`Round`)
and from `FoldOfTwo`, which unfolds the fold over at most two changes.

Every invariant of a passing run is stated by a theorem. What stays with TLC:

* the liveness properties (`TempFilesRemoved`, `CallsSettle`, `BindSettles`) and the fairness in
  `ImplementsSession`, which need `ENABLED`;
* the two properties of the violated runs, which are false.

## What is left

1. `LdapClient` and `PagedSearch` composed: paged searches across an `unbind()` whose `finally`
is still to come.
2. The values of filters that have special characters of their own, which `toString` does not
escape: what is parsed then is
   another filter, and how far it may differ is not stated.

## Not modelled

* `RunSaslInteractiveBind` and TLS on Windows (the SSPI branch of `BindSasl`, the second half of
  `ApplyTlsOptions`): another build of the addon.
* The bind and TLS options that the in-memory backend records for tests, its `exop`, which
  returns a constant, and `__getState`.
* The tables of protocol constants in `src/runtime.cjs`: no behaviour.
* The wording of the install guidance and of errors.
* `detect-openldap-paths.cjs`, `resolveNodeDir`, `run-docker-tests.cjs` and the shell scripts run
  other programs one after the other. `src/types`, `upstream-src` and `upstream` are declarations or
  copies of another project's interface; `src/types/Client.ts` only says which options `Codecs` may be given.
* The entry points re-export; the examples are programs that use the package.
* Worker threads: the addon's table has no lock, and the package does not say it supports them.
* What libldap, Cyrus SASL, the server and the file system do is only modelled as far as the code
  tells their outcomes apart.
