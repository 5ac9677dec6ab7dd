---------------------------- MODULE NativeArguments ----------------------------
(***************************************************************************)
(* What libldap is called with for the options of a search or of a client, *)
(* or for the names of a rename: what src/client.cjs hands to the addon,   *)
(* and what native/addon.cc makes of it.                                   *)
(*                                                                         *)
(* A number is counted in halves, so that there are some with a fraction.  *)
(***************************************************************************)
EXTENDS FilterText, Controls

CONSTANT IntRange  \* values of an int32_t, 2^32

ASSUME IntRangeAssumption == IntRange \in Nat /\ IntRange > 0 /\ IntRange % 2 = 0

NotSet == Undefined  \* an option libldap is left to its own for

ServerCookie == "server"

\* undefined is no value of the kinds below.
ASSUME UndefinedAssumption ==
  /\ Undefined \notin Int /\ Undefined \notin Seq(STRING)
  /\ Undefined \notin [sec : Nat, usec : Nat]
  /\ Undefined \notin [size : Int, cookie : {NoCookie, ServerCookie}]

\* Without its fraction; Int64Value of a number in range.
Truncated(n) == IF n >= 0 THEN n \div 2 ELSE -((-n) \div 2)

\* Int32Value
Int32(n) ==
  LET low == Truncated(n) % IntRange
  IN IF low < IntRange \div 2 THEN low ELSE low - IntRange

-------------------------------------------------------------------------------
(* What a caller may pass: src/types/Client.ts *)

Optional(set) == set \cup {Undefined}

Scopes == {"base", "children", "one", "sub", "subordinates"}
DerefAliases == {"always", "find", "never", "search"}

\* An object without a size stands for TRUE.
IsPageOptions(paged) == paged.size \in Optional(Int) /\ DOMAIN paged = {"size", "cookie"}

SearchFields == {"scope", "filter", "derefAliases", "returnAttributeValues", "attributes",
                 "sizeLimit", "timeLimit", "paged"}

IsSearchOptions(options) ==
  /\ DOMAIN options = SearchFields
  /\ options.scope \in Optional(Scopes)
  /\ options.filter # Undefined /\ options.filter.kind = "filter" =>
       options.filter.filter \in Filters[MaxNesting]
  /\ options.derefAliases \in Optional(DerefAliases)
  /\ options.returnAttributeValues \in Optional(BOOLEAN)
  /\ options.sizeLimit \in Optional(Int) /\ options.timeLimit \in Optional(Int)
  /\ options.paged = Undefined \/ IsPageOptions(options.paged)

\* A timeout may be a text in spite of its declaration.
IsTimeout(timeout) == timeout = Undefined \/ timeout.isText \/ timeout.number \in Int

IsClientOptions(options) ==
  /\ DOMAIN options.url = {"scheme", "host", "port"}
  /\ IsTimeout(options.timeout) /\ IsTimeout(options.connectTimeout)

-------------------------------------------------------------------------------
(* src/client.cjs, for a search *)

TextFilter(text) == [kind |-> "text", text |-> text]
ObjectFilter(filter) == [kind |-> "filter", filter |-> filter]
NormalizeFilter(filter) ==
  IF filter = Undefined THEN <<"(", "objectClass", "=", "*", ")">>
  ELSE IF filter.kind = "text" THEN filter.text
  ELSE FilterToString(filter.filter)

\* options.paged is an object, TRUE -- an object without a size -- or undefined.
PageSize(paged) == IF paged = Undefined \/ paged.size = Undefined THEN 100 ELSE paged.size

ToNativeSearchOptions(options) ==
  [scope                 |-> OrElse(options.scope, "sub"),
   filter                |-> NormalizeFilter(options.filter),
   derefAliases          |-> OrElse(options.derefAliases, "never"),
   returnAttributeValues |-> options.returnAttributeValues # FALSE,
   attributes            |-> OrElse(options.attributes, <<>>),
   sizeLimit             |-> OrElse(options.sizeLimit, 0),
   timeLimit             |-> OrElse(options.timeLimit, 0),
   paged                 |-> IF options.paged = Undefined THEN Undefined
                             ELSE [size   |-> PageSize(options.paged),
                                   cookie |-> OrElse(options.paged.cookie, NoCookie)]]

\* The cookie of the page before replaces the one of the caller.
BuildPagedSearchOptionsOver(options, cookie) ==
  ToNativeSearchOptions(options)
  @@ [paged |-> [size |-> PageSize(options.paged), cookie |-> cookie]]
BuildPagedSearchOptions(options, cookie) ==
  [ToNativeSearchOptions(options)
     EXCEPT !.paged = [size |-> PageSize(options.paged), cookie |-> cookie]]

-------------------------------------------------------------------------------
(* native/addon.cc, for a search *)

ScopeFromString(scope) ==
  CASE scope = "base" -> "BASE"
    [] scope = "one" -> "ONELEVEL"
    [] scope \in {"children", "subordinates"} -> "CHILDREN"
    [] OTHER -> "SUBTREE"

MapDerefAliases(derefAliases) ==
  CASE derefAliases = "always" -> "ALWAYS"
    [] derefAliases = "find" -> "FINDING"
    [] derefAliases = "search" -> "SEARCHING"
    [] OTHER -> "NEVER"

\* The arguments of ldap_search_ext_s, the alias option that is set before it,
\* and what the paging control is made from.
SearchArguments(native) ==
  [scope      |-> ScopeFromString(native.scope),
   filter     |-> native.filter,
   deref      |-> MapDerefAliases(native.derefAliases),
   attrsOnly  |-> ~native.returnAttributeValues,
   attributes |-> native.attributes,
   sizeLimit  |-> Int32(native.sizeLimit),
   timeout    |-> IF Int32(native.timeLimit) > 0 THEN Int32(native.timeLimit) ELSE NotSet,
   page       |-> IF native.paged = Undefined THEN NotSet
                  ELSE [size |-> Int32(native.paged.size), cookie |-> native.paged.cookie]]

-------------------------------------------------------------------------------
(* A client: src/client.cjs *)

\* The port a url of either scheme stands for.
DefaultPort(url) == IF url.scheme = "ldaps" THEN 636 ELSE 389

\* The exception for another scheme.
UnsupportedUrl == [type |-> "error"]

ParseWindowsLdapUrl(url) ==
  IF url.scheme \notin {"ldap", "ldaps"} THEN UnsupportedUrl
  ELSE [host   |-> url.host,
        port   |-> OrElse(url.port, DefaultPort(url)),
        secure |-> url.scheme = "ldaps"]

\* A timeout that is not a number is dropped.
NumberOnly(timeout) == IF timeout = Undefined \/ timeout.isText THEN Undefined ELSE timeout.number

BuildNativeConnectOptions(options) ==
  LET url == IF options.platform = "win32" THEN ParseWindowsLdapUrl(options.url) ELSE options.url
  IN IF url = UnsupportedUrl THEN UnsupportedUrl
     ELSE [url            |-> url,
           timeout        |-> NumberOnly(options.timeout),
           connectTimeout |-> NumberOnly(options.connectTimeout)]

-------------------------------------------------------------------------------
(* A client: native/addon.cc *)

\* LDAP_OPT_TIMEOUT and LDAP_OPT_NETWORK_TIMEOUT are defined: by OpenLDAP, and
\* not by winldap.h.
HasTimeouts(platform) == platform # "win32"

\* A timeval of a number of milliseconds.
Timeval(number) ==
  IF number = Undefined \/ Truncated(number) <= 0 THEN NotSet
  ELSE [sec |-> Truncated(number) \div 1000, usec |-> (Truncated(number) % 1000) * 1000]

ConnectArguments(native, platform) ==
  LET Option(timeout) == IF HasTimeouts(platform) THEN Timeval(timeout) ELSE NotSet
  IN [url |-> native.url, timeout |-> Option(native.timeout),
      networkTimeout |-> Option(native.connectTimeout)]

-------------------------------------------------------------------------------
(* A rename: native/addon.cc *)

\* The position of the first comma, escaped or not; that of the end if there is
\* none.
FirstComma(name) == Min(Positions(name, Comma) \cup {Len(name) + 1})
BeforeComma(name) == SubSeq(name, 1, FirstComma(name) - 1)
AfterComma(name) == SubSeq(name, FirstComma(name) + 1, Len(name))

\* The arguments of ldap_rename_s: a new parent only if it is another one.
RenameArguments(dn, newDN) ==
  LET newParent == AfterComma(newDN) IN
  [dn        |-> dn,
   newRDN    |-> BeforeComma(newDN),
   newParent |-> IF newParent \in {<<>>, AfterComma(dn)} THEN NotSet ELSE newParent]

\* The server: a backslash escapes what follows it, so that a comma after it is
\* part of the RDN; the entry goes under the new parent, or stays under its own.
IsEscaped(name, i) ==
  LET before == {j \in 0 .. i - 1 : \A k \in j + 1 .. i - 1 : name[k] = "\\"}
  IN (i - 1 - Min(before)) % 2 = 1
Parent(name) ==
  LET ends == {i \in Positions(name, Comma) : ~IsEscaped(name, i)} \cup {Len(name) + 1}
  IN SubSeq(name, Min(ends) + 1, Len(name))

Under(rdn, parent) == IF parent = <<>> THEN rdn ELSE rdn \o <<Comma>> \o parent
Renamed(sent) ==
  Under(sent.newRDN, IF sent.newParent = NotSet THEN Parent(sent.dn) ELSE sent.newParent)
===============================================================================
