------------------------------- MODULE MCCodecs -------------------------------
(***************************************************************************)
(* Model checking of Codecs: bytes of eight values; addresses of one line  *)
(* of up to three tokens, or of two lines of up to two; every kind of item *)
(* of a filter, alone, negated, and in groups of up to two members and     *)
(* three levels; names of up to two attributes in one RDN or in two, and   *)
(* texts of up to five tokens; lists of up to two controls; distributions  *)
(* of every family and of none; limits around 0, 1 and the end of the      *)
(* range; names of up to three RDNs, escapes among them; messages with up  *)
(* to two fields given.                                                    *)
(***************************************************************************)
EXTENDS Codecs

CONSTANT GivenValue  \* of a field

\* Strings whose bytes look like tags and lengths; four is the first length
\* with the high bit set.
SomeStrings == {<<>>, <<2, 1>>, <<4, 1, 3, 4>>}

\* The largest integer that fits and the neighbours of the range.
SomeIntegers == {-1, 7, 8}

-------------------------------------------------------------------------------

AllTokens == {"\\", "$", ",", "24", "2c", "5c", "text"}

Lines(length) == BoundedSeq(AllTokens, length)

SomeAddresses ==
  {<<line>> : line \in Lines(3)} \cup {<<one, two>> : one \in Lines(2), two \in Lines(2)}

-------------------------------------------------------------------------------

SomeFilterWords == {"cn", "a", "rule"}

Empty == <<>>
Cn == <<"cn">>
A == <<"a">>

Matches == {Match(Cn, operator, A) : operator \in {<<"=">>, <<"~", "=">>, <<">", "=">>, <<"<", "=">>}}

Substrings ==
  {Substring(Cn, initial, any, final) :
     initial \in {Empty, A}, any \in {<<>>, <<A>>, <<A, A>>}, final \in {Empty, A}}

Extensibles ==
  {Extensible(attribute, dn, rule, A) :
     attribute \in {Empty, Cn}, dn \in BOOLEAN, rule \in {Empty, <<"rule">>}}

Items == Matches \cup Substrings \cup Extensibles \cup {Presence(Cn)}

\* The items that stand for the rest in groups.
Few == {Match(Cn, <<"=">>, A), Presence(Cn), Substring(Cn, A, <<>>, Empty),
        Extensible(Cn, TRUE, Empty, A)}

Groups(members) ==
  {Group(type, filters) : type \in {"&", "|"}, filters \in BoundedSeq(members, 2)}

Compound == {Not(f) : f \in Few} \cup Groups(Few)

SomeFilters ==
  Items \cup {Not(f) : f \in Items \cup Compound} \cup Groups(Items)
        \cup Groups(Few \cup {Not(f) : f \in Few} \cup Groups({Match(Cn, <<"=">>, A)}))

-------------------------------------------------------------------------------

NameTokens == {",", "+", "=", "\\", Blank, "cn"}

Each(name, values) == {Attribute(name, value) : value \in values}
Attributes == Each(<<"cn">>, BoundedSeq(NameTokens, 2)) \cup Each(<<"CN">>, {<<"cn">>})
Shorter == Each(<<"cn">>, BoundedSeq(NameTokens, 1)) \cup Each(<<"CN">>, {<<"CN">>})

SomeDns ==
  {Dn(<<>>), Dn(<<<<>>>>)} \cup {Dn(<<<<one>>>>) : one \in Attributes}
    \cup {Dn(<<<<one>>, <<two>>>>) : one \in Attributes, two \in Shorter}
    \cup {Dn(<<<<one, two>>>>) : one \in Attributes, two \in Shorter}
    \cup {Dn(<<<<one>>, <<>>>>) : one \in Shorter}

SomeDnTexts == BoundedSeq(NameTokens \cup {"CN"}, 5)

-------------------------------------------------------------------------------

Criticalities == {Undefined, TRUE, FALSE}

SomeControlOptions ==
  [class : {"EntryChange", "Persistent", "Sort"}, criticality : Criticalities,
   value : {Undefined, "value"}]
  \cup [class : {"Control"}, type : {"1.4.319", "other"}, criticality : Criticalities,
        value : {Undefined, "value"}]
  \cup [class : {"Paged"}, criticality : Criticalities, size : {Undefined, 0, 100},
        cookie : {Undefined, "cookie"}]

-------------------------------------------------------------------------------

Linux(id, likes, manager) ==
  [platform |-> "linux", alpineRelease |-> manager = "apk", id |-> id, likes |-> likes,
   manager |-> manager]

SomeDistributions ==
  {Linux("alpine", <<>>, "apk"),
   Linux("Debian", <<>>, "apt-get"), Linux("ubuntu", <<"debian">>, "apt-get"),
   Linux("mint", <<"ubuntu", "debian">>, "apt-get"),
   Linux("fedora", <<>>, "dnf"), Linux("rocky", <<"rhel", "centos", "fedora">>, "dnf"),
   Linux("arch", <<>>, "packages"), Linux("leap", <<"suse", "opensuse">>, "packages")}
  \cup {[platform |-> platform, alpineRelease |-> FALSE, id |-> "none", likes |-> <<>>,
         manager |-> [darwin |-> "brew", win32 |-> "npm", freebsd |-> "libraries"][platform]] :
          platform \in {"darwin", "win32", "freebsd"}}

\* A comment, an empty line and another key that name another distribution.
SomeOtherLines ==
  {<<>>,
   <<<<Blank, "#", "ID", "=", "fedora">>, <<>>, <<"VERSION_ID", "=", "alpine">>, <<"debian">>>>}

-------------------------------------------------------------------------------

Url(scheme, host, port) == [scheme |-> scheme, host |-> host, port |-> port]
Halves(n) == [isText |-> FALSE, number |-> n]

Urls ==
  {Url(scheme, "host", port) : scheme \in {"ldap", "ldaps"}, port \in {Undefined, 389, 636}}
  \cup {Url("ldap", "other", Undefined), Url("ldapi", "host", Undefined)}

\* A half, one, one and a half, 999 and 1001 milliseconds, and a text.
Timeouts ==
  {Undefined, [isText |-> TRUE]} \cup {Halves(n) : n \in {-2, 0, 1, 2, 3, 1998, 2002}}

SomeClientOptions ==
  [platform : {"linux", "win32"}, url : Urls, timeout : Timeouts,
   connectTimeout : {Undefined, Halves(2002)}]

\* Limits in halves; the range ends at 16 of them.
SomeSearchOptions ==
  [scope : Optional(Scopes),
   filter : {Undefined, TextFilter(<<"(", "cn", "=", "a", ")">>), ObjectFilter(Not(Presence(Cn)))},
   derefAliases : Optional({"search", "find"}),
   returnAttributeValues : {Undefined, TRUE, FALSE},
   attributes : {Undefined, <<"cn">>},
   sizeLimit : {Undefined, 32},
   timeLimit : {Undefined, -2, 1, 3, 15, 16, 32},
   paged : {Undefined} \cup [size : {Undefined, 6}, cookie : {Undefined, "cookie"}]]

SomeEntryNames ==
  (BoundedSeq({",", "\\", "cn=a", "cn=b"}, 3) \ {<<>>})
    \cup {<<one, ",", two, ",", "cn=a">> : one \in {"cn=a", "cn=b"}, two \in {"cn=a", "cn=b"}}
    \cup {<<"\\", ",", "cn=a", ",", "cn=b">>, <<"\\", "\\", ",", "cn=a", ",", "cn=b">>}

FieldValues(field) ==
  CASE field = "returnAttributeValues" -> BOOLEAN
    [] field = "timeLimit"             -> {0, 20}
    [] OTHER                           -> {Undefined, GivenValue}

SomeMessageCalls ==
  UNION {UNION {{[class |-> class, options |-> (one :> v) @@ (two :> w)] :
                   v \in FieldValues(one), w \in FieldValues(two)} :
                one \in Declared(class), two \in Declared(class)} : class \in MessageClasses}
===============================================================================
