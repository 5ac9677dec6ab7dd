-------------------------------- MODULE DnText --------------------------------
(***************************************************************************)
(* DN and RDN of src/runtime.cjs: distinguished names as lists of RDNs,    *)
(* each a list of attributes, their text, and the text read back.  Nothing *)
(* is escaped on the way out or unescaped on the way in.                   *)
(*                                                                         *)
(* A text is a sequence of tokens: the special characters and words.       *)
(***************************************************************************)
EXTENDS Integers, Texts

Dn(rdns) == [type |-> "dn", rdns |-> rdns]
Attribute(name, value) == [name |-> name, value |-> value]

\* RDN.parse throws: an attribute has no "=".
InvalidRdn == [type |-> "error"]

Mapped(Op(_), s) == [i \in DOMAIN s |-> Op(s[i])]

-------------------------------------------------------------------------------
(* toString *)

AttributeToString(attribute) == attribute.name \o <<"=">> \o attribute.value
RdnToStringComma(rdn) == Join(Mapped(AttributeToString, rdn), Comma)
RdnToString(rdn) == Join(Mapped(AttributeToString, rdn), "+")
DnToString(dn) == Join(Mapped(RdnToString, dn.rdns), Comma)

\* toLowerCase(), of a text and of all the parts of a name.
Lower(s) == [i \in DOMAIN s |-> IF s[i] = "CN" THEN "cn" ELSE s[i]]

LowerCased(dn) ==
  LET lower(attribute) == Attribute(Lower(attribute.name), Lower(attribute.value))
  IN Dn([i \in DOMAIN dn.rdns |-> Mapped(lower, dn.rdns[i])])

DnEquals(one, other) == Lower(DnToString(one)) = Lower(DnToString(other))

-------------------------------------------------------------------------------
(* parse *)

\* The text ends in a backslash that escapes nothing.
Dangling(s) ==
  LET others == DOMAIN s \ Positions(s, "\\")
  IN (Len(s) - Max(others \cup {0})) % 2 = 1

\* The regular expression looks ahead for pairs of a backslash and what it
\* escapes, not back: a comma separates, escaped or not, unless the rest of the
\* text cannot be read as such pairs.
SeparatorsUnescaped(s) == {i \in Positions(s, Comma) : i = 1 \/ s[i - 1] # "\\"}
Separators(s) == {i \in Positions(s, Comma) : ~Dangling(SubSeq(s, i + 1, Len(s)))}

ParseAttribute(part) ==
  LET equals == Min(Positions(part, "="))
  IN Attribute(Trim(SubSeq(part, 1, equals - 1)), Trim(SubSeq(part, equals + 1, Len(part))))

RdnParts(s) == Mapped(Trim, Split(s, "+"))
ParseRdn(s) == Mapped(ParseAttribute, RdnParts(s))

ParseDn(s) ==
  LET parts == NonEmpty(Mapped(Trim, SplitAt(s, Separators(s))))
  IN IF \E i \in DOMAIN parts : \E part \in Range(RdnParts(parts[i])) : Positions(part, "=") = {}
     THEN InvalidRdn
     ELSE Dn(Mapped(ParseRdn, parts))

-------------------------------------------------------------------------------
(* What an escape would be needed for *)

\* A text that parse returns as it is when it stands alone.
Plain(s) == Trim(s) = s /\ Range(s) \cap {Comma, "+"} = {}

\* toString needs no escapes, nor does the "=" in a value.  An RDN without
\* attributes has no text at all.
NeedsNoEscape(dn) ==
  /\ \A rdn \in Range(dn.rdns) :
       /\ rdn # <<>>
       /\ \A attribute \in Range(rdn) :
            /\ Plain(attribute.name) /\ Positions(attribute.name, "=") = {}
            /\ Plain(attribute.value)
  /\ ~Dangling(DnToString(dn))
===============================================================================
