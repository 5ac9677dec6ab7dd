------------------------------ MODULE FilterText ------------------------------
(***************************************************************************)
(* The search filters of src/runtime.cjs: what their constructors make,    *)
(* their toString methods, and FilterParser, which reads text back into    *)
(* filters.                                                                *)
(*                                                                         *)
(* A text is a sequence of tokens: the special characters and words.  The  *)
(* values of the filters hold no special characters, which toString does   *)
(* not escape.                                                             *)
(***************************************************************************)
EXTENDS Integers, Texts

CONSTANTS FilterWords,  \* tokens that are no special characters
          MaxNesting    \* bound: groups and negations in one another

FilterMarks == {"(", ")", "&", "|", "!", "=", "~", ">", "<", ":", "*"}
FilterTokens == FilterWords \cup {"dn"} \cup FilterMarks

ASSUME FilterAssumption ==
  /\ FilterWords \cap (FilterMarks \cup {Blank}) = {}
  /\ MaxNesting \in Nat

-------------------------------------------------------------------------------
(* Filters *)

Group(type, filters) == [type |-> type, filters |-> filters]  \* "&" and "|"
Not(negated) == [type |-> "!", filter |-> negated]

\* operator: "=", "~=", ">=" or "<=".
Match(attribute, operator, value) ==
  [type |-> "match", attribute |-> attribute, operator |-> operator, value |-> value]
Presence(attribute) == [type |-> "present", attribute |-> attribute]

\* initial and final may be empty; any: a sequence of words.
Substring(attribute, initial, any, final) ==
  [type |-> "substring", attribute |-> attribute,
   initial |-> initial, any |-> any, final |-> final]

\* attribute and rule may be empty.
Extensible(attribute, dn, rule, value) ==
  [type |-> "extensible", attribute |-> attribute, dn |-> dn, rule |-> rule, value |-> value]

\* The texts in a filter: the attribute ends at the first "=" and has nothing
\* that starts a group, the values have no parentheses and stars.
AttributeTexts == Seq(FilterTokens \ {"(", ")", "&", "|", "!", "=", "*"})
ValueTexts == Seq(FilterTokens \ {"(", ")", "*"})

MatchFilters ==
  [type : {"match"}, attribute : AttributeTexts,
   operator : {<<"=">>, <<"~", "=">>, <<">", "=">>, <<"<", "=">>}, value : ValueTexts]
PresenceFilters == [type : {"present"}, attribute : AttributeTexts]
SubstringFilters ==
  [type : {"substring"}, attribute : AttributeTexts,
   initial : ValueTexts, any : Seq(ValueTexts \ {<<>>}), final : ValueTexts]
ExtensibleFilters ==
  [type : {"extensible"}, attribute : AttributeTexts, dn : BOOLEAN,
   rule : AttributeTexts, value : ValueTexts]

ItemFilters == MatchFilters \cup PresenceFilters \cup SubstringFilters \cup ExtensibleFilters

\* Those with up to n groups and negations in one another.
Filters[n \in Nat] ==
  IF n = 0 THEN ItemFilters
  ELSE ItemFilters \cup [type : {"&", "|"}, filters : Seq(Filters[n - 1])]
                   \cup [type : {"!"}, filter : Filters[n - 1]]

-------------------------------------------------------------------------------
(* toString *)

ItemText(f) ==
  CASE f.type = "match"     -> f.attribute \o f.operator \o f.value
    [] f.type = "present"   -> f.attribute \o <<"=", "*">>
    [] f.type = "substring" ->
         f.attribute \o <<"=">> \o f.initial \o <<"*">> \o Join(f.any, "*") \o <<"*">> \o f.final
    [] f.type = "extensible" ->
         Join(NonEmpty(<<f.attribute, IF f.dn THEN <<"dn">> ELSE <<>>, f.rule>>), ":")
           \o <<":", "=">> \o f.value

FilterTexts[n \in Nat] ==
  [f \in Filters[n] |->
     <<"(">> \o
     (CASE f.type \in {"&", "|"} ->
             <<f.type>> \o FlattenSeq([i \in DOMAIN f.filters |-> FilterTexts[n - 1][f.filters[i]]])
        [] f.type = "!"          -> <<"!">> \o FilterTexts[n - 1][f.filter]
        [] OTHER                 -> ItemText(f))
     \o <<")">>]

FilterToString(f) == FilterTexts[MaxNesting][f]

-------------------------------------------------------------------------------
(* FilterParser *)

\* The exception of the parser.
Invalid == [type |-> "error"]

\* depth of parseGroup after i tokens.
Depth(s, i) ==
  Cardinality(Positions(s, "(") \cap 1 .. i) - Cardinality(Positions(s, ")") \cap 1 .. i)

\* The members of a group, each from a parenthesis at depth 0 to the one that
\* closes it.
Openings(s) == {i \in Positions(s, "(") : Depth(s, i) = 1}

ClosingsAnywhere(s, i) == {j \in Positions(s, ")") : j > i}
Closings(s, i) == {j \in Positions(s, ")") : j > i /\ Depth(s, j) = 0}

Closed(s) == {i \in Openings(s) : Closings(s, i) # {}}
Member(s, i) == SubSeq(s, i, Min(Closings(s, i)))
Members(s) == [k \in 1 .. Cardinality(Closed(s)) |-> Member(s, Nth(Closed(s), k - 1))]

\* An item: the test for a presence filter wants a "*" at the end and none
\* anywhere.
ParseItem(inner) ==
  LET equals == Min(Positions(inner, "="))
      attribute == SubSeq(inner, 1, equals - 1)
      value == SubSeq(inner, equals + 1, Len(inner))
      parts == Split(value, "*")
  IN CASE IsSuffix(<<"=", "*">>, inner) /\ Positions(inner, "*") = {} ->
            Presence(SubSeq(inner, 1, Len(inner) - 2))
       [] Positions(inner, "=") = {} -> Invalid
       [] Positions(value, "*") # {} ->
            Substring(attribute, Head(parts), NonEmpty(SubSeq(parts, 2, Len(parts) - 1)),
                      Last(parts))
       [] OTHER -> Match(attribute, <<"=">>, value)

ParseExpression[s \in Seq(FilterTokens)] ==
  LET inner == SubSeq(s, 2, Len(s) - 1)
      rest == SubSeq(inner, 2, Len(inner))
      members == [k \in DOMAIN Members(rest) |-> ParseExpression[Members(rest)[k]]]
      negated == ParseExpression[rest]
  IN CASE inner # <<>> /\ inner[1] \in {"&", "|"} ->
            IF Invalid \in Range(members) THEN Invalid ELSE Group(inner[1], members)
       [] inner # <<>> /\ inner[1] = "!" ->
            IF negated = Invalid THEN Invalid ELSE Not(negated)
       [] OTHER -> ParseItem(inner)

Parse(s) ==
  LET input == Trim(s)
  IN IF input # <<>> /\ Head(input) = "(" /\ Last(input) = ")"
     THEN ParseExpression[input] ELSE Invalid

-------------------------------------------------------------------------------
(* Stars *)

\* The text without a "*" that follows another one.
Stars(s) ==
  LET again(i) == i > 1 /\ s[i] = "*" /\ s[i - 1] = "*"
  IN FlattenSeq([i \in DOMAIN s |-> IF again(i) THEN <<>> ELSE <<s[i]>>])
===============================================================================
