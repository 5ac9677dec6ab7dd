------------------------------- MODULE Controls -------------------------------
(***************************************************************************)
(* The controls of src/runtime.cjs, and encodeControls of src/client.cjs,  *)
(* which describes those of a request to the addon.  The addon does not    *)
(* look at the descriptions: it sends the paging control it makes from the *)
(* search options, and no other.                                           *)
(***************************************************************************)
EXTENDS Texts

CONSTANT Undefined

\* value ?? default
OrElse(value, default) == IF value = Undefined THEN default ELSE value

NoCookie == "empty"

Oids == [EntryChange |-> "3.4.7", Paged |-> "1.4.319", Persistent |-> "3.4.3", Sort |-> "1.4.473"]

-------------------------------------------------------------------------------
(* The constructors *)

\* Control itself, of an object or, with the type first, of its parts; and the
\* classes that fix the type.  Their options are declared without one
\* (src/types/controls); one that is given all the same would replace theirs.
Control(type, options) ==
  [class |-> "Control", type |-> type,
   criticality |-> OrElse(options.criticality, FALSE), value |-> options.value]

PagedResultsControl(options) ==
  [class |-> "Paged", type |-> Oids.Paged,
   criticality |-> OrElse(options.criticality, FALSE),
   value |-> [size   |-> OrElse(options.size, 100),
              cookie |-> OrElse(options.cookie, NoCookie)]]

ServerSideSortingRequestControl(options) ==
  [Control(Oids.Sort, options) EXCEPT !.class = "Sort"]

Constructed(options) ==
  CASE options.class = "Control" -> Control(options.type, options)
    [] options.class = "Paged"   -> PagedResultsControl(options)
    [] options.class = "Sort"    -> ServerSideSortingRequestControl(options)
    [] OTHER                     -> Control(Oids[options.class], options)

-------------------------------------------------------------------------------
(* encodeControls, of a list in which some may be undefined *)

EncodeControl(control) ==
  CASE control.class = "Paged" ->
         [type |-> "paged", pageSize |-> control.value.size, cookie |-> control.value.cookie,
          criticality |-> control.criticality]
    [] control.class = "Sort"  ->
         [type |-> "sort", value |-> control.value, criticality |-> control.criticality]
    [] OTHER                   ->
         [type |-> "generic", oid |-> control.type, criticality |-> control.criticality,
          value |-> control.value]

\* map and filter(Boolean).
GivenFirst(controls) ==
  IF controls # <<>> /\ Head(controls) = Undefined
  THEN <<>>
  ELSE At(controls, {i \in DOMAIN controls : controls[i] # Undefined})
Given(controls) == At(controls, {i \in DOMAIN controls : controls[i] # Undefined})

EncodeControls(controls) ==
  LET given == Given(controls)
  IN [i \in DOMAIN given |-> EncodeControl(given[i])]

\* Two controls ask for the same.
AsksTheSame(one, other) ==
  one.type = other.type /\ one.criticality = other.criticality /\ one.value = other.value
===============================================================================
