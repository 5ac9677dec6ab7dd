---------------------------- MODULE NativeRequests ----------------------------
(***************************************************************************)
(* One request through the addon (native/addon.cc) and back to JavaScript  *)
(* (wrapNativeCall in src/client.cjs): the objects that it takes from      *)
(* malloc, new or libldap, the way out of each handler, and what the       *)
(* caller is told.  Handles are in HandleTable, SASL is in SaslBind.       *)
(* libldap is external: it hands back any result code, with any of the     *)
(* objects that the handler looks for.  Windows is left out.               *)
(***************************************************************************)
EXTENDS ResultCodes

CONSTANTS OtherCodes,  \* result codes and libldap errors without a special part
          NoCode       \* no code was given

Success == 0
SizeLimitExceeded == 4
CompareFalse == 5
CompareTrue == 6
PartialResults == 9
LocalError == -2

Special == {Success, SizeLimitExceeded, CompareFalse, CompareTrue, PartialResults}

ASSUME CodesAssumption ==
  /\ OtherCodes \subseteq Int \ Special
  /\ LocalError \in OtherCodes
  /\ NoCode \notin Int

Codes == Special \cup OtherCodes

Ops == {"startTLS", "bindSimple", "search", "pagedSearch", "add", "modify", "del",
        "compare", "modifyDN", "exop"}

Searches == {"search", "pagedSearch"}

\* attrs: the attribute names; control: the paging request control; mods: the
\* LDAPMods; message: an LDAPMessage; response: oid and value of an extended
\* operation.
Objects == {"attrs", "control", "mods", "message", "response"}

VARIABLES
  op,       \* the operation
  timeout,  \* options.timeout is set on the handle
  pc,       \* "called", "sending", "waiting" (ldap_result of compare),
            \* "reading" (the entries of a search), "settled"
  held,     \* how many of each object were obtained and not freed
  rc,       \* the code libldap came back with, or NoCode
  outcome,  \* how the promise settled
  badInput  \* history: an argument could not be converted

vars == <<op, timeout, pc, held, rc, outcome, badInput>>

Pending == [kind |-> "pending"]
Resolved(value) == [kind |-> "resolved", value |-> value]

\* MakeLdapError sets the code on the error, convertNativeError turns it into
\* an error of the class of that code.
ErrorUncoded(code) ==
  [kind |-> "rejected", class |-> Unknown, code |-> 0]
ErrorOf(code) ==
  [kind |-> "rejected", class |-> ClassFor(code), code |-> CodeOf(ClassFor(code), code)]

\* An error without a numeric code goes through as it is.
PlainError == [kind |-> "rejected", class |-> "Error", code |-> NoCode]

\* Undefined behaviour: libldap is handed a null message.
Crashed == [kind |-> "crashed"]

TypeOK ==
  /\ op \in Ops
  /\ timeout \in BOOLEAN
  /\ pc \in {"called", "sending", "waiting", "reading", "settled"}
  /\ held \in [Objects -> Nat]
  /\ rc \in Codes \cup {NoCode}
  /\ outcome.kind \in {"pending", "resolved", "rejected", "crashed"}
  /\ badInput \in BOOLEAN

Init ==
  /\ op \in Ops
  /\ timeout \in BOOLEAN
  /\ pc = "called"
  /\ held = [o \in Objects |-> 0]
  /\ rc = NoCode
  /\ outcome = Pending
  /\ badInput = FALSE

Get(objects) == [o \in Objects |-> IF o \in objects THEN held[o] + 1 ELSE held[o]]
Free(objects) == [o \in Objects |-> IF o \in objects THEN held[o] - 1 ELSE held[o]]

Settle(how) == pc' = "settled" /\ outcome' = how

-------------------------------------------------------------------------------
(* The arguments *)

\* What the handler has allocated when it calls libldap.
Arguments ==
  {o \in Objects : \/ o = "attrs" /\ op \in Searches
                   \/ o = "control" /\ op = "pagedSearch"
                   \/ o = "mods" /\ op \in {"add", "modify"}}

\* What it may hold while it still converts: the names of the attributes while
\* it reads the rest of them or the page size, the mods of the first changes.
\* Add converts everything before it allocates.
MayHold == IF op = "add" THEN {} ELSE Arguments \ {"control"}

Convert ==
  /\ pc = "called"
  /\ held' = Get(Arguments)
  /\ pc' = "sending"
  /\ UNCHANGED <<op, timeout, rc, outcome, badInput>>

\* An argument is not what it should be: Node-API throws.
ConvertThrows ==
  /\ pc = "called"
  /\ \E objects \in {{}, MayHold} : held' = Get(objects)
  /\ badInput' = TRUE
  /\ Settle(PlainError)
  /\ UNCHANGED <<op, timeout, rc>>

\* An option libldap refuses: LDAP_OPT_DEREF, or a TLS option of startTLS.
OptionRefused ==
  /\ pc = "called" /\ op \in Searches \cup {"startTLS"}
  /\ rc' = LocalError
  /\ Settle(ErrorOf(LocalError))
  /\ UNCHANGED <<op, timeout, held, badInput>>

\* ldap_create_page_control fails; the names are freed.
ControlRefused ==
  /\ pc = "called" /\ op = "pagedSearch"
  /\ rc' \in OtherCodes
  /\ Settle(ErrorOf(rc'))
  /\ UNCHANGED <<op, timeout, held, badInput>>

-------------------------------------------------------------------------------
(* The operation *)

Accepted ==
  IF op \in Searches
  THEN {Success, PartialResults, SizeLimitExceeded}
  ELSE {Success}

\* A synchronous call that returns no data.
Send ==
  /\ pc = "sending" /\ op \notin Searches \cup {"compare", "exop"}
  /\ rc' \in Codes
  /\ held' = Free(Arguments)
  /\ Settle(IF rc' \in Accepted THEN Resolved("nothing") ELSE ErrorOf(rc'))
  /\ UNCHANGED <<op, timeout, badInput>>

\* ldap_search_ext_s: a message comes with every accepted code, and may come
\* with another one.
SendSearchForgets ==
  /\ pc = "sending" /\ op \in Searches
  /\ rc' \in Codes
  /\ \/ /\ rc' \in Accepted
        /\ held' = [Free(Arguments) EXCEPT !["message"] = held["message"] + 1]
        /\ pc' = "reading"
        /\ UNCHANGED outcome
     \/ /\ rc' \notin Accepted
        /\ held' \in {Free({"attrs"}), Free(Arguments)}
        /\ Settle(ErrorOf(rc'))
  /\ UNCHANGED <<op, timeout, badInput>>
SendSearch ==
  /\ pc = "sending" /\ op \in Searches
  /\ rc' \in Codes
  /\ \/ /\ rc' \in Accepted
        /\ held' = [Free(Arguments) EXCEPT !["message"] = held["message"] + 1]
        /\ pc' = "reading"
        /\ UNCHANGED outcome
     \/ /\ rc' \notin Accepted
        /\ held' = Free(Arguments)
        /\ Settle(ErrorOf(rc'))
  /\ UNCHANGED <<op, timeout, badInput>>

\* The entries, and the cookie of a paging control if the server sent one that
\* is not empty.
Read ==
  /\ pc = "reading"
  /\ held' = Free({"message"})
  /\ \E cookie \in {"empty", "more"} : Settle(Resolved(cookie))
  /\ UNCHANGED <<op, timeout, rc, badInput>>

\* ldap_extended_operation_s: oid and value may come with any code the server
\* answers with; they are read, and freed, when that is success.
SendExop ==
  /\ pc = "sending" /\ op = "exop"
  /\ rc' \in Codes
  /\ \/ /\ rc' \in Accepted
        /\ Settle(Resolved("response"))
        /\ UNCHANGED held
     \/ /\ rc' \notin Accepted
        /\ Settle(ErrorOf(rc'))
        /\ held' \in {held, Get({"response"})}
  /\ UNCHANGED <<op, timeout, badInput>>

\* ldap_compare_ext sends and does not wait.
SendCompare ==
  /\ pc = "sending" /\ op = "compare"
  /\ \/ /\ pc' = "waiting"
        /\ UNCHANGED <<rc, outcome>>
     \/ /\ rc' \in OtherCodes
        /\ Settle(ErrorOf(rc'))
  /\ UNCHANGED <<op, timeout, held, badInput>>

\* ldap_result comes back with a message: any code but compareTrue is false.
CompareAnswers ==
  /\ pc = "waiting"
  /\ rc' \in Codes
  /\ Settle(Resolved(rc' = CompareTrue))
  /\ UNCHANGED <<op, timeout, held, badInput>>

\* It comes back with -1.
CompareFails ==
  /\ pc = "waiting"
  /\ Settle(PlainError)
  /\ UNCHANGED <<op, timeout, held, rc, badInput>>

\* It comes back with 0 and no message, which ldap_parse_result is handed.
CompareTimesOut ==
  /\ pc = "waiting" /\ timeout
  /\ \E how \in {Crashed, Resolved(FALSE)} : Settle(how)
  /\ UNCHANGED <<op, timeout, held, rc, badInput>>

Next ==
  \/ Convert \/ ConvertThrows \/ OptionRefused \/ ControlRefused
  \/ Send \/ SendSearch \/ Read \/ SendExop
  \/ SendCompare \/ CompareAnswers \/ CompareFails \/ CompareTimesOut

Spec == Init /\ [][Next]_vars

-------------------------------------------------------------------------------
(* Properties *)

\* Whatever a request obtained is freed when it settles, once -- but for what a
\* search or modify held when an argument made it throw, and for the response
\* that came with the refusal of an extended operation.
FreedAtTheEnd ==
  pc = "settled" =>
    \A o \in Objects :
      \/ held[o] = 0
      \/ badInput /\ o \in {"attrs", "mods"}
      \/ op = "exop" /\ rc # Success /\ o = "response"

\* The error of a request that libldap or the server turned down carries the
\* code they gave, whatever class it is of.
ErrorsCarryTheCode ==
  outcome.kind = "rejected" /\ rc # NoCode => outcome.code = rc
===============================================================================
