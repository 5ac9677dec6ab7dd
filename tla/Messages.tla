------------------------------- MODULE Messages -------------------------------
(***************************************************************************)
(* The message classes: the constructors of src/runtime.cjs, and what the  *)
(* declarations of src/types/messages say of them.                         *)
(*                                                                         *)
(* An object of options has the fields that were given.                    *)
(***************************************************************************)
EXTENDS Controls

NoText == ""
NoAttributes == "{}"

\* options.field, and options.field ?? default
Get(options, field) == IF field \in DOMAIN options THEN options[field] ELSE Undefined
GetOr(options, field, default) == OrElse(Get(options, field), default)

-------------------------------------------------------------------------------
(* The constructors *)

Message(options) ==
  [messageId |-> GetOr(options, "messageId", 0), controls |-> Get(options, "controls")]

\* this.field = own.field for each, after super(options).
Extended(super, own) ==
  [field \in DOMAIN super \cup DOMAIN own |->
     IF field \in DOMAIN own THEN own[field] ELSE super[field]]

MessageResponse(options) ==
  Extended(Message(options),
    [status       |-> GetOr(options, "status", 0),
     matchedDN    |-> GetOr(options, "matchedDN", NoText),
     errorMessage |-> GetOr(options, "errorMessage", NoText)])

AddRequest(options) ==
  Extended(Message(options), [entry |-> GetOr(options, "entry", NoAttributes)])

BindRequest(options) ==
  Extended(Message(options),
    [dn        |-> GetOr(options, "dn", NoText),
     password  |-> GetOr(options, "password", NoText),
     mechanism |-> Get(options, "mechanism")])

CompareRequest(options) ==
  Extended(Message(options),
    [dn        |-> GetOr(options, "dn", NoText),
     attribute |-> GetOr(options, "attribute", NoText),
     value     |-> GetOr(options, "value", NoText)])

DeleteRequest(options) == Extended(Message(options), [dn |-> GetOr(options, "dn", NoText)])

ExtendedRequest(options) ==
  Extended(Message(options),
    [oid |-> GetOr(options, "oid", NoText), value |-> Get(options, "value")])

ModifyDNRequest(options) ==
  Extended(Message(options),
    [dn |-> GetOr(options, "dn", NoText), newDN |-> GetOr(options, "newDN", NoText)])

ModifyRequest(options) ==
  Extended(Message(options),
    [dn |-> GetOr(options, "dn", NoText), changes |-> GetOr(options, "changes", <<>>)])

SearchRequest(options) ==
  Extended(Message(options),
    [baseDN                   |-> GetOr(options, "baseDN", NoText),
     scope                    |-> GetOr(options, "scope", "sub"),
     derefAliases             |-> GetOr(options, "derefAliases", "never"),
     sizeLimit                |-> GetOr(options, "sizeLimit", 0),
     timeLimit                |-> GetOr(options, "timeLimit", 10),
     returnAttributeValues    |-> Get(options, "returnAttributeValues") # FALSE,
     filter                   |-> Get(options, "filter"),
     attributes               |-> GetOr(options, "attributes", <<>>),
     explicitBufferAttributes |-> GetOr(options, "explicitBufferAttributes", <<>>)])

SearchEntry(options) ==
  Extended(MessageResponse(options),
    [name |-> GetOr(options, "name", NoText), attributes |-> GetOr(options, "attributes", <<>>)])

SearchReference(options) ==
  Extended(MessageResponse(options), [uris |-> GetOr(options, "uris", <<>>)])

\* A constructor that forgets a field.
SearchResponseEntriesOnly(options) ==
  Extended(MessageResponse(options), [searchEntries |-> GetOr(options, "searchEntries", <<>>)])
SearchResponse(options) ==
  Extended(MessageResponse(options),
    [searchEntries    |-> GetOr(options, "searchEntries", <<>>),
     searchReferences |-> GetOr(options, "searchReferences", <<>>)])

\* Classes with the constructor of the one they extend.
PlainRequests == {"AbandonRequest", "UnbindRequest"}
PlainResponses ==
  {"AddResponse", "BindResponse", "CompareResponse", "DeleteResponse", "ExtendedResponse",
   "ModifyDNResponse", "ModifyResponse"}

\* new class(options)
New(class, options) ==
  CASE class \in {"Message"} \cup PlainRequests          -> Message(options)
    [] class \in {"MessageResponse"} \cup PlainResponses -> MessageResponse(options)
    [] class = "AddRequest"      -> AddRequest(options)
    [] class = "BindRequest"     -> BindRequest(options)
    [] class = "CompareRequest"  -> CompareRequest(options)
    [] class = "DeleteRequest"   -> DeleteRequest(options)
    [] class = "ExtendedRequest" -> ExtendedRequest(options)
    [] class = "ModifyDNRequest" -> ModifyDNRequest(options)
    [] class = "ModifyRequest"   -> ModifyRequest(options)
    [] class = "SearchRequest"   -> SearchRequest(options)
    [] class = "SearchEntry"     -> SearchEntry(options)
    [] class = "SearchReference" -> SearchReference(options)
    [] class = "SearchResponse"  -> SearchResponse(options)

-------------------------------------------------------------------------------
(* The declarations: the options of each class, and the fields that may be *)
(* undefined in a message.                                                 *)

MessageOptions == {"messageId", "controls"}
MessageResponseOptions == MessageOptions \cup {"status", "matchedDN", "errorMessage"}

OwnOptions ==
  [AddRequest      |-> {"entry"},
   BindRequest     |-> {"dn", "password", "mechanism"},
   CompareRequest  |-> {"dn", "attribute", "value"},
   DeleteRequest   |-> {"dn"},
   ExtendedRequest |-> {"oid", "value"},
   ModifyDNRequest |-> {"dn", "newDN"},
   ModifyRequest   |-> {"dn", "changes"},
   SearchRequest   |-> {"baseDN", "scope", "derefAliases", "sizeLimit", "timeLimit", "filter",
                        "returnAttributeValues", "attributes", "explicitBufferAttributes"},
   SearchEntry     |-> {"name", "attributes"},
   SearchReference |-> {"uris"},
   SearchResponse  |-> {"searchEntries", "searchReferences"}]

MessageClasses ==
  {"Message", "MessageResponse"} \cup PlainRequests \cup PlainResponses \cup DOMAIN OwnOptions

ExtendsResponse(class) ==
  class \in {"MessageResponse", "SearchEntry", "SearchReference", "SearchResponse"} \cup PlainResponses

Declared(class) ==
  (IF ExtendsResponse(class) THEN MessageResponseOptions ELSE MessageOptions)
    \cup (IF class \in DOMAIN OwnOptions THEN OwnOptions[class] ELSE {})

MayBeUndefined(class) ==
  {"controls"} \cup CASE class = "BindRequest"     -> {"mechanism"}
                      [] class = "ExtendedRequest" -> {"value"}
                      [] class = "SearchRequest"   -> {"filter"}
                      [] OTHER                     -> {}
===============================================================================
