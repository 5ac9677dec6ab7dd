----------------------------- MODULE ResultCodes -----------------------------
(***************************************************************************)
(* The result codes of src/runtime.cjs: the code that each class of error  *)
(* puts on its objects, and the class that StatusCodeParser picks for a    *)
(* code. The classes are named without their ending "Error".               *)
(***************************************************************************)
EXTENDS Integers

\* The classes of operations, attributes and names.
OperationCodes ==
  {<<"Operations", 1>>, <<"Protocol", 2>>, <<"TimeLimitExceeded", 3>>,
   <<"SizeLimitExceeded", 4>>, <<"AuthMethodNotSupported", 7>>,
   <<"StrongAuthRequired", 8>>, <<"AdminLimitExceeded", 11>>,
   <<"UnavailableCriticalExtension", 12>>, <<"ConfidentialityRequired", 13>>,
   <<"SaslBindInProgress", 14>>, <<"NoSuchAttribute", 16>>,
   <<"UndefinedType", 17>>, <<"InappropriateMatching", 18>>,
   <<"ConstraintViolation", 19>>, <<"TypeOrValueExists", 20>>,
   <<"InvalidSyntax", 21>>, <<"NoSuchObject", 32>>, <<"AliasProblem", 33>>,
   <<"InvalidDNSyntax", 34>>, <<"IsLeaf", 35>>, <<"AliasDerefProblem", 36>>}

\* The classes of credentials, services and updates.
ServiceCodes ==
  {<<"InappropriateAuth", 48>>, <<"InvalidCredentials", 49>>,
   <<"InsufficientAccess", 50>>, <<"Busy", 51>>, <<"Unavailable", 52>>,
   <<"UnwillingToPerform", 53>>, <<"LoopDetect", 54>>,
   <<"NamingViolation", 64>>, <<"ObjectClassViolation", 65>>,
   <<"NotAllowedOnNonLeaf", 66>>, <<"NotAllowedOnRDN", 67>>,
   <<"AlreadyExists", 68>>, <<"NoObjectClassMods", 69>>,
   <<"ResultsTooLarge", 70>>, <<"AffectsMultipleDSAs", 71>>,
   <<"MoreResultsToReturn", 95>>, <<"TLSNotSupported", 112>>,
   <<"NoResult", 248>>}

ClassCodes == OperationCodes \cup ServiceCodes

\* The cases of StatusCodeParser.parse.
StatusClasses ==
  {<<1, "Operations">>, <<2, "Protocol">>, <<3, "TimeLimitExceeded">>,
   <<4, "SizeLimitExceeded">>, <<7, "AuthMethodNotSupported">>,
   <<8, "StrongAuthRequired">>, <<11, "AdminLimitExceeded">>,
   <<12, "UnavailableCriticalExtension">>, <<13, "ConfidentialityRequired">>,
   <<14, "SaslBindInProgress">>, <<16, "NoSuchAttribute">>,
   <<17, "UndefinedType">>, <<18, "InappropriateMatching">>,
   <<19, "ConstraintViolation">>, <<20, "TypeOrValueExists">>,
   <<21, "InvalidSyntax">>, <<32, "NoSuchObject">>, <<33, "AliasProblem">>,
   <<34, "InvalidDNSyntax">>, <<35, "IsLeaf">>, <<36, "AliasDerefProblem">>,
   <<48, "InappropriateAuth">>, <<49, "InvalidCredentials">>,
   <<50, "InsufficientAccess">>, <<51, "Busy">>, <<52, "Unavailable">>,
   <<53, "UnwillingToPerform">>, <<54, "LoopDetect">>,
   <<64, "NamingViolation">>, <<65, "ObjectClassViolation">>,
   <<66, "NotAllowedOnNonLeaf">>, <<67, "NotAllowedOnRDN">>,
   <<68, "AlreadyExists">>, <<69, "NoObjectClassMods">>,
   <<70, "ResultsTooLarge">>, <<71, "AffectsMultipleDSAs">>,
   <<95, "MoreResultsToReturn">>, <<112, "TLSNotSupported">>,
   <<248, "NoResult">>}

Unknown == "UnknownStatusCode"

ClassFor(code) ==
  IF \E row \in StatusClasses : row[1] = code
  THEN (CHOOSE row \in StatusClasses : row[1] = code)[2] ELSE Unknown

\* The code of an error; that of an unknown status is the one it was made with.
CodeOf(class, code) ==
  IF \E row \in ClassCodes : row[1] = class
  THEN (CHOOSE row \in ClassCodes : row[1] = class)[2] ELSE code
===============================================================================
