------------------------------- MODULE TlsScope -------------------------------
(***************************************************************************)
(* TLS options of several clients in one process: ApplyTlsOptions and      *)
(* SetLdapOption (native/addon.cc) write every option to the global        *)
(* options of libldap and to the handle, because "some libldap variants    *)
(* only honor the global option, while others honor the per-handle value". *)
(*                                                                         *)
(* libldap is external.  What is assumed of it is that it makes the        *)
(* context of a connection from one of the two scopes, when NEWCTX is set  *)
(* or else when the first connection needs it, and cannot make it from a   *)
(* file that is gone.  A new handle is also assumed to begin with the      *)
(* library's defaults: a libldap that copies its global options into it    *)
(* passes on what other clients set, even if it then honours the handle's. *)
(* Of the options, one file and the verification of the server stand for   *)
(* all.                                                                    *)
(***************************************************************************)
EXTENDS Naturals

CONSTANTS Clients,
          Global,  \* the options of the library itself
          NoFile,  \* no file is named
          MaxStarts  \* bound: startTLS calls of all clients together

ASSUME DistinctAssumption == Global \notin Clients

VARIABLES
  scope,    \* the options this build of libldap honours: "global" or "handle"
  state,    \* "unborn", "open", "unbinding", "closed", or "threw"
  exists,   \* clients whose temporary files are on disk
  options,  \* the TLS options, of the library and of every handle
  context,  \* the options a context was made from, or NoContext
  starts,   \* startTLS calls so far
  used,     \* what the TLS connection of a client was made from
  writer,   \* history: the client whose options are in force, all of them, or
            \* Global when they are mixed or the library's
  mine,     \* history: what this client asked for, last and when it was refused
  missing   \* history: the file a TLS set-up of this client did not find

histVars == <<writer, mine, missing>>
vars == <<scope, state, exists, options, context, starts, used, histVars>>

Files == [owner : Clients, temp : BOOLEAN]
Settings == [file : Files \cup {NoFile}, verify : BOOLEAN]
NoContext == [file |-> NoFile]

\* tlsOptions: ca (a temporary file), caFile (the caller's own), or neither.
Requests == [ca : {"none", "inline", "file"}, verify : BOOLEAN]

\* Without tlsOptions nothing is set: libldap verifies.
Default == [ca |-> "none", verify |-> TRUE]

Names(c, request) == [owner |-> c, temp |-> request.ca = "inline"]

\* A file can be read while it is the caller's own or its directory is there.
OnDisk(file, disk) ==
  file \in {NoFile} \cup [owner : Clients, temp : {FALSE}]
                   \cup [owner : disk, temp : {TRUE}]

TypeOK ==
  /\ scope \in {"global", "handle"}
  /\ state \in [Clients -> {"unborn", "open", "unbinding", "closed", "threw"}]
  /\ exists \subseteq {c \in Clients : state[c] \in {"open", "unbinding"}}
  /\ options \in [Clients \cup {Global} -> Settings]
  /\ context \in [Clients \cup {Global} -> Settings \cup {NoContext}]
  /\ starts \in Nat
  /\ used \in [Clients -> Settings \cup {NoContext}]
  /\ writer \in Clients \cup {Global}
  /\ mine \in [Clients -> SUBSET Requests]
  /\ missing \in [Clients -> Files \cup {NoFile}]

Init ==
  /\ scope \in {"global", "handle"}
  /\ state = [c \in Clients |-> "unborn"]
  /\ exists = {}
  /\ options = [x \in Clients \cup {Global} |-> [file |-> NoFile, verify |-> TRUE]]
  /\ context = [x \in Clients \cup {Global} |-> NoContext]
  /\ starts = 0
  /\ used = [c \in Clients |-> NoContext]
  /\ writer = Global
  /\ mine = [c \in Clients |-> {Default}]
  /\ missing = [c \in Clients |-> NoFile]

\* Where this libldap finds the options of a client's connection.
Honoured(c) == IF scope = "global" THEN Global ELSE c

-------------------------------------------------------------------------------
(* native/addon.cc *)

\* SetLdapOption: both scopes.
SetGlobally(c, setting) ==
  options' = [options EXCEPT ![Global] = setting[Global]]
SetLdapOption(c, setting) ==
  options' = [x \in Clients \cup {Global} |->
                IF x \in {c, Global} THEN setting[x] ELSE options[x]]

\* The options once the files and then the verification have been set.
WithFile(c, request) ==
  [x \in {c, Global} |->
     IF request.ca = "none" THEN options[x]
     ELSE [options[x] EXCEPT !.file = Names(c, request)]]
WithBoth(c, request) ==
  [x \in {c, Global} |->
     [WithFile(c, request)[x] EXCEPT !.verify = request.verify]]

\* Setting NEWCTX: the context is made anew, or there is none when its file is
\* gone.
Renewed(c, disk) ==
  [x \in Clients \cup {Global} |->
     IF x \notin {c, Global} THEN context[x]
     ELSE IF OnDisk(options'[x].file, disk) THEN options'[x] ELSE NoContext]

\* ApplyTlsOptions up to its end: it throws when no scope that this libldap
\* knows could make a context.
AppliesOnce(c, request, disk) ==
  /\ SetLdapOption(c, WithBoth(c, request))
  /\ context' = IF context[c] = NoContext THEN Renewed(c, disk) ELSE context
Applies(c, request, disk) ==
  /\ SetLdapOption(c, WithBoth(c, request))
  /\ context' = Renewed(c, disk)

Applied(c) == \E x \in {Honoured(c), Global} : context'[x] # NoContext

\* ApplyTlsOptions throws before NEWCTX: at a file, at the verification, or at
\* the protocol version.
Breaks(c, request) ==
  /\ \/ UNCHANGED options
     \/ SetLdapOption(c, WithFile(c, request))
     \/ SetLdapOption(c, WithBoth(c, request))
  /\ UNCHANGED context

\* The outcome of ApplyTlsOptions, and the file it missed.
Succeeds(c, request, disk) ==
  /\ Applies(c, request, disk)
  /\ Applied(c)
  /\ writer' = c
  /\ UNCHANGED missing
Throws(c, request, disk) ==
  /\ \/ /\ Applies(c, request, disk)
        /\ ~Applied(c)
        /\ missing' = [missing EXCEPT ![c] = options'[Honoured(c)].file]
     \/ /\ Breaks(c, request)
        /\ UNCHANGED missing
  /\ writer' = IF writer = c THEN c ELSE Global

-------------------------------------------------------------------------------
(* The calls of a client *)

\* The constructor writes an inline ca to a file before it connects.
Disk(c, request) == IF request.ca = "inline" THEN exists \cup {c} ELSE exists

ConstructPlain(c) ==
  /\ state[c] = "unborn"
  /\ state' = [state EXCEPT ![c] = "open"]
  /\ UNCHANGED <<scope, exists, options, context, starts, used, histVars>>

ConstructCleansEarly(c, request) ==
  /\ state[c] = "unborn"
  /\ Succeeds(c, request, Disk(c, request))
  /\ state' = [state EXCEPT ![c] = "open"]
  /\ mine' = [mine EXCEPT ![c] = {request}]
  /\ UNCHANGED <<scope, exists, starts, used>>
Construct(c, request) ==
  /\ state[c] = "unborn"
  /\ Succeeds(c, request, Disk(c, request))
  /\ state' = [state EXCEPT ![c] = "open"]
  /\ exists' = Disk(c, request)
  /\ mine' = [mine EXCEPT ![c] = {request}]
  /\ UNCHANGED <<scope, starts, used>>

\* The catch block removes the file; what was set stays set.
ConstructThrows(c, request) ==
  /\ state[c] = "unborn"
  /\ Throws(c, request, Disk(c, request))
  /\ state' = [state EXCEPT ![c] = "threw"]
  /\ UNCHANGED <<scope, exists, starts, used, mine>>

\* What a connection of this client would be made from now.
Effective(c) ==
  IF context[Honoured(c)] # NoContext THEN context[Honoured(c)]
  ELSE options[Honoured(c)]

\* The first request of an ldaps client.
UseTls(c) ==
  /\ state[c] = "open" /\ used[c] = NoContext
  /\ \/ /\ OnDisk(Effective(c).file, exists) \/ context[Honoured(c)] # NoContext
        /\ used' = [used EXCEPT ![c] = Effective(c)]
        /\ context' = [context EXCEPT ![Honoured(c)] = Effective(c)]
        /\ UNCHANGED missing
     \/ /\ context[Honoured(c)] = NoContext
        /\ ~OnDisk(Effective(c).file, exists)
        /\ missing' = [missing EXCEPT ![c] = Effective(c).file]
        /\ UNCHANGED <<used, context>>
  /\ UNCHANGED <<scope, state, exists, options, starts, writer, mine>>

\* startTLS writes its file, applies its options and starts TLS; libldap may
\* refuse, as it does when the connection has TLS already.
StartTLS(c, request) ==
  /\ state[c] = "open" /\ starts < MaxStarts
  /\ starts' = starts + 1
  /\ UNCHANGED <<scope, state>>
  /\ exists' = Disk(c, request)
  /\ \/ /\ Succeeds(c, request, exists')
        /\ used[c] = NoContext
        /\ used' = [used EXCEPT ![c] = Effective(c)']
        /\ mine' = [mine EXCEPT ![c] = {request}]
     \/ /\ Succeeds(c, request, exists') \/ Throws(c, request, exists')
        /\ mine' = [mine EXCEPT ![c] = @ \cup {request}]
        /\ UNCHANGED used

Unbind(c) ==
  /\ state[c] = "open"
  /\ state' = [state EXCEPT ![c] = "unbinding"]
  /\ UNCHANGED <<scope, exists, options, context, starts, used, histVars>>

\* The finally block: the files go, the global options that name them stay.
FinishUnbind(c) ==
  /\ state[c] = "unbinding"
  /\ state' = [state EXCEPT ![c] = "closed"]
  /\ exists' = exists \ {c}
  /\ UNCHANGED <<scope, options, context, starts, used, histVars>>

Next ==
  \E c \in Clients :
    \/ ConstructPlain(c)
    \/ \E request \in Requests :
         Construct(c, request) \/ ConstructThrows(c, request) \/ StartTLS(c, request)
    \/ UseTls(c)
    \/ Unbind(c)
    \/ FinishUnbind(c)

Spec == Init /\ [][Next]_vars

-------------------------------------------------------------------------------
(* Properties *)

Connects(c) == used'[c] # used[c]

\* A TLS connection verifies its server as its own client asked.  Where only
\* the global options count this is so as long as no other client has set an
\* option since.
VerifyIsOwn ==
  [][\A c \in Clients :
       Connects(c) /\ (scope = "handle" \/ writer' = c) =>
         \E request \in mine'[c] : used'[c].verify = request.verify]_vars

\* A TLS connection trusts the file its own client named, and with per-handle
\* options never that of another client.
MaterialIsOwn ==
  [][\A c \in Clients :
       Connects(c) =>
         \/ \E request \in mine'[c] :
              request.ca # "none" /\ used'[c].file = Names(c, request)
         \/ /\ \E request \in mine'[c] : request.ca = "none"
            /\ scope = "handle" =>
                 used'[c].file = NoFile \/ used'[c].file.owner = c
         \/ scope = "global" /\ writer' # c]_vars

\* A set-up misses a file only where the global options count, and then it is
\* one that another client named and removed.
SetupFailsOnlyOnStale ==
  \A c \in Clients : missing[c] # NoFile =>
    scope = "global" /\ missing[c].owner # c
===============================================================================
