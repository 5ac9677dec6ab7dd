---------------------------- MODULE TlsScope_proofs ----------------------------
(***************************************************************************)
(* Proofs, for any number of clients and of startTLS calls, that a TLS     *)
(* set-up misses only files which other clients removed, and that a TLS    *)
(* connection is made from what its own client asked for.  The first       *)
(* invariant, NamedInv, is about the files that options name: a client     *)
(* that is alive still has on disk whatever of its own the options of any  *)
(* handle name.  The second, OwnInv, says whose settings the options and   *)
(* the contexts hold; the two action properties follow from it.            *)
(***************************************************************************)
EXTENDS TlsScope, TLAPS

\* A temporary file named by some option is on disk, or its owner has removed
\* it: the owner's constructor threw or it has been unbound.
NamedInv ==
  \A x \in Clients \cup {Global} : options[x].file # NoFile =>
    LET owner == options[x].file.owner IN
    /\ x # Global => owner = x
    /\ state[owner] # "unborn"
    /\ options[x].file.temp =>
         owner \in exists \/ state[owner] \in {"closed", "threw"}

Inv == TypeOK /\ NamedInv /\ SetupFailsOnlyOnStale

-------------------------------------------------------------------------------
LEMMA HonouredType ==
  ASSUME TypeOK, NEW c \in Clients
  PROVE  /\ Honoured(c) \in {c, Global}
         /\ Honoured(c) \in Clients \cup {Global}
         /\ scope = "handle" => Honoured(c) = c
  BY DEF Honoured, TypeOK

LEMMA InitInv == Init => Inv
<1> SUFFICES ASSUME Init PROVE Inv
  OBVIOUS
<1>1. [file |-> NoFile, verify |-> TRUE] \in Settings
  BY DEF Settings
<1>2. Default \in Requests
  BY DEF Default, Requests
<1>3. TypeOK
  BY <1>1, <1>2 DEF Init, TypeOK
<1> QED
  BY <1>3 DEF Init, Inv, NamedInv, SetupFailsOnlyOnStale

\* What SetLdapOption writes, whether ApplyTlsOptions gets to its end or not:
\* settings that name nothing new but a file of this client.
LEMMA Written ==
  ASSUME TypeOK, NEW c \in Clients, NEW request \in Requests,
         \/ UNCHANGED options
         \/ SetLdapOption(c, WithFile(c, request))
         \/ SetLdapOption(c, WithBoth(c, request))
  PROVE  /\ options' \in [Clients \cup {Global} -> Settings]
         /\ \A x \in Clients \cup {Global} :
              \/ options'[x].file = options[x].file
              \/ x \in {c, Global} /\ request.ca # "none"
                   /\ options'[x].file = Names(c, request)
<1>1. Names(c, request) \in Files
  BY DEF Names, Files
<1>2. \A x \in Clients \cup {Global} : options[x] \in Settings
  BY DEF TypeOK
<1>3. \A x \in {c, Global} :
        /\ WithFile(c, request)[x] \in Settings
        /\ \/ WithFile(c, request)[x].file = options[x].file
           \/ request.ca # "none" /\ WithFile(c, request)[x].file = Names(c, request)
  BY <1>1, <1>2 DEF WithFile, Settings
<1>4. \A x \in {c, Global} :
        /\ WithBoth(c, request)[x] \in Settings
        /\ WithBoth(c, request)[x].file = WithFile(c, request)[x].file
  BY <1>3 DEF WithBoth, Settings, Requests
<1>5. CASE UNCHANGED options
  BY <1>5 DEF TypeOK
<1>6. CASE SetLdapOption(c, WithFile(c, request))
  BY <1>2, <1>3, <1>6 DEF SetLdapOption
<1>7. CASE SetLdapOption(c, WithBoth(c, request))
  BY <1>2, <1>3, <1>4, <1>7 DEF SetLdapOption
<1> QED
  BY <1>5, <1>6, <1>7

\* After such a write, with this client's file on disk if it wrote one, every
\* file that is named is accounted for.
LEMMA WriteNames ==
  ASSUME TypeOK, NamedInv, NEW c \in Clients, NEW request \in Requests,
         \/ UNCHANGED options
         \/ SetLdapOption(c, WithFile(c, request))
         \/ SetLdapOption(c, WithBoth(c, request)),
         NEW disk, exists \subseteq disk, request.ca = "inline" => c \in disk,
         NEW x \in Clients \cup {Global}, options'[x].file # NoFile
  PROVE  /\ options'[x].file \in Files
         /\ x # Global => options'[x].file.owner = x
         /\ options'[x].file.owner = c \/ state[options'[x].file.owner] # "unborn"
         /\ options'[x].file.temp =>
              \/ options'[x].file.owner \in disk
              \/ state[options'[x].file.owner] \in {"closed", "threw"}
<1>1. options'[x].file \in Files
  BY Written DEF Settings
<1>2. CASE options'[x].file = options[x].file
  BY <1>1, <1>2 DEF NamedInv
<1>3. CASE x \in {c, Global} /\ request.ca # "none"
             /\ options'[x].file = Names(c, request)
  <2>1. options'[x].file.owner = c
    BY <1>3 DEF Names
  <2>2. options'[x].file.temp = (request.ca = "inline")
    BY <1>3 DEF Names
  <2>3. options'[x].file.temp => c \in disk
    BY <2>2
  <2> QED
    BY <1>1, <1>3, <2>1, <2>3
<1>4. \/ options'[x].file = options[x].file
      \/ x \in {c, Global} /\ request.ca # "none"
           /\ options'[x].file = Names(c, request)
  BY Written
<1> QED
  BY <1>2, <1>3, <1>4

\* A file that is not there, named by the options libldap honours for c, is that
\* of another client, and only where the global options count.
LEMMA MissedIsStale ==
  ASSUME NEW c \in Clients, NEW file, NEW disk, NEW x \in {c, Global},
         file # NoFile =>
           /\ file \in Files
           /\ x # Global => file.owner = x
           /\ file.temp => file.owner \in disk \/ file.owner # c,
         x = c \/ scope = "global",
         ~OnDisk(file, disk)
  PROVE  scope = "global" /\ file.owner # c
<1>1. file # NoFile /\ file \in Files
  BY DEF OnDisk
<1>2. file.temp /\ file.owner \notin disk
  BY <1>1 DEF OnDisk, Files
<1> QED
  BY <1>1, <1>2, DistinctAssumption

LEMMA ContextType ==
  ASSUME TypeOK, NEW c \in Clients, NEW disk,
         options' \in [Clients \cup {Global} -> Settings],
         context' \in {context, Renewed(c, disk)}
  PROVE  context' \in [Clients \cup {Global} -> Settings \cup {NoContext}]
  BY DEF TypeOK, Renewed

\* ApplyTlsOptions that comes back.
LEMMA SucceedsKeeps ==
  ASSUME TypeOK, NEW c \in Clients, NEW request \in Requests, NEW disk,
         Succeeds(c, request, disk)
  PROVE  /\ options' \in [Clients \cup {Global} -> Settings]
         /\ context' \in [Clients \cup {Global} -> Settings \cup {NoContext}]
         /\ writer' \in Clients \cup {Global} /\ missing' = missing
         /\ SetLdapOption(c, WithBoth(c, request))
<1>1. SetLdapOption(c, WithBoth(c, request)) /\ context' = Renewed(c, disk)
  BY DEF Succeeds, Applies
<1> QED
  BY <1>1, Written, ContextType DEF Succeeds

\* ApplyTlsOptions that throws: what it missed is stale.
LEMMA ThrowsKeeps ==
  ASSUME TypeOK, NamedInv, SetupFailsOnlyOnStale,
         NEW c \in Clients, state[c] \in {"unborn", "open"},
         NEW request \in Requests, NEW disk, exists \subseteq disk,
         request.ca = "inline" => c \in disk,
         Throws(c, request, disk)
  PROVE  /\ options' \in [Clients \cup {Global} -> Settings]
         /\ context' \in [Clients \cup {Global} -> Settings \cup {NoContext}]
         /\ writer' \in Clients \cup {Global}
         /\ missing' \in [Clients -> Files \cup {NoFile}]
         /\ \A d \in Clients : missing'[d] # NoFile =>
              scope = "global" /\ missing'[d].owner # d
         /\ \/ UNCHANGED options
            \/ SetLdapOption(c, WithFile(c, request))
            \/ SetLdapOption(c, WithBoth(c, request))
<1>1. \/ UNCHANGED options
      \/ SetLdapOption(c, WithFile(c, request))
      \/ SetLdapOption(c, WithBoth(c, request))
  BY DEF Throws, Applies, Breaks
<1>2. options' \in [Clients \cup {Global} -> Settings]
  BY <1>1, Written
<1>3. context' \in {context, Renewed(c, disk)}
  BY DEF Throws, Applies, Breaks
<1>4. CASE UNCHANGED missing
  BY <1>1, <1>2, <1>3, <1>4, ContextType DEF Throws, TypeOK, SetupFailsOnlyOnStale
<1>5. CASE /\ Applies(c, request, disk) /\ ~Applied(c)
           /\ missing' = [missing EXCEPT ![c] = options'[Honoured(c)].file]
  <2>1. PICK x \in {c, Global} : Honoured(c) = x /\ (x = c \/ scope = "global")
    BY HonouredType DEF TypeOK
  <2>2. options'[x] \in Settings /\ x \in Clients \cup {Global}
    BY <1>2
  <2>3. ~OnDisk(options'[x].file, disk)
    <3>1. context'[x] = NoContext
      BY <1>5, <2>1 DEF Applied
    <3>2. context'[x] =
            IF OnDisk(options'[x].file, disk) THEN options'[x] ELSE NoContext
      BY <1>5, <2>2 DEF Applies, Renewed
    <3>3. options'[x] # NoContext
      BY <2>2 DEF Settings, NoContext
    <3> QED
      BY <3>1, <3>2, <3>3
  <2>4. options'[x].file # NoFile =>
          /\ options'[x].file \in Files
          /\ x # Global => options'[x].file.owner = x
          /\ options'[x].file.temp =>
               options'[x].file.owner \in disk \/ options'[x].file.owner # c
    BY <1>1, <2>2, WriteNames
  <2>5. scope = "global" /\ options'[x].file.owner # c
    BY <2>1, <2>3, <2>4, MissedIsStale
  <2>6. options'[x].file \in Files \cup {NoFile}
    BY <2>2 DEF Settings
  <2>7. /\ missing' \in [Clients -> Files \cup {NoFile}]
        /\ \A d \in Clients : missing'[d] # NoFile =>
             scope = "global" /\ missing'[d].owner # d
    BY <1>5, <2>1, <2>5, <2>6 DEF TypeOK, SetupFailsOnlyOnStale
  <2> QED
    BY <1>1, <1>2, <1>3, <2>7, ContextType DEF Throws, TypeOK
<1> QED
  BY <1>4, <1>5 DEF Throws

-------------------------------------------------------------------------------
(* The steps *)

\* The files that options name after a step that leaves the options alone.
LEMMA SameOptionsKeep ==
  ASSUME TypeOK, NamedInv, UNCHANGED options, NEW c \in Clients,
         \A d \in Clients \ {c} : state'[d] = state[d],
         \/ state'[c] = state[c]
         \/ state'[c] \in {"open", "unbinding"} /\ exists \subseteq exists'
              /\ state[c] \in {"unborn", "open"}
         \/ state'[c] = "closed",
         exists \ exists' \subseteq {d \in Clients : state'[d] = "closed"}
  PROVE  NamedInv'
<1> SUFFICES ASSUME NEW x \in Clients \cup {Global}, options[x].file # NoFile
             PROVE  LET owner == options[x].file.owner IN
                    /\ x # Global => owner = x
                    /\ state'[owner] # "unborn"
                    /\ options[x].file.temp =>
                         owner \in exists' \/ state'[owner] \in {"closed", "threw"}
  BY DEF NamedInv
<1>1. options[x].file.owner \in Clients
  BY DEF TypeOK, Settings, Files
<1>2. LET owner == options[x].file.owner IN
      /\ x # Global => owner = x
      /\ state[owner] # "unborn"
      /\ options[x].file.temp =>
           owner \in exists \/ state[owner] \in {"closed", "threw"}
  BY DEF NamedInv
<1> QED
  BY <1>1, <1>2

\* The files that options name after a constructor or startTLS wrote some.
LEMMA WriteKeepsNamed ==
  ASSUME TypeOK, NamedInv, NEW c \in Clients, NEW request \in Requests,
         \/ UNCHANGED options
         \/ SetLdapOption(c, WithFile(c, request))
         \/ SetLdapOption(c, WithBoth(c, request)),
         state[c] \in {"unborn", "open"}, state'[c] \in {"open", "threw"},
         \A d \in Clients \ {c} : state'[d] = state[d],
         exists' = Disk(c, request) \/ (state'[c] = "threw" /\ exists' = exists)
  PROVE  NamedInv'
<1> DEFINE disk == Disk(c, request)
<1>1. exists \subseteq disk /\ (request.ca = "inline" => c \in disk)
      /\ disk \subseteq exists \cup {c}
  BY DEF Disk
<1> HIDE DEF disk
<1> SUFFICES ASSUME NEW x \in Clients \cup {Global}, options'[x].file # NoFile
             PROVE  LET owner == options'[x].file.owner IN
                    /\ x # Global => owner = x
                    /\ state'[owner] # "unborn"
                    /\ options'[x].file.temp =>
                         owner \in exists' \/ state'[owner] \in {"closed", "threw"}
  BY DEF NamedInv
<1>2. /\ options'[x].file \in Files
      /\ x # Global => options'[x].file.owner = x
      /\ options'[x].file.owner = c \/ state[options'[x].file.owner] # "unborn"
      /\ options'[x].file.temp =>
           \/ options'[x].file.owner \in disk
           \/ state[options'[x].file.owner] \in {"closed", "threw"}
  BY <1>1, WriteNames
<1>3. options'[x].file.owner \in Clients
  BY <1>2 DEF Files
<1> QED
  BY <1>1, <1>2, <1>3 DEF disk

LEMMA StepConstructPlain ==
  ASSUME Inv, NEW c \in Clients, ConstructPlain(c)
  PROVE  Inv'
<1>1. TypeOK' /\ SetupFailsOnlyOnStale'
  BY DEF Inv, ConstructPlain, TypeOK, SetupFailsOnlyOnStale, histVars
<1>2. NamedInv'
  BY SameOptionsKeep DEF Inv, ConstructPlain, TypeOK
<1> QED
  BY <1>1, <1>2 DEF Inv

LEMMA StepConstruct ==
  ASSUME Inv, NEW c \in Clients, NEW request \in Requests, Construct(c, request)
  PROVE  Inv'
<1>1. /\ state[c] = "unborn" /\ state' = [state EXCEPT ![c] = "open"]
      /\ exists' = Disk(c, request) /\ mine' = [mine EXCEPT ![c] = {request}]
      /\ UNCHANGED <<scope, starts, used>>
      /\ Succeeds(c, request, Disk(c, request))
  BY DEF Construct
<1>2. /\ options' \in [Clients \cup {Global} -> Settings]
      /\ context' \in [Clients \cup {Global} -> Settings \cup {NoContext}]
      /\ writer' \in Clients \cup {Global} /\ missing' = missing
      /\ SetLdapOption(c, WithBoth(c, request))
  BY <1>1, SucceedsKeeps DEF Inv
<1>3. TypeOK'
  BY <1>1, <1>2 DEF Inv, TypeOK, Disk
<1>4. NamedInv'
  BY <1>1, <1>2, WriteKeepsNamed DEF Inv, TypeOK
<1> QED
  BY <1>1, <1>2, <1>3, <1>4 DEF Inv, SetupFailsOnlyOnStale

LEMMA StepConstructThrows ==
  ASSUME Inv, NEW c \in Clients, NEW request \in Requests,
         ConstructThrows(c, request)
  PROVE  Inv'
<1>1. /\ state[c] = "unborn" /\ state' = [state EXCEPT ![c] = "threw"]
      /\ UNCHANGED <<scope, exists, starts, used, mine>>
      /\ Throws(c, request, Disk(c, request))
      /\ exists \subseteq Disk(c, request)
      /\ request.ca = "inline" => c \in Disk(c, request)
  BY DEF ConstructThrows, Disk
<1>2. /\ options' \in [Clients \cup {Global} -> Settings]
      /\ context' \in [Clients \cup {Global} -> Settings \cup {NoContext}]
      /\ writer' \in Clients \cup {Global}
      /\ missing' \in [Clients -> Files \cup {NoFile}]
      /\ \A d \in Clients : missing'[d] # NoFile =>
           scope = "global" /\ missing'[d].owner # d
      /\ \/ UNCHANGED options
         \/ SetLdapOption(c, WithFile(c, request))
         \/ SetLdapOption(c, WithBoth(c, request))
  BY <1>1, ThrowsKeeps DEF Inv
<1>3. TypeOK'
  BY <1>1, <1>2 DEF Inv, TypeOK
<1>4. NamedInv'
  BY <1>1, <1>2, WriteKeepsNamed DEF Inv, TypeOK
<1> QED
  BY <1>1, <1>2, <1>3, <1>4 DEF Inv, SetupFailsOnlyOnStale

\* What a connection is made from is a setting, or a context made before.
LEMMA EffectiveType ==
  ASSUME TypeOK, NEW c \in Clients
  PROVE  /\ Effective(c) \in Settings
         /\ context[Honoured(c)] = NoContext => Effective(c) = options[Honoured(c)]
  BY HonouredType DEF Effective, TypeOK

LEMMA StepUseTls ==
  ASSUME Inv, NEW c \in Clients, UseTls(c)
  PROVE  Inv'
<1>1. /\ state[c] = "open"
      /\ UNCHANGED <<scope, state, exists, options, starts, writer, mine>>
  BY DEF UseTls
<1>2. NamedInv'
  BY <1>1 DEF Inv, NamedInv
<1>3. CASE /\ used' = [used EXCEPT ![c] = Effective(c)]
           /\ context' = [context EXCEPT ![Honoured(c)] = Effective(c)]
           /\ UNCHANGED missing
  <2>1. TypeOK'
    BY <1>1, <1>3, EffectiveType, HonouredType DEF Inv, TypeOK
  <2> QED
    BY <1>1, <1>2, <1>3, <2>1 DEF Inv, SetupFailsOnlyOnStale
<1>4. CASE /\ context[Honoured(c)] = NoContext
           /\ ~OnDisk(Effective(c).file, exists)
           /\ missing' = [missing EXCEPT ![c] = Effective(c).file]
           /\ UNCHANGED <<used, context>>
  <2>1. PICK x \in {c, Global} : Honoured(c) = x /\ (x = c \/ scope = "global")
    BY HonouredType DEF Inv, TypeOK
  <2>2. Effective(c) = options[x] /\ options[x] \in Settings
    BY <1>4, <2>1, EffectiveType DEF Inv
  <2>3. options[x].file # NoFile =>
          /\ options[x].file \in Files
          /\ x # Global => options[x].file.owner = x
          /\ options[x].file.temp =>
               options[x].file.owner \in exists \/ options[x].file.owner # c
    BY <1>1, <2>2 DEF Inv, NamedInv, Settings
  <2>4. scope = "global" /\ options[x].file.owner # c
    BY <1>4, <2>1, <2>2, <2>3, MissedIsStale
  <2>5. options[x].file \in Files \cup {NoFile}
    BY <2>2 DEF Settings
  <2>6. TypeOK'
    BY <1>1, <1>4, <2>2, <2>5 DEF Inv, TypeOK
  <2>7. SetupFailsOnlyOnStale'
    BY <1>1, <1>4, <2>2, <2>4 DEF Inv, TypeOK, SetupFailsOnlyOnStale
  <2> QED
    BY <1>2, <2>6, <2>7 DEF Inv
<1> QED
  BY <1>3, <1>4 DEF UseTls

LEMMA StepStartTLS ==
  ASSUME Inv, NEW c \in Clients, NEW request \in Requests, StartTLS(c, request)
  PROVE  Inv'
<1>1. /\ state[c] = "open" /\ starts' = starts + 1 /\ UNCHANGED <<scope, state>>
      /\ exists' = Disk(c, request)
      /\ exists \subseteq exists' /\ (request.ca = "inline" => c \in exists')
      /\ mine' \in {[mine EXCEPT ![c] = {request}],
                    [mine EXCEPT ![c] = @ \cup {request}]}
  BY DEF StartTLS, Disk
<1>2. mine' \in [Clients -> SUBSET Requests]
  BY <1>1 DEF Inv, TypeOK
<1>3. CASE Succeeds(c, request, exists')
  <2>1. /\ options' \in [Clients \cup {Global} -> Settings]
        /\ context' \in [Clients \cup {Global} -> Settings \cup {NoContext}]
        /\ writer' \in Clients \cup {Global} /\ missing' = missing
        /\ SetLdapOption(c, WithBoth(c, request))
    BY <1>3, SucceedsKeeps DEF Inv
  <2>2. Effective(c)' \in Settings
    <3>1. Honoured(c)' = Honoured(c) /\ Honoured(c) \in Clients \cup {Global}
      BY <1>1, HonouredType DEF Inv, Honoured
    <3> QED
      BY <2>1, <3>1 DEF Effective
  <2>3. used' \in [Clients -> Settings \cup {NoContext}]
    BY <2>2 DEF StartTLS, Inv, TypeOK
  <2>4. TypeOK'
    BY <1>1, <1>2, <2>1, <2>3 DEF Inv, TypeOK, Disk
  <2>5. NamedInv'
    BY <1>1, <2>1, WriteKeepsNamed DEF Inv
  <2> QED
    BY <1>1, <2>1, <2>4, <2>5 DEF Inv, SetupFailsOnlyOnStale
<1>4. CASE Throws(c, request, exists') /\ UNCHANGED used
  <2>1. /\ options' \in [Clients \cup {Global} -> Settings]
        /\ context' \in [Clients \cup {Global} -> Settings \cup {NoContext}]
        /\ writer' \in Clients \cup {Global}
        /\ missing' \in [Clients -> Files \cup {NoFile}]
        /\ \A d \in Clients : missing'[d] # NoFile =>
             scope = "global" /\ missing'[d].owner # d
        /\ \/ UNCHANGED options
           \/ SetLdapOption(c, WithFile(c, request))
           \/ SetLdapOption(c, WithBoth(c, request))
    BY <1>1, <1>4, ThrowsKeeps DEF Inv
  <2>2. TypeOK'
    BY <1>1, <1>2, <1>4, <2>1 DEF Inv, TypeOK, Disk
  <2>3. NamedInv'
    BY <1>1, <2>1, WriteKeepsNamed DEF Inv
  <2> QED
    BY <1>1, <2>1, <2>2, <2>3 DEF Inv, SetupFailsOnlyOnStale
<1> QED
  BY <1>3, <1>4 DEF StartTLS

LEMMA StepUnbind ==
  ASSUME Inv, NEW c \in Clients, Unbind(c) \/ FinishUnbind(c)
  PROVE  Inv'
<1>1. TypeOK' /\ SetupFailsOnlyOnStale'
  BY DEF Inv, Unbind, FinishUnbind, TypeOK, SetupFailsOnlyOnStale, histVars
<1>2. NamedInv'
  BY SameOptionsKeep DEF Inv, Unbind, FinishUnbind, TypeOK
<1> QED
  BY <1>1, <1>2 DEF Inv

LEMMA StepInv == Inv /\ [Next]_vars => Inv'
<1> SUFFICES ASSUME Inv, [Next]_vars PROVE Inv'
  OBVIOUS
<1>1. CASE UNCHANGED vars
  BY <1>1 DEF vars, histVars, Inv, TypeOK, NamedInv, SetupFailsOnlyOnStale
<1> QED
  BY <1>1, StepConstructPlain, StepConstruct, StepConstructThrows, StepUseTls,
     StepStartTLS, StepUnbind
  DEF Next

THEOREM Invariant == Spec => []Inv
  BY InitInv, StepInv, PTL DEF Spec

\* Options, contexts and files keep their types for any number of clients.
THEOREM TypeCorrect == Spec => []TypeOK
<1>1. Inv => TypeOK
  BY DEF Inv
<1> QED
  BY Invariant, <1>1, PTL

\* For any number of clients: a TLS set-up misses a file only where the global
\* options count, and then one that another client named and removed.
THEOREM OwnFilesAreFound == Spec => []SetupFailsOnlyOnStale
<1>1. Inv => SetupFailsOnlyOnStale
  BY DEF Inv
<1> QED
  BY Invariant, <1>1, PTL

-------------------------------------------------------------------------------
(* What a connection comes out of *)

\* A setting is one that this client asked for: verification and file.
Own(c, setting) ==
  /\ \E r \in mine[c] : setting.verify = r.verify
  /\ \/ \E r \in mine[c] : r.ca # "none" /\ setting.file = Names(c, r)
     \/ /\ \E r \in mine[c] : r.ca = "none"
        /\ scope = "handle" => setting.file = NoFile \/ setting.file.owner = c

\* The options that are honoured for a client are its own, as long as nobody
\* else wrote them, and so is the context made from them.
OwnOf(c) ==
  state[c] # "threw" /\ (scope = "handle" \/ writer = c) =>
    /\ Own(c, options[Honoured(c)])
    /\ context[Honoured(c)] # NoContext => Own(c, context[Honoured(c)])

OwnInv ==
  /\ \A c \in Clients : OwnOf(c)
  /\ writer # Global => state[writer] \notin {"unborn", "threw"}

LEMMA OwnGrows ==
  ASSUME NEW c \in Clients, NEW setting, Own(c, setting),
         mine[c] \subseteq mine'[c], scope' = scope
  PROVE  Own(c, setting)'
  BY DEF Own, Names

LEMMA HonouredKept ==
  ASSUME scope' = scope, NEW c \in Clients
  PROVE  Honoured(c)' = Honoured(c)
  BY DEF Honoured

\* A client whose options nobody writes.
LEMMA UntouchedOwn ==
  ASSUME TypeOK, NEW c \in Clients, OwnOf(c), scope' = scope,
         mine[c] \subseteq mine'[c],
         state[c] = "threw" => state'[c] = "threw",
         scope = "handle" \/ (writer' = c => writer = c),
         options'[Honoured(c)] = options[Honoured(c)],
         context'[Honoured(c)] \in
           {context[Honoured(c)], options[Honoured(c)], NoContext}
  PROVE  OwnOf(c)'
<1>1. PICK x : Honoured(c) = x /\ Honoured(c)' = x
  BY HonouredKept
<1>2. SUFFICES ASSUME state'[c] # "threw", scope = "handle" \/ writer' = c
               PROVE  /\ Own(c, options[x])'
                      /\ context'[x] # NoContext => Own(c, context[x])'
  BY <1>1 DEF OwnOf
<1>3. /\ Own(c, options[x])
      /\ context[x] # NoContext => Own(c, context[x])
  BY <1>1, <1>2 DEF OwnOf
<1>4. ASSUME NEW setting, Own(c, setting) PROVE Own(c, setting)'
  BY <1>4, OwnGrows
<1>5. PICK new, old, opt : /\ new = context'[x] /\ old = context[x]
                           /\ opt = options[x] /\ opt = options'[x]
  BY <1>1
<1>6. Own(c, opt) /\ (old # NoContext => Own(c, old)) /\ new \in {old, opt, NoContext}
  BY <1>1, <1>3, <1>5
<1>7. Own(c, opt)' /\ (new # NoContext => Own(c, new)')
  BY <1>4, <1>6
<1>8. Own(c, options[x])' /\ (context'[x] # NoContext => Own(c, context[x])')
  BY <1>5, <1>7 DEF Own
<1> QED
  BY <1>8

\* The options of a client after a call of ApplyTlsOptions that set them all.
LEMMA OwnAfterWrite ==
  ASSUME TypeOK, NEW c \in Clients, NEW request \in Requests,
         SetLdapOption(c, WithBoth(c, request)), scope' = scope,
         request \in mine'[c], NEW x \in {c, Global},
         scope = "handle" => x = c /\ Own(c, options[c])
  PROVE  Own(c, options[x])'
<1>1. options'[x] = WithBoth(c, request)[x] /\ options[x] \in Settings
  BY DEF SetLdapOption, TypeOK
<1>2. /\ options'[x].verify = request.verify
      /\ options'[x].file = IF request.ca = "none" THEN options[x].file
                            ELSE Names(c, request)
  BY <1>1 DEF WithBoth, WithFile, Settings
<1>3. CASE request.ca # "none"
  BY <1>2, <1>3 DEF Own, Names
<1>4. CASE request.ca = "none"
  <2>1. scope = "handle" => options[x].file = NoFile \/ options[x].file.owner = c
    <3>1. ASSUME NEW setting, Own(c, setting), scope = "handle"
          PROVE  setting.file = NoFile \/ setting.file.owner = c
      <4>1. CASE \E r \in mine[c] : r.ca # "none" /\ setting.file = Names(c, r)
        BY <4>1 DEF Names
      <4> QED
        BY <3>1, <4>1 DEF Own
    <3> QED
      BY <3>1
  <2> QED
    BY <1>2, <1>4, <2>1 DEF Own
<1> QED
  BY <1>3, <1>4

\* The options of a client after a call that stopped somewhere.
LEMMA OwnAfterBreak ==
  ASSUME TypeOK, NEW c \in Clients, NEW request \in Requests,
         \/ UNCHANGED options
         \/ SetLdapOption(c, WithFile(c, request))
         \/ SetLdapOption(c, WithBoth(c, request)),
         scope' = scope, request \in mine'[c], mine[c] \subseteq mine'[c],
         NEW x \in {c, Global}, scope = "handle" => x = c, Own(c, options[x])
  PROVE  Own(c, options[x])'
<1>1. options[x] \in Settings
  BY DEF TypeOK
<1>2. CASE UNCHANGED options
  BY <1>2 DEF Own, Names
<1>3. CASE SetLdapOption(c, WithFile(c, request))
  <2>1. /\ options'[x].verify = options[x].verify
        /\ options'[x].file = IF request.ca = "none" THEN options[x].file
                              ELSE Names(c, request)
    BY <1>1, <1>3 DEF SetLdapOption, WithFile, Settings
  <2>2. CASE request.ca # "none"
    BY <2>1, <2>2 DEF Own, Names
  <2>3. CASE request.ca = "none"
    BY <2>1, <2>3 DEF Own, Names
  <2> QED
    BY <2>2, <2>3
<1>4. CASE SetLdapOption(c, WithBoth(c, request))
  BY <1>4, OwnAfterWrite
<1> QED
  BY <1>2, <1>3, <1>4

\* A context made anew is made from the options as they are now.
LEMMA RenewedOwn ==
  ASSUME NEW c \in Clients, NEW disk, context' = Renewed(c, disk),
         NEW x \in {c, Global}, Own(c, options[x])', context'[x] # NoContext
  PROVE  Own(c, context[x])'
<1>1. context'[x] = options'[x]
  BY DEF Renewed
<1> QED
  BY <1>1 DEF Own

\* A call of ApplyTlsOptions leaves the other clients' options their own, or
\* leaves a writer that is not one of them.
LEMMA WriteSparesOthers ==
  ASSUME TypeOK, NEW c \in Clients, NEW request \in Requests, NEW disk,
         Succeeds(c, request, disk) \/ Throws(c, request, disk),
         NEW d \in Clients \ {c}, OwnOf(d),
         scope' = scope, mine'[d] = mine[d], state'[d] = state[d]
  PROVE  OwnOf(d)'
<1>1. writer' # d
  BY DistinctAssumption DEF Succeeds, Throws
<1>2. CASE scope = "global"
  BY <1>1, <1>2 DEF OwnOf
<1>3. CASE scope = "handle"
  <2>1. Honoured(d) = d /\ d \notin {c, Global}
    BY <1>3, DistinctAssumption DEF Honoured
  <2>2. \/ UNCHANGED options
        \/ SetLdapOption(c, WithFile(c, request))
        \/ SetLdapOption(c, WithBoth(c, request))
    BY DEF Succeeds, Throws, Applies, Breaks
  <2>3. context' \in {context, Renewed(c, disk)}
    BY DEF Succeeds, Throws, Applies, Breaks
  <2>4. options'[d] = options[d]
    BY <2>1, <2>2 DEF SetLdapOption
  <2>5. context'[d] = context[d]
    BY <2>1, <2>3 DEF Renewed
  <2> QED
    BY <1>3, <2>1, <2>4, <2>5, UntouchedOwn
<1> QED
  BY <1>2, <1>3 DEF TypeOK

\* After ApplyTlsOptions came to its end the options are this client's.
LEMMA WriteTakes ==
  ASSUME TypeOK, NEW c \in Clients, NEW request \in Requests, NEW disk,
         Applies(c, request, disk), OwnOf(c), state[c] # "threw",
         scope' = scope, request \in mine'[c]
  PROVE  OwnOf(c)'
<1>1. PICK x \in {c, Global} :
        Honoured(c) = x /\ Honoured(c)' = x /\ (scope = "handle" => x = c)
  BY HonouredType, HonouredKept
<1>2. scope = "handle" => x = c /\ Own(c, options[c])
  BY <1>1 DEF OwnOf
<1>3. SetLdapOption(c, WithBoth(c, request)) /\ context' = Renewed(c, disk)
  BY DEF Applies
<1>4. Own(c, options[x])'
  BY <1>2, <1>3, OwnAfterWrite
<1>5. context'[x] # NoContext => Own(c, context[x])'
  BY <1>3, <1>4, RenewedOwn
<1> QED
  BY <1>1, <1>4, <1>5 DEF OwnOf

\* After it threw they are still, if they were.
LEMMA ThrowKeepsOwn ==
  ASSUME TypeOK, NEW c \in Clients, NEW request \in Requests, NEW disk,
         Throws(c, request, disk), OwnOf(c), state[c] # "threw",
         scope' = scope, request \in mine'[c], mine[c] \subseteq mine'[c]
  PROVE  OwnOf(c)'
<1>1. PICK x \in {c, Global} :
        Honoured(c) = x /\ Honoured(c)' = x /\ (scope = "handle" => x = c)
  BY HonouredType, HonouredKept
<1>2. SUFFICES ASSUME scope = "handle" \/ writer' = c
               PROVE  /\ Own(c, options[x])'
                      /\ context'[x] # NoContext => Own(c, context[x])'
  BY <1>1 DEF OwnOf
<1>3. scope = "handle" \/ writer = c
  BY <1>2, DistinctAssumption DEF Throws
<1>4. Own(c, options[x]) /\ (context[x] # NoContext => Own(c, context[x]))
  BY <1>1, <1>3 DEF OwnOf
<1>5. \/ UNCHANGED options
      \/ SetLdapOption(c, WithFile(c, request))
      \/ SetLdapOption(c, WithBoth(c, request))
  BY DEF Throws, Applies, Breaks
<1>6. Own(c, options[x])'
  BY <1>1, <1>4, <1>5, OwnAfterBreak
<1>7. CASE context' = context
  <2>1. ASSUME NEW setting, Own(c, setting) PROVE Own(c, setting)'
    BY <2>1, OwnGrows
  <2>2. PICK old : old = context[x] /\ old = context'[x]
    BY <1>7
  <2>3. old # NoContext => Own(c, old)'
    BY <1>4, <2>1, <2>2
  <2> QED
    BY <1>6, <2>2, <2>3 DEF Own
<1>8. CASE context' = Renewed(c, disk)
  BY <1>6, <1>8, RenewedOwn
<1> QED
  BY <1>7, <1>8, <1>6 DEF Throws, Applies, Breaks

LEMMA InitOwn == Init => OwnInv
<1> SUFFICES ASSUME Init PROVE OwnInv
  OBVIOUS
<1>1. ASSUME NEW c \in Clients PROVE OwnOf(c)
  <2>1. PICK x \in Clients \cup {Global} : Honoured(c) = x
    BY DEF Honoured
  <2>2. options[x] = [file |-> NoFile, verify |-> TRUE] /\ context[x] = NoContext
        /\ mine[c] = {Default}
    BY DEF Init
  <2>3. Own(c, options[x])
    BY <2>2 DEF Own, Default
  <2> QED
    BY <2>1, <2>2, <2>3 DEF OwnOf
<1> QED
  BY <1>1 DEF Init, OwnInv

LEMMA StepOwn == TypeOK /\ OwnInv /\ [Next]_vars => OwnInv'
<1> SUFFICES ASSUME TypeOK, OwnInv, [Next]_vars PROVE OwnInv'
  OBVIOUS
<1>1. CASE UNCHANGED vars
  <2>1. ASSUME NEW c \in Clients PROVE OwnOf(c)'
    BY <1>1, UntouchedOwn DEF OwnInv, vars, histVars
  <2> QED
    BY <1>1, <2>1 DEF OwnInv, vars, histVars
<1>2. ASSUME NEW c \in Clients, ConstructPlain(c) \/ Unbind(c) \/ FinishUnbind(c)
      PROVE  OwnInv'
  <2>1. /\ UNCHANGED <<scope, options, context, writer, mine>>
        /\ state[c] \in {"unborn", "open", "unbinding"}
        /\ \A d \in Clients \ {c} : state'[d] = state[d]
        /\ state'[c] \in {"open", "unbinding", "closed"}
    BY <1>2 DEF ConstructPlain, Unbind, FinishUnbind, histVars, TypeOK
  <2>2. ASSUME NEW d \in Clients PROVE OwnOf(d)'
    BY <2>1, UntouchedOwn DEF OwnInv
  <2>3. writer' # Global => state'[writer'] \notin {"unborn", "threw"}
    BY <2>1 DEF OwnInv, TypeOK
  <2> QED
    BY <2>2, <2>3 DEF OwnInv
<1>3. ASSUME NEW c \in Clients, UseTls(c) PROVE OwnInv'
  <2>1. UNCHANGED <<scope, state, options, writer, mine>>
    BY <1>3 DEF UseTls
  <2>2. ASSUME NEW d \in Clients PROVE OwnOf(d)'
    <3>1. Honoured(d) \in Clients \cup {Global} /\ Honoured(c) \in Clients \cup {Global}
      BY HonouredType
    <3>2. context'[Honoured(d)] \in {context[Honoured(d)], options[Honoured(d)]}
      BY <1>3, <3>1 DEF UseTls, Effective, TypeOK
    <3> QED
      BY <2>1, <3>2, UntouchedOwn DEF OwnInv
  <2> QED
    BY <2>1, <2>2 DEF OwnInv
<1>4. ASSUME NEW c \in Clients, NEW request \in Requests, Construct(c, request)
      PROVE  OwnInv'
  <2>1. /\ state[c] = "unborn" /\ state' = [state EXCEPT ![c] = "open"]
        /\ mine' = [mine EXCEPT ![c] = {request}] /\ scope' = scope
        /\ Succeeds(c, request, Disk(c, request))
        /\ Applies(c, request, Disk(c, request)) /\ writer' = c
    BY <1>4 DEF Construct, Succeeds
  <2>2. ASSUME NEW d \in Clients \ {c} PROVE OwnOf(d)'
    BY <2>1, WriteSparesOthers DEF OwnInv, TypeOK
  <2>3. OwnOf(c)'
    BY <2>1, WriteTakes DEF OwnInv, TypeOK
  <2> QED
    BY <2>1, <2>2, <2>3 DEF OwnInv, TypeOK
<1>5. ASSUME NEW c \in Clients, NEW request \in Requests,
             ConstructThrows(c, request)
      PROVE  OwnInv'
  <2>1. /\ state[c] = "unborn" /\ state' = [state EXCEPT ![c] = "threw"]
        /\ mine' = mine /\ scope' = scope
        /\ Throws(c, request, Disk(c, request))
    BY <1>5 DEF ConstructThrows
  <2>2. ASSUME NEW d \in Clients \ {c} PROVE OwnOf(d)'
    BY <2>1, WriteSparesOthers DEF OwnInv, TypeOK
  <2>3. OwnOf(c)'
    BY <2>1 DEF OwnOf, TypeOK
  <2>4. writer' = Global
    BY <2>1, DistinctAssumption DEF Throws, OwnInv
  <2> QED
    BY <2>2, <2>3, <2>4 DEF OwnInv
<1>6. ASSUME NEW c \in Clients, NEW request \in Requests, StartTLS(c, request)
      PROVE  OwnInv'
  <2>1. /\ state[c] = "open" /\ state' = state /\ scope' = scope
        /\ \A d \in Clients \ {c} : mine'[d] = mine[d]
    BY <1>6 DEF StartTLS, TypeOK
  <2>2. Succeeds(c, request, exists') \/ Throws(c, request, exists')
    BY <1>6 DEF StartTLS
  <2>3. ASSUME NEW d \in Clients \ {c} PROVE OwnOf(d)'
    BY <2>1, <2>2, WriteSparesOthers DEF OwnInv
  <2>4. request \in mine'[c]
    BY <1>6 DEF StartTLS, TypeOK
  <2>5. CASE Succeeds(c, request, exists')
    <3>1. Applies(c, request, exists') /\ writer' = c
      BY <2>5 DEF Succeeds
    <3>2. OwnOf(c)'
      BY <2>1, <2>4, <3>1, WriteTakes DEF OwnInv
    <3> QED
      BY <2>1, <2>3, <3>1, <3>2 DEF OwnInv
  <2>6. CASE Throws(c, request, exists') /\ ~Succeeds(c, request, exists')
    <3>1. mine[c] \subseteq mine'[c]
      BY <1>6, <2>6 DEF StartTLS, TypeOK
    <3>2. OwnOf(c)'
      BY <2>1, <2>4, <2>6, <3>1, ThrowKeepsOwn DEF OwnInv
    <3>3. writer' \in {c, Global}
      BY <2>6 DEF Throws
    <3> QED
      BY <2>1, <2>3, <3>2, <3>3 DEF OwnInv
  <2> QED
    BY <2>2, <2>5, <2>6
<1> QED
  BY <1>1, <1>2, <1>3, <1>4, <1>5, <1>6 DEF Next

LEMMA EffectiveIsOwn ==
  ASSUME NEW c \in Clients, OwnOf(c), state[c] # "threw",
         scope = "handle" \/ writer = c
  PROVE  Own(c, Effective(c))
<1>1. PICK x : x = Honoured(c)
  OBVIOUS
<1> QED
  BY <1>1 DEF OwnOf, Effective

\* What the TLS connection of a client is made from is its own.
LEMMA ConnectsOwn ==
  ASSUME TypeOK, OwnInv, OwnInv', [Next]_vars, NEW c \in Clients, Connects(c)
  PROVE  scope' = scope /\ (scope = "handle" \/ writer' = c => Own(c, used[c])')
<1>1. CASE UseTls(c)
  <2>1. UNCHANGED <<scope, writer, mine, state>> /\ state[c] = "open"
        /\ used'[c] = Effective(c)
    BY <1>1 DEF UseTls, Connects, TypeOK
  <2>2. SUFFICES ASSUME scope = "handle" \/ writer = c PROVE Own(c, used[c])'
    BY <2>1
  <2>3. PICK setting : setting = Effective(c) /\ Own(c, setting)
    BY <2>1, <2>2, EffectiveIsOwn DEF OwnInv
  <2>4. Own(c, setting)'
    BY <2>1, <2>3, OwnGrows
  <2> QED
    BY <2>1, <2>3, <2>4 DEF Own
<1>2. ASSUME NEW request \in Requests, StartTLS(c, request)
      PROVE  scope' = scope /\ (scope = "handle" \/ writer' = c => Own(c, used[c])')
  <2>1. scope' = scope /\ state'[c] = "open" /\ used'[c] = Effective(c)'
    BY <1>2 DEF StartTLS, Connects, TypeOK
  <2>2. SUFFICES ASSUME scope = "handle" \/ writer' = c PROVE Own(c, used[c])'
    BY <2>1
  <2>3. PICK x : x = Honoured(c)'
    OBVIOUS
  <2>4. /\ Own(c, options[x])'
        /\ context'[x] # NoContext => Own(c, context[x])'
    BY <2>1, <2>2, <2>3 DEF OwnInv, OwnOf
  <2>5. used'[c] = IF context'[x] # NoContext THEN context'[x] ELSE options'[x]
    BY <2>1, <2>3 DEF Effective
  <2> QED
    BY <2>4, <2>5 DEF Own
<1>3. UseTls(c) \/ \E request \in Requests : StartTLS(c, request)
  <2>1. used'[c] # used[c]
    BY DEF Connects
  <2>2. ASSUME NEW d \in Clients, UseTls(d) PROVE d = c
    BY <2>1, <2>2 DEF UseTls, TypeOK
  <2>3. ASSUME NEW d \in Clients, NEW request \in Requests, StartTLS(d, request)
        PROVE  d = c
    BY <2>1, <2>3 DEF StartTLS, TypeOK
  <2> QED
    BY <2>1, <2>2, <2>3
    DEF Next, vars, ConstructPlain, Construct, ConstructThrows, Unbind, FinishUnbind
<1> QED
  BY <1>1, <1>2, <1>3

LEMMA OwnInvariant == Spec => [](TypeOK /\ OwnInv)
<1>1. Inv => TypeOK
  BY DEF Inv
<1> QED
  BY <1>1, Invariant, InitOwn, StepOwn, PTL DEF Spec

\* For any number of clients: a TLS connection verifies its server as its own
\* client asked, with per-handle options always, and with global ones unless
\* another client has set an option since.
THEOREM VerificationIsOwn == Spec => VerifyIsOwn
<1>1. ASSUME TypeOK, OwnInv, OwnInv', [Next]_vars
      PROVE  [\A c \in Clients :
               Connects(c) /\ (scope = "handle" \/ writer' = c) =>
                 \E request \in mine'[c] : used'[c].verify = request.verify]_vars
  BY <1>1, ConnectsOwn DEF Own
<1> QED
  BY <1>1, OwnInvariant, PTL DEF Spec, VerifyIsOwn

\* For any number of clients: it trusts the file its own client named, and with
\* per-handle options never that of another.
THEOREM TrustedMaterialIsOwn == Spec => MaterialIsOwn
<1>1. ASSUME TypeOK, OwnInv, OwnInv', [Next]_vars
      PROVE  [\A c \in Clients :
               Connects(c) =>
                 \/ \E request \in mine'[c] :
                      request.ca # "none" /\ used'[c].file = Names(c, request)
                 \/ /\ \E request \in mine'[c] : request.ca = "none"
                    /\ scope = "handle" =>
                         used'[c].file = NoFile \/ used'[c].file.owner = c
                 \/ scope = "global" /\ writer' # c]_vars
  <2> SUFFICES ASSUME NEW c \in Clients, Connects(c),
                      scope = "handle" \/ writer' = c
               PROVE  \/ \E request \in mine'[c] :
                           request.ca # "none" /\ used'[c].file = Names(c, request)
                      \/ /\ \E request \in mine'[c] : request.ca = "none"
                         /\ scope = "handle" =>
                              used'[c].file = NoFile \/ used'[c].file.owner = c
    BY <1>1 DEF TypeOK
  <2>1. Own(c, used[c])' /\ scope' = scope
    BY <1>1, ConnectsOwn
  <2> QED
    BY <2>1 DEF Own, Names
<1> QED
  BY <1>1, OwnInvariant, PTL DEF Spec, MaterialIsOwn
===============================================================================
