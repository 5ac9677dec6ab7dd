------------------------- MODULE NativeInstall_proofs -------------------------
(***************************************************************************)
(* Proofs of the properties of NativeInstall, for any number of roots and  *)
(* triples.  They rest on one fact about the order of the loader: the      *)
(* place where node-gyp builds comes first, so what is there is what is    *)
(* loaded, and what create-prebuild stages elsewhere does not change that. *)
(***************************************************************************)
EXTENDS NativeInstall, TLAPS

\* A build is only under way for those who asked for it or who have nothing.
BuildInv ==
  /\ pc = "building" =>
       /\ ~SkipInstall
       /\ env.force \/ ResolveNativePath = {}
  /\ how \in {"found", "built"} => ~env.mock

\* A package that arrived on a machine like its own holds its prebuild, and no
\* build until one is forced.
ShippedInv ==
  shipped = "like" /\ ~env.force =>
    /\ ~SkipInstall
    /\ envFile = "absent"
    /\ file[Release] = "absent" /\ file[Debug] = "absent"
    /\ file[Debug + 1] # "absent"

Inv == TypeOK /\ BuildInv /\ InstalledLoads /\ ShippedInv /\ ShippedIsUsed

-------------------------------------------------------------------------------
(* The order of the candidates *)

LEMMA AtLeastOneRoot ==
  /\ PerRoot \in Nat /\ PerRoot >= 4
  /\ Roots * PerRoot \in Nat /\ PerRoot <= Roots * PerRoot
<1>1. PerRoot \in Nat /\ PerRoot >= 4
  BY RootsAssumption DEF PerRoot
<1>2. \A r \in Nat \ {0}, n \in Nat : n <= r * n
  <2>1. SUFFICES ASSUME NEW r \in Nat \ {0}, NEW n \in Nat PROVE n <= r * n
    OBVIOUS
  <2>2. r * n = (r - 1) * n + n /\ (r - 1) \in Nat
    OBVIOUS
  <2>3. (r - 1) * n \in Nat
    BY <2>2
  <2> QED
    BY <2>2, <2>3
<1> QED
  BY <1>1, <1>2, RootsAssumption

\* The first three candidates: the build of node-gyp, its debug build, and the
\* prebuild for the first triple.
LEMMA FirstCandidates ==
  /\ {Release, Debug, Debug + 1} \subseteq Candidates
  /\ ~Staged(Release) /\ ~Staged(Debug) /\ Staged(Debug + 1)
  /\ Release \in Unshipped /\ Debug \in Unshipped /\ Debug + 1 \notin Unshipped
<1>1. {Release, Debug, Debug + 1} \subseteq Candidates
  BY AtLeastOneRoot DEF Candidates, Release, Debug
<1>2. \A k \in 0 .. 2 : k % PerRoot = k /\ k \div PerRoot = 0
  BY AtLeastOneRoot, Z3
<1>3. /\ RootOf(Release) = 1 /\ PlaceOf(Release) = "release"
      /\ RootOf(Debug) = 1 /\ PlaceOf(Debug) = "debug"
      /\ RootOf(Debug + 1) = 1 /\ PlaceOf(Debug + 1) = "prebuild"
  BY <1>2 DEF RootOf, PlaceOf, Release, Debug
<1> QED
  BY <1>1, <1>3 DEF Staged, Unshipped

\* A build is found before everything but the file of the environment.
LEMMA BuildIsFirst ==
  ASSUME envFile = "absent", file[Release] # "absent"
  PROVE  ResolveNativePath = {Release}
<1>1. Release \in Present /\ \A i \in Present : Release <= i
  BY FirstCandidates DEF Present, Candidates, Release
<1>2. \A i \in Present : i <= Release => i = Release
  BY DEF Present, Candidates, Release
<1> QED
  BY <1>1, <1>2 DEF ResolveNativePath

\* Without builds, the prebuild for the first triple is found.
LEMMA PrebuildIsNext ==
  ASSUME envFile = "absent", file[Release] = "absent", file[Debug] = "absent",
         file[Debug + 1] # "absent"
  PROVE  ResolveNativePath = {Debug + 1}
<1>1. Debug + 1 \in Present /\ \A i \in Present : Debug + 1 <= i
  BY FirstCandidates DEF Present, Candidates, Release, Debug
<1>2. \A i \in Present : i <= Debug + 1 => i = Debug + 1
  BY <1>1 DEF Present, Candidates, Debug
<1> QED
  BY <1>1, <1>2 DEF ResolveNativePath
-------------------------------------------------------------------------------
(* The invariant *)

\* What a candidate loads after a step that touches neither the flags nor the
\* file of the environment, and leaves a build in place if there was one.
LEMMA StageKeepsLoader ==
  ASSUME TypeOK, Stage
  PROVE  /\ ResolveNativePath' = ResolveNativePath
         /\ file'[Release] = file[Release]
         /\ \A i \in ResolveNativePath : Loads(i)' <=> Loads(i)
         /\ LoadNative' = LoadNative
<1>1. file'[Release] = file[Release] /\ envFile' = envFile /\ env' = env
  BY FirstCandidates DEF Stage
<1>2. CASE envFile # "absent"
  <2>1. ResolveNativePath = {0} /\ ResolveNativePath' = {0}
    BY <1>1, <1>2 DEF ResolveNativePath
  <2>2. Loads(0)' <=> Loads(0)
    BY <1>1 DEF Loads, StateOf
  <2> QED
    BY <1>1, <2>1, <2>2 DEF LoadNative
<1>3. CASE envFile = "absent"
  <2>1. ResolveNativePath = {Release}
    BY <1>3, BuildIsFirst DEF Stage
  <2>2. ResolveNativePath' = {Release}
    <3>1. Release \in Present' /\ \A i \in Present' : Release <= i
      BY <1>1, FirstCandidates DEF Present, Candidates, Release, Stage
    <3>2. \A i \in Present' : i <= Release => i = Release
      BY DEF Present, Candidates, Release
    <3> QED
      BY <1>1, <1>3, <3>1, <3>2 DEF ResolveNativePath
  <2>3. Loads(Release)' <=> Loads(Release)
    BY <1>1 DEF Loads, StateOf, Release
  <2> QED
    BY <1>1, <2>1, <2>2, <2>3 DEF LoadNative
<1> QED
  BY <1>2, <1>3

LEMMA InitInv == Init => Inv
  BY DEF Init, Inv, TypeOK, BuildInv, InstalledLoads, ShippedInv, ShippedIsUsed

LEMMA StepTypeOK == TypeOK /\ [Next]_vars => TypeOK'
<1> SUFFICES ASSUME TypeOK, [Next]_vars PROVE TypeOK'
  OBVIOUS
<1>1. CASE Skip
  BY <1>1 DEF TypeOK, Skip
<1>2. CASE UseFound
  BY <1>2 DEF TypeOK, UseFound
<1>3. CASE Build
  BY <1>3 DEF TypeOK, Build
<1>4. CASE BuildSucceeds
  BY <1>4, FirstCandidates DEF TypeOK, BuildSucceeds, Cleaned, FileStates
<1>5. CASE BuildFails
  BY <1>5, FirstCandidates DEF TypeOK, BuildFails, Cleaned, FileStates
<1>6. CASE Stage
  BY <1>6, FirstCandidates DEF TypeOK, Stage
<1>7. ASSUME NEW machine \in {"like", "unlike"}, Publish(machine)
      PROVE  TypeOK'
  <2>1. file' \in [Candidates -> FileStates]
    BY <1>7 DEF Publish, FileStates
  <2>2. env' \in [skip : BOOLEAN, mock : BOOLEAN, force : BOOLEAN]
    BY <1>7 DEF Publish
  <2> QED
    BY <1>7, <2>1, <2>2 DEF TypeOK, Publish, FileStates
<1>8. CASE UNCHANGED vars
  BY <1>8 DEF TypeOK, vars
<1> QED
  BY <1>1, <1>2, <1>3, <1>4, <1>5, <1>6, <1>7, <1>8 DEF Next

\* An install that built: the build is in place, and nothing named by the
\* environment is preferred to it.
LEMMA BuiltIsTaken ==
  ASSUME TypeOK, BuildInv, BuildSucceeds, env.force => envFile = "absent"
  PROVE  /\ ResolveNativePath' = {Release}
         /\ file'[Release] # "unlinked" => LoadNative' = "addon"
<1>1. envFile = "absent" /\ ~env.mock
  BY DEF BuildSucceeds, BuildInv, SkipInstall, ResolveNativePath
<1>2. file'[Release] \in {"loads", "unlinked"}
  BY FirstCandidates DEF BuildSucceeds, Cleaned, TypeOK, Release, Debug
<1>3. ResolveNativePath' = {Release}
  <2>1. Release \in Present' /\ \A i \in Present' : Release <= i
    BY <1>2, FirstCandidates DEF Present, Candidates, Release
  <2>2. \A i \in Present' : i <= Release => i = Release
    BY DEF Present, Candidates, Release
  <2> QED
    BY <1>1, <2>1, <2>2 DEF ResolveNativePath, BuildSucceeds
<1>4. file'[Release] # "unlinked" => Loads(Release)'
  BY <1>2 DEF Loads, StateOf, Release
<1> QED
  BY <1>1, <1>3, <1>4 DEF LoadNative, BuildSucceeds

LEMMA StepBuildInv == Inv /\ [Next]_vars => BuildInv'
<1> SUFFICES ASSUME Inv, [Next]_vars PROVE BuildInv'
  OBVIOUS
<1> USE DEF BuildInv
<1>1. CASE Skip
  BY <1>1 DEF Skip, Inv
<1>2. CASE UseFound
  BY <1>2 DEF UseFound, Inv, SkipInstall
<1>3. CASE Build
  BY <1>3 DEF Build, Inv, TypeOK, SkipInstall, ResolveNativePath, Present
<1>4. CASE BuildSucceeds
  BY <1>4 DEF BuildSucceeds, Inv, SkipInstall
<1>5. CASE BuildFails
  BY <1>5 DEF BuildFails, Inv
<1>6. CASE Stage
  BY <1>6 DEF Stage, Inv
<1>7. ASSUME NEW machine \in {"like", "unlike"}, Publish(machine)
      PROVE  BuildInv'
  BY <1>7 DEF Publish
<1>8. CASE UNCHANGED vars
  BY <1>8 DEF vars, Inv, SkipInstall, ResolveNativePath, Present
<1> QED
  BY <1>1, <1>2, <1>3, <1>4, <1>5, <1>6, <1>7, <1>8 DEF Next

LEMMA StepInstalledLoads == Inv /\ [Next]_vars => InstalledLoads'
<1> SUFFICES ASSUME Inv, [Next]_vars PROVE InstalledLoads'
  OBVIOUS
<1>1. CASE Skip
  BY <1>1 DEF Skip, InstalledLoads
<1>2. CASE UseFound
  <2>1. ~env.mock /\ env' = env /\ envFile' = envFile /\ file' = file
    BY <1>2 DEF UseFound, SkipInstall
  <2>2. ASSUME pc' = "ok" PROVE LoadNative' = "addon"
    BY <1>2, <2>1, <2>2
    DEF UseFound, LoadNative, ResolveNativePath, Present, Loads, StateOf
  <2> QED
    BY <1>2, <2>2 DEF UseFound, InstalledLoads
<1>3. CASE Build
  BY <1>3 DEF Build, InstalledLoads
<1>4. CASE BuildSucceeds
  <2>1. env' = env /\ envFile' = envFile
    BY <1>4 DEF BuildSucceeds
  <2> QED
    BY <1>4, <2>1, BuiltIsTaken DEF Inv, InstalledLoads, BuildSucceeds
<1>5. CASE BuildFails
  BY <1>5 DEF BuildFails, InstalledLoads
<1>6. CASE Stage
  <2>1. /\ LoadNative' = LoadNative /\ ResolveNativePath' = ResolveNativePath
        /\ file'[Release] = file[Release]
    BY <1>6, StageKeepsLoader DEF Inv
  <2> QED
    BY <1>6, <2>1 DEF Inv, InstalledLoads, Stage
<1>7. ASSUME NEW machine \in {"like", "unlike"}, Publish(machine)
      PROVE  InstalledLoads'
  BY <1>7 DEF Publish, InstalledLoads
<1>8. CASE UNCHANGED vars
  BY <1>8
  DEF vars, Inv, InstalledLoads, LoadNative, ResolveNativePath, Present, Loads,
      StateOf
<1> QED
  BY <1>1, <1>2, <1>3, <1>4, <1>5, <1>6, <1>7, <1>8 DEF Next

LEMMA StepShippedInv == Inv /\ [Next]_vars => ShippedInv'
<1> SUFFICES ASSUME Inv, [Next]_vars PROVE ShippedInv'
  OBVIOUS
<1> USE DEF ShippedInv, Inv, SkipInstall
<1>1. CASE Skip
  BY <1>1 DEF Skip
<1>2. CASE UseFound
  BY <1>2 DEF UseFound
<1>3. CASE Build
  BY <1>3 DEF Build
<1>4. ASSUME pc = "building" PROVE ~(shipped = "like" /\ ~env.force)
  <2>1. ASSUME shipped = "like", ~env.force PROVE FALSE
    <3>1. ResolveNativePath = {Debug + 1}
      BY <2>1, PrebuildIsNext
    <3> QED
      BY <1>4, <2>1, <3>1 DEF BuildInv
  <2> QED
    BY <2>1
<1>5. CASE BuildSucceeds
  BY <1>4, <1>5 DEF BuildSucceeds
<1>6. CASE BuildFails
  BY <1>4, <1>6 DEF BuildFails
<1>7. CASE Stage
  BY <1>7 DEF Stage
<1>8. ASSUME NEW machine \in {"like", "unlike"}, Publish(machine)
      PROVE  ShippedInv'
  <2>1. file'[Release] = "absent" /\ file'[Debug] = "absent"
    BY <1>8, FirstCandidates DEF Publish
  <2>2. ASSUME machine = "like" PROVE file'[Debug + 1] # "absent"
    <3>1. PICK there \in [Candidates \ Unshipped -> FileStates] :
            /\ \A i \in DOMAIN there : Arrives(i, machine, there[i])
            /\ file' = [i \in Candidates |->
                         IF i \in Unshipped THEN "absent" ELSE there[i]]
      BY <1>8 DEF Publish
    <3>2. Staged(Debug + 1) /\ file[Debug + 1] = "loads"
      BY <1>8, FirstCandidates DEF Publish
    <3>3. Arrives(Debug + 1, machine, there[Debug + 1])
      BY <3>1, FirstCandidates
    <3>4. there[Debug + 1] # "absent"
      BY <2>2, <3>2, <3>3 DEF Arrives
    <3> QED
      BY <3>1, <3>4, FirstCandidates
  <2> QED
    BY <1>8, <2>1, <2>2 DEF Publish
<1>9. CASE UNCHANGED vars
  BY <1>9 DEF vars
<1> QED
  BY <1>1, <1>2, <1>3, <1>5, <1>6, <1>7, <1>8, <1>9 DEF Next

LEMMA StepShippedIsUsed == Inv /\ [Next]_vars => ShippedIsUsed'
<1> SUFFICES ASSUME Inv, [Next]_vars,
                    shipped' = "like", ~env'.force, pc' # "start"
             PROVE  /\ how' = "found"
                    /\ ResolveNativePath' = {Debug + 1}
                    /\ pc' = "ok" <=> file'[Debug + 1] = "loads"
  BY DEF ShippedIsUsed
<1>1. ShippedInv'
  BY StepShippedInv
<1>2. ~\E machine \in {"like", "unlike"} : Publish(machine)
  BY DEF Publish
<1>3. shipped = "like" /\ ~env.force
  BY <1>2
  DEF Next, vars, Skip, UseFound, Build, BuildSucceeds, BuildFails, Stage
<1>4. ResolveNativePath = {Debug + 1}
  BY <1>3, PrebuildIsNext DEF Inv, ShippedInv
<1>5. ~SkipInstall /\ pc # "building" /\ file[Release] = "absent"
  BY <1>3, <1>4 DEF Inv, ShippedInv, BuildInv
<1>6. CASE UseFound
  <2>1. file' = file /\ how' = "found" /\ ResolveNativePath' = ResolveNativePath
    BY <1>6 DEF UseFound, ResolveNativePath, Present
  <2>2. pc' = "ok" <=> Loads(Debug + 1)
    BY <1>4, <1>6 DEF UseFound
  <2> QED
    BY <1>4, <2>1, <2>2 DEF Loads, StateOf, Debug
<1>7. CASE UNCHANGED vars
  BY <1>3, <1>4, <1>7 DEF vars, Inv, ShippedIsUsed, ResolveNativePath, Present
<1> QED
  BY <1>2, <1>3, <1>4, <1>5, <1>6, <1>7
  DEF Next, Skip, Build, BuildSucceeds, BuildFails, Stage

LEMMA StepInv == Inv /\ [Next]_vars => Inv'
  BY StepTypeOK, StepBuildInv, StepInstalledLoads, StepShippedInv,
     StepShippedIsUsed
  DEF Inv

THEOREM Invariant == Spec => []Inv
  BY InitInv, StepInv, PTL DEF Spec

\* Flags, files and outcomes keep the values the scripts give them.
THEOREM TypeCorrect == Spec => []TypeOK
<1>1. Inv => TypeOK
  BY DEF Inv
<1> QED
  BY Invariant, <1>1, PTL

\* For any number of roots and triples, when a hook that was not told to skip
\* exits 0: the loader loads the addon the hook found, or takes the one it built,
\* which loads unless it misses a library.
THEOREM ExitZeroMeansItIsTaken == Spec => []InstalledLoads
<1>1. Inv => InstalledLoads
  BY DEF Inv
<1> QED
  BY Invariant, <1>1, PTL

\* For any number of roots and triples: a package arrived on a machine like its
\* own is used as it was shipped.
THEOREM PrebuildIsUsed == Spec => []ShippedIsUsed
<1>1. Inv => ShippedIsUsed
  BY DEF Inv
<1> QED
  BY Invariant, <1>1, PTL

\* For any number of roots and triples: no install that is not told to build,
\* and no staging, takes away an addon that loaded.
THEOREM LoadingAddonIsKept == Spec => KeepsWhatLoads
<1>1. Inv /\ [Next]_vars =>
        [LoadNative = "addon" /\ ~env.force /\ shipped' = shipped =>
           LoadNative' = "addon"]_vars
  <2> SUFFICES ASSUME Inv, Next, LoadNative = "addon", ~env.force,
                      shipped' = shipped
               PROVE  LoadNative' = "addon"
    OBVIOUS
  <2>1. CASE Stage
    BY <2>1, StageKeepsLoader DEF Inv
  <2>2. pc # "building"
    BY DEF Inv, BuildInv, LoadNative
  <2>3. ~\E machine \in {"like", "unlike"} : Publish(machine)
    BY DEF Publish
  <2>4. CASE Skip \/ UseFound \/ Build
    <3>1. UNCHANGED <<env, envFile, file>>
      BY <2>4 DEF Skip, UseFound, Build
    <3> QED
      BY <3>1 DEF LoadNative, ResolveNativePath, Present, Loads, StateOf
  <2> QED
    BY <2>1, <2>2, <2>3, <2>4 DEF Next, BuildSucceeds, BuildFails
<1> QED
  BY Invariant, <1>1, PTL DEF Spec, KeepsWhatLoads
===============================================================================
