---------------------------- MODULE NativeInstall ----------------------------
(***************************************************************************)
(* The npm install hook (scripts/install.cjs, scripts/build-native.cjs)    *)
(* and the loader that finds the addon afterwards (src/native-loader.cjs), *)
(* over the files either may find; and how an addon that was built gets    *)
(* into the package (scripts/create-prebuild.cjs) and onto another machine.*)
(***************************************************************************)
EXTENDS Integers

CONSTANTS Roots,   \* projectRoots(): 1 is the package, 2 its parent
          Triples  \* platformTriples(): 2 on Linux, 1 elsewhere

ASSUME RootsAssumption == Roots \in Nat \ {0} /\ Triples \in Nat \ {0}

VARIABLES
  env,      \* the flags the hook and the loader read
  envFile,  \* the file LDAP_NATIVE_NATIVE_PATH names
  file,     \* the candidates, in the order they are tried
  pc,       \* "start", "building", "ok" (exit 0), "failed" (exit 1)
  how,      \* how it ended: "", "skipped", "found", "built", "attempted"
  shipped   \* history: the package came from a machine like this, or another

vars == <<env, envFile, file, pc, how, shipped>>

\* A file that does not load misses a shared library (isDynamicLinkFailure) or
\* was built for something else.
FileStates == {"absent", "loads", "unlinked", "incompatible"}

PerRoot == 2 + 2 * Triples
Candidates == 1 .. Roots * PerRoot

\* For each root: build/Release, build/Debug, then for each triple its
\* prebuild and its platform package.
RootOf(i) == ((i - 1) \div PerRoot) + 1
PlaceOf(i) ==
  LET k == ((i - 1) % PerRoot) + 1 IN
  IF k = 1 THEN "release" ELSE IF k = 2 THEN "debug"
  ELSE IF k % 2 = 1 THEN "prebuild" ELSE "package"

Release == 1  \* where node-gyp puts the addon
Debug == 2

TypeOK ==
  /\ env \in [skip : BOOLEAN, mock : BOOLEAN, force : BOOLEAN]
  /\ envFile \in FileStates
  /\ file \in [Candidates -> FileStates]
  /\ pc \in {"start", "building", "ok", "failed"}
  /\ how \in {"", "skipped", "found", "built", "attempted"}
  /\ (how = "") <=> (pc \in {"start", "building"})
  /\ shipped \in {"no", "like", "unlike"}

Init ==
  /\ env \in [skip : BOOLEAN, mock : BOOLEAN, force : BOOLEAN]
  /\ envFile \in FileStates
  /\ file \in [Candidates -> FileStates]
  /\ pc = "start"
  /\ how = ""
  /\ shipped = "no"

-------------------------------------------------------------------------------
(* src/native-loader.cjs *)

Present == {i \in Candidates : file[i] # "absent"}

\* resolveNativePath: 0 is the file of the environment, the candidates follow
\* in order; {} is null.
ResolvePackageFirst ==
  LET packages == {i \in Present : PlaceOf(i) = "package"}
      tried == IF packages # {} THEN packages ELSE Present
  IN IF envFile # "absent" THEN {0} ELSE {i \in tried : \A j \in tried : i <= j}
ResolveNativePath ==
  IF envFile # "absent" THEN {0}
  ELSE {i \in Present : \A j \in Present : i <= j}

StateOf(i) == IF i = 0 THEN envFile ELSE file[i]
Loads(i) == StateOf(i) = "loads"

\* loadNative: the mock, the addon, or an error.
LoadNative ==
  IF env.mock THEN "mock"
  ELSE IF \E i \in ResolveNativePath : Loads(i) THEN "addon"
  ELSE "error"

-------------------------------------------------------------------------------
(* scripts/install.cjs *)

SkipInstall == env.skip \/ env.mock

Skip ==
  /\ pc = "start" /\ SkipInstall
  /\ pc' = "ok" /\ how' = "skipped"
  /\ UNCHANGED <<env, envFile, file, shipped>>

\* A file is there: it loads, or the hook gives guidance and fails.
UseFoundUnchecked ==
  /\ pc = "start" /\ ~SkipInstall /\ ~env.force
  /\ ResolveNativePath # {}
  /\ pc' = "ok" /\ how' = "found"
  /\ UNCHANGED <<env, envFile, file, shipped>>
UseFound ==
  /\ pc = "start" /\ ~SkipInstall /\ ~env.force
  /\ \E i \in ResolveNativePath :
       pc' = IF Loads(i) THEN "ok" ELSE "failed"
  /\ how' = "found"
  /\ UNCHANGED <<env, envFile, file, shipped>>

BuildAnyway ==
  /\ pc = "start" /\ ~SkipInstall
  /\ pc' = "building"
  /\ UNCHANGED <<env, envFile, file, how, shipped>>
Build ==
  /\ pc = "start" /\ ~SkipInstall
  /\ env.force \/ ResolveNativePath = {}
  /\ pc' = "building"
  /\ UNCHANGED <<env, envFile, file, how, shipped>>

\* node-gyp rebuild removes build/ first.
Cleaned == [file EXCEPT ![Release] = "absent", ![Debug] = "absent"]

\* It ends with status 0.  The hook exits 0 on that alone: nobody loads what was
\* built, which may miss a library that it was linked with.
BuildSucceeds ==
  /\ pc = "building"
  /\ \E built \in {"loads", "unlinked"} :
       file' = [Cleaned EXCEPT ![Release] = built]
  /\ pc' = "ok" /\ how' = "built"
  /\ UNCHANGED <<env, envFile, shipped>>

\* It fails before or after it removed the old build.
BuildFails ==
  /\ pc = "building"
  /\ file' \in {file, Cleaned}
  /\ pc' = "failed" /\ how' = "attempted"
  /\ UNCHANGED <<env, envFile, shipped>>

-------------------------------------------------------------------------------
(* scripts/create-prebuild.cjs, package.json *)

\* The addon is copied to the prebuilds of every triple of the machine.
Staged(i) == i \in Candidates /\ RootOf(i) = 1 /\ PlaceOf(i) = "prebuild"

Stage ==
  /\ pc \in {"ok", "failed"} /\ file[Release] # "absent"
  /\ file' = [i \in Candidates |-> IF Staged(i) THEN file[Release] ELSE file[i]]
  /\ UNCHANGED <<env, envFile, pc, how, shipped>>

\* The package holds prebuilds/ and not build/. On a machine of the same kind a
\* prebuild misses its libraries or does what it did; on one with another libc
\* it is under a triple of that machine only if it was not staged for a libc,
\* and may do anything. The other files are that machine's.
Unshipped == {i \in Candidates : RootOf(i) = 1 /\ PlaceOf(i) \in {"release", "debug"}}

Arrives(i, machine, there) ==
  Staged(i) =>
    IF file[i] = "absent" THEN there = "absent"
    ELSE IF machine = "like"
    THEN there = file[i] \/ (file[i] = "loads" /\ there = "unlinked")
    ELSE (there = "absent") <=> (i = Debug + 1)

Publish(machine) ==
  /\ pc \in {"ok", "failed"} /\ shipped = "no"
  /\ \A i \in Candidates : Staged(i) => file[i] = "loads"
  /\ \E there \in [Candidates \ Unshipped -> FileStates] :
       /\ \A i \in DOMAIN there : Arrives(i, machine, there[i])
       /\ file' = [i \in Candidates |-> IF i \in Unshipped THEN "absent" ELSE there[i]]
  /\ env' \in [skip : {FALSE}, mock : {FALSE}, force : BOOLEAN]
  /\ envFile' = "absent"
  /\ pc' = "start" /\ how' = "" /\ shipped' = machine

Next ==
  \/ Skip \/ UseFound \/ Build \/ BuildSucceeds \/ BuildFails
  \/ Stage
  \/ \E machine \in {"like", "unlike"} : Publish(machine)

Spec == Init /\ [][Next]_vars

-------------------------------------------------------------------------------
(* Properties *)

\* When the hook exits 0 without being told to skip, the loader then takes the
\* file the hook had in mind -- unless a build was forced while
\* LDAP_NATIVE_NATIVE_PATH names another file, which the loader prefers to what
\* was built.  A file that was found loads; what was built is what the loader
\* takes, and it loads or misses a library.
InstalledLoads ==
  pc = "ok" /\ how # "skipped" /\ (env.force => envFile = "absent") =>
    /\ how = "found" => LoadNative = "addon"
    /\ how = "built" => /\ ResolveNativePath = {Release}
                        /\ file[Release] # "unlinked" => LoadNative = "addon"

\* An install that is not told to build never takes away an addon that loaded,
\* nor does staging it: a build, which begins by removing the old one, is for
\* those who have nothing (README.md:117-119).
KeepsWhatLoads ==
  [][LoadNative = "addon" /\ ~env.force /\ shipped' = shipped => LoadNative' = "addon"]_vars

\* On a machine like the one it was built and staged on, a package is installed
\* from its own prebuild, whatever platform packages are installed beside it:
\* nothing is built, and the exit code says whether that prebuild loads.
ShippedIsUsed ==
  shipped = "like" /\ ~env.force /\ pc # "start" =>
    /\ how = "found"
    /\ ResolveNativePath = {Debug + 1}
    /\ pc = "ok" <=> file[Debug + 1] = "loads"
===============================================================================
