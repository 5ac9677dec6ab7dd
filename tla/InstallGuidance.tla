--------------------------- MODULE InstallGuidance ---------------------------
(***************************************************************************)
(* src/install-guidance.cjs: what the install hook prints when it cannot   *)
(* build, namely which packages to install with which package manager.  On *)
(* Linux that hangs on /etc/os-release, which is a sequence of lines, each *)
(* a sequence of tokens: the special characters and words.                 *)
(***************************************************************************)
EXTENDS Integers, Texts

\* No /etc/os-release, or none that can be read.
Unreadable == <<>>

Families == <<{"alpine"}, {"debian", "ubuntu"}, {"rhel", "fedora", "centos", "rocky", "almalinux"}>>

-------------------------------------------------------------------------------
(* parseOsRelease *)

IsAssignment(line) ==
  /\ Trim(line) # <<>> /\ Head(Trim(line)) # "#"
  /\ Positions(line, "=") # {}

Equals(line) == Min(Positions(line, "="))
KeyOf(line) == Trim(SubSeq(line, 1, Equals(line) - 1))

DoubleQuote == "\""

UnquotedDouble(value) ==
  IF Len(value) >= 2 /\ Head(value) = DoubleQuote /\ Last(value) = DoubleQuote
  THEN SubSeq(value, 2, Len(value) - 1)
  ELSE value
Unquoted(value) ==
  IF Len(value) >= 2 /\ Head(value) \in {DoubleQuote, "'"} /\ Last(value) = Head(value)
  THEN SubSeq(value, 2, Len(value) - 1)
  ELSE value

\* The last assignment of a key counts; no assignment is like an empty one.
ValueOf(lines, key) ==
  LET assignments == {i \in DOMAIN lines : IsAssignment(lines[i]) /\ KeyOf(lines[i]) = <<key>>}
      line == lines[Max(assignments)]
  IN IF assignments = {} THEN <<>>
     ELSE Unquoted(Trim(SubSeq(line, Equals(line) + 1, Len(line))))

\* toLowerCase().
Lowered(token) == IF token = "Debian" THEN "debian" ELSE token
LowerCase(s) == [i \in DOMAIN s |-> Lowered(s[i])]

-------------------------------------------------------------------------------
(* detectLinuxDistro, getPlatformInstallGuidance *)

DetectLinuxDistro(system) ==
  IF system.alpineRelease
  THEN [id |-> <<"alpine">>, idLike |-> <<>>]
  ELSE [id     |-> LowerCase(ValueOf(system.osRelease, "ID")),
        idLike |-> LowerCase(ValueOf(system.osRelease, "ID_LIKE"))]

MatchesDistro(details, names) ==
  \E field \in {details.id, details.idLike} :
    \E word \in Range(Split(field, Blank)) : \E name \in names : word = <<name>>

\* Which of the families, 0 for none.
Family(system) ==
  LET matching == {k \in DOMAIN Families : MatchesDistro(DetectLinuxDistro(system), Families[k])}
  IN IF matching = {} THEN 0 ELSE Min(matching)

PlatformInstallGuidance(system) ==
  CASE system.platform = "darwin" -> [commands |-> "brew", notes |-> <<"keg-only">>]
    [] system.platform = "win32"  -> [commands |-> "npm", notes |-> <<"msvc", "wldap32">>]
    [] system.platform = "linux"  ->
         [commands |-> <<"packages", "apk", "apt-get", "dnf">>[Family(system) + 1],
          notes    |-> IF Family(system) = 2 THEN <<"runtime only">> ELSE <<>>]
    [] OTHER                      -> [commands |-> "libraries", notes |-> <<>>]

\* The lines that are printed, by what they say.
FormatInstallGuidance(system, includeGssapi) ==
  LET guidance == PlatformInstallGuidance(system)
      gssapi == IF system.platform = "win32" THEN "security stack" ELSE "sasl plugin"
  IN <<guidance.commands>> \o (IF includeGssapi THEN <<gssapi>> ELSE <<>>) \o guidance.notes

-------------------------------------------------------------------------------
(* os-release(5) of a distribution: its ID and ID_LIKE in either order, with *)
(* or without quotes, among other lines. *)

Quotes(words) == {<<DoubleQuote>>, <<"'">>} \cup (IF Len(words) <= 1 THEN {<<>>} ELSE {})

Assignments(key, words) ==
  {<<key, "=">> \o quote \o Join([i \in DOMAIN words |-> <<words[i]>>], Blank) \o quote :
     quote \in Quotes(words)}

ReleaseOrders(distribution) ==
  LET ids == Assignments("ID", <<distribution.id>>)
      likes == Assignments("ID_LIKE", distribution.likes)
  IN IF distribution.likes = <<>> THEN {<<id>> : id \in ids}
     ELSE {<<id, like>> : id \in ids, like \in likes}
            \cup {<<like, id>> : id \in ids, like \in likes}

ReleaseTexts(distribution, others) ==
  {before \o lines : before \in others, lines \in ReleaseOrders(distribution)}
    \cup {lines \o after : after \in others, lines \in ReleaseOrders(distribution)}

\* The names of a distribution and its relatives, and who installs its packages.
Words == STRING \ {Blank, DoubleQuote, "'", "=", "#"}

KnownAs(distribution) == {Lowered(word) : word \in {distribution.id} \cup Range(distribution.likes)}

LinuxManager(distribution) ==
  LET known == {k \in DOMAIN Families : Families[k] \cap KnownAs(distribution) # {}}
  IN IF distribution.alpineRelease THEN "apk"
     ELSE IF known = {} THEN "packages" ELSE <<"apk", "apt-get", "dnf">>[Min(known)]

ManagerOf(distribution) ==
  CASE distribution.platform = "darwin" -> "brew"
    [] distribution.platform = "win32"  -> "npm"
    [] distribution.platform = "linux"  -> LinuxManager(distribution)
    [] OTHER                            -> "libraries"

IsDistribution(distribution) ==
  /\ distribution.id \in Words /\ distribution.likes \in Seq(Words)
  /\ distribution.manager = ManagerOf(distribution)

\* Lines that say nothing of the distribution.
IsOther(lines) ==
  /\ lines \in Seq(Seq(STRING))
  /\ \A i \in DOMAIN lines : IsAssignment(lines[i]) => KeyOf(lines[i]) \notin {<<"ID">>, <<"ID_LIKE">>}

\* Only os-release tells which distribution it is.
NeedsRelease(distribution) == distribution.platform = "linux" /\ ~distribution.alpineRelease
===============================================================================
