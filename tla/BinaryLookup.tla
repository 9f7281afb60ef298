------------------------------ MODULE BinaryLookup ------------------------------
(***************************************************************************)
(* Which xray a start runs (src/src/xray.rs): the one the PATH names, as   *)
(* told by which or where, and on Windows else the first of the places     *)
(* installers use.  It is looked up to see whether there is one, and again *)
(* when it is spawned; installers may run in between.                      *)
(***************************************************************************)
EXTENDS Naturals, Sequences, SequencesExt

CONSTANTS
  Windows,      \* whether this is the Windows build
  Fixed,        \* the places of ProgramFiles and Programs, in their order
  Packages,     \* what the directories of WinGet may be: sequences of kinds
  Nil

(***************************************************************************)
(* The kinds of an entry of the package directory, in the order the system *)
(* lists them: the binary itself, a directory with it in it, one with it   *)
(* one level down, one without it, and one that cannot be listed.          *)
(***************************************************************************)
Kinds == {"binary", "direct", "deep", "empty", "unreadable"}
Holding == {"binary", "direct", "deep"}

\* What a lookup may give: the n-th place of those of its kind.
Places == {<<"path">>, <<"bare">>} \cup ({"fixed"} \X Nat) \cup ({"package"} \X Nat)

\* What the constants must be: without Windows the PATH is all there is.
ConstantsTyped ==
  /\ Fixed \in Seq(STRING) /\ Packages \subseteq Seq(Kinds)
  /\ ~Windows => Fixed = <<>> /\ Packages = {<<>>}
  /\ Nil \notin Places \cup {"notInstalled", "failed", "started"}

VARIABLES
  tool,         \* whether which or where can be run
  onPath,       \* whether a directory of the PATH holds an xray
  fixed,        \* the places of Fixed that hold one
  packages,     \* the entries of the package directory
  pc, found,    \* "check", "spawn", "done"; the place of the last lookup
  changed,      \* history: an installer ran since the check
  outcome       \* Nil, "notInstalled", "failed", "started"

vars == <<tool, onPath, fixed, packages, pc, found, changed, outcome>>

-----------------------------------------------------------------------------
\* find_file_in_children, which gives up at a directory it cannot list.
FindInChildren(entries) ==
  LET i == SelectInSeq(entries, LAMBDA k : k \in Holding \cup {"unreadable"})
  IN  IF i = 0 THEN Nil ELSE IF entries[i] = "unreadable" THEN Nil ELSE <<"package", i>>

CommonLocation ==
  LET i == SelectInSeq(Fixed, LAMBDA p : p \in fixed)
  IN  IF i # 0 THEN <<"fixed", i>> ELSE FindInChildren(packages)

\* resolve_binary of a bare name.
ResolveBinary == IF tool /\ onPath THEN <<"path">> ELSE CommonLocation

\* The bug of a spawn that leaves the lookup to the system.
FaultySpawned == <<"bare">>
Spawned == IF ResolveBinary = Nil THEN <<"bare">> ELSE ResolveBinary

-----------------------------------------------------------------------------
Installations ==
  /\ onPath \in BOOLEAN
  /\ fixed \in SUBSET Range(Fixed)
  /\ packages \in Packages

Init ==
  /\ Installations
  /\ tool \in (IF Windows THEN {TRUE} ELSE BOOLEAN)
  /\ pc = "check" /\ found = Nil /\ changed = FALSE /\ outcome = Nil

\* ensure_installed, before anything else is done.
EnsureInstalled ==
  /\ pc = "check"
  /\ found' = ResolveBinary
  /\ \/ ResolveBinary = Nil /\ pc' = "done" /\ outcome' = "notInstalled"
     \/ ResolveBinary # Nil /\ pc' = "spawn" /\ UNCHANGED outcome
  /\ UNCHANGED <<tool, onPath, fixed, packages, changed>>

\* An installer or an update, while subscriptions are read and servers tried.
Installer ==
  /\ pc = "spawn" /\ ~changed
  /\ onPath' \in BOOLEAN /\ fixed' \in SUBSET Range(Fixed) /\ packages' \in Packages
  /\ changed' = TRUE
  /\ UNCHANGED <<tool, pc, found, outcome>>

\* The bare name is left to the system, which searches the PATH itself.
Spawn ==
  /\ pc = "spawn" /\ pc' = "done"
  /\ found' = Spawned
  /\ outcome' = IF Spawned = <<"bare">> /\ ~onPath THEN "failed" ELSE "started"
  /\ UNCHANGED <<tool, onPath, fixed, packages, changed>>

Next == EnsureInstalled \/ Installer \/ Spawn

Spec == Init /\ [][Next]_vars

-----------------------------------------------------------------------------
\* A lookup gives a place there is.
TypeOK ==
  /\ \/ found \in {Nil, <<"path">>, <<"bare">>}
     \/ found \in {"fixed"} \X DOMAIN Fixed
     \/ found \in {"package"} \X (Nat \ {0})
  /\ outcome \in {Nil, "notInstalled", "failed", "started"} /\ pc \in {"check", "spawn", "done"}

\* What runs is what is preferred at the time it is spawned, not at the time
\* of the check: a place of the PATH before the others, an installer's own
\* directory before a WinGet package, an entry before a later one (xray.rs:33,
\* xray.rs:796).
SpawnsThePreferred ==
  outcome = "started" =>
    CASE found \in {<<"path">>, <<"bare">>} -> onPath
      [] found[1] = "fixed" ->
           /\ ~onPath /\ Fixed[found[2]] \in fixed
           /\ \A i \in 1..(found[2] - 1) : Fixed[i] \notin fixed
      [] found[1] = "package" ->
           /\ ~onPath /\ fixed = {} /\ packages[found[2]] \in Holding
           /\ \A i \in 1..(found[2] - 1) : packages[i] \notin Holding

\* A start that got past the check does not come to nothing at the spawn, the
\* tunnel and the old instance being down by then, unless the installation
\* itself changed (main.rs:1097, xray.rs:796).
CheckHolds == outcome = "failed" => changed
=============================================================================
