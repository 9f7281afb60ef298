------------------------------ MODULE TrustedPath ------------------------------
(***************************************************************************)
(* ensure_trusted_ancestry of src/src/config.rs: the walk over the         *)
(* directories and links of a path, judging each of them, while processes  *)
(* of other accounts go on using the entries that are theirs to change.    *)
(*                                                                         *)
(* The file system is external: "/" and a few nodes, each attached to a    *)
(* directory under a name or to nothing.  A node belongs to the account    *)
(* that runs corvex or to root ("own", the code never tells them apart),   *)
(* or to somebody else ("other").                                          *)
(***************************************************************************)
EXTENDS Naturals, Sequences, SequencesExt

CONSTANTS
    Slash, Nodes, Nil,   \* "/", whatever else exists, and nothing
    Names,               \* what entries are called
    Path,                \* components of the directory that is checked
    Modes,               \* permissions a directory may have
    Targets,             \* targets a link may have
    Trees,               \* where the nodes may be attached to begin with
    MaxLinks             \* MAX_ANCESTRY_SYMLINKS

Places == ((Nodes \cup {Slash}) \X Names) \cup {Nil}

\* Permissions of a directory: the sticky bit, write for others, write for the
\* group with what the lookups about that group answer, and its ACL: which
\* sorts of entries it has, or that it cannot be read.
AceKinds == {"deny", "mine", "readOnly", "others", "group", "illegible"}
ModeRecord ==
    [sticky : BOOLEAN, world : BOOLEAN, group : BOOLEAN,
     gidIsUid : BOOLEAN, posix : {"none", "stored", "error"},
     members : {"nobody", "somebody", "unnamed", "error"},
     acl : SUBSET AceKinds, aclError : BOOLEAN]

ConstantsTyped ==
    /\ Slash \notin Nodes /\ Nil \notin Nodes \cup {Slash} /\ ".." \notin Names
    /\ Path \in Seq(Names \cup {".."})
    /\ MaxLinks \in Nat
    /\ Trees \subseteq [Nodes -> Places]
    /\ Modes \subseteq ModeRecord

Owners == {"own", "other"}

\* Another account may give its own directory any mode at any time: one will do.
DirInfos == [kind : {"dir"}, uid : {"own"}, mode : Modes]
            \cup [kind : {"dir"}, uid : {"other"}, mode : {CHOOSE m \in Modes : TRUE}]
LinkInfos == [kind : {"link"}, uid : Owners, target : Targets]
FileInfos == [kind : {"file"}, uid : {"own"}]
Infos == DirInfos \cup LinkInfos \cup FileInfos

VARIABLES
    info,     \* what each node is
    at,       \* where it is attached: <<directory, name>>, or Nil
    pc,       \* "stat", "judge", "follow", "trusted", "refused"
    cur,      \* current: names of the directories resolved so far
    todo,     \* components still to walk, those of links included
    hops,     \* links followed
    seen,     \* what lstat has said of the next component
    disturbed \* history: another account has changed something meanwhile

fs == <<info, at>>
walk == <<pc, cur, todo, hops, seen>>
vars == <<fs, walk, disturbed>>

Dirs == {n \in Nodes \cup {Slash} : info[n].kind = "dir"}
Entry(d, name) ==
    IF \E n \in Nodes : at[n] = <<d, name>>
    THEN CHOOSE n \in Nodes : at[n] = <<d, name>>
    ELSE Nil
Parent(d) == IF d = Slash \/ at[d] = Nil THEN Slash ELSE at[d][1]

\* The nodes the kernel passes when it resolves a path from directory d, with
\* every link followed; Nil at the end if it leads nowhere.  `fuel' is the
\* kernel's own ELOOP.
RECURSIVE Trail(_, _, _)
Trail(d, comps, fuel) ==
    IF comps = <<>> THEN <<d>>
    ELSE IF d \notin Dirs THEN <<Nil>>
    ELSE IF Head(comps) = ".." THEN <<d>> \o Trail(Parent(d), Tail(comps), fuel)
    ELSE LET e == Entry(d, Head(comps)) IN
         IF e = Nil THEN <<d, Nil>>
         ELSE IF info[e].kind # "link" THEN <<d>> \o Trail(e, Tail(comps), fuel)
         ELSE IF fuel = 0 THEN <<d, e, Nil>>
         ELSE <<d, e>> \o Trail(IF info[e].target.absolute THEN Slash ELSE d,
                                info[e].target.comps \o Tail(comps), fuel - 1)

KernelLinks == 8
Kernel(comps) == Last(Trail(Slash, comps, KernelLinks))
Resolved == Kernel(Path)
Passed == Range(Trail(Slash, Path, KernelLinks)) \ {Nil}

\* lstat of cur/name: the directories on the way are resolved afresh.
Lstat(name) ==
    LET d == Kernel(cur) IN
    IF d = Nil \/ d \notin Dirs THEN Nil ELSE Entry(d, name)

-----------------------------------------------------------------------------
(* What other accounts can do *)

\* Whether somebody else may create entries in d.  What
\* cannot be established counts.
GroupIsOthers(m) == ~m.gidIsUid \/ m.posix # "none" \/ m.members # "nobody"
MayWrite(d) ==
    \/ info[d].uid = "other"
    \/ info[d].mode.world
    \/ info[d].mode.group /\ GroupIsOthers(info[d].mode)
    \/ info[d].mode.acl \cap {"others", "group", "illegible"} # {}
    \/ info[d].mode.aclError

\* The sticky bit keeps them from what is not theirs.
MayTake(n) ==
    /\ at[n] # Nil
    /\ LET d == at[n][1] IN
       /\ MayWrite(d)
       /\ info[d].mode.sticky => "other" \in {info[d].uid, info[n].uid}

\* Whether n is d or lies below it.
RECURSIVE Below(_, _)
Below(n, d) == n = d \/ (n \in Nodes /\ at[n] # Nil /\ Below(at[n][1], d))

Take(n) == MayTake(n) /\ at' = [at EXCEPT ![n] = Nil] /\ UNCHANGED info

Plant(n, d, name) ==
    /\ at[n] = Nil
    /\ d \in Dirs /\ MayWrite(d) /\ ~Below(d, n)
    /\ Entry(d, name) = Nil
    /\ at' = [at EXCEPT ![n] = <<d, name>>]
    /\ UNCHANGED info

\* Make something else of what is theirs and attached nowhere.
Remake(n, i) ==
    /\ info[n].uid = "other" /\ i.uid = "other" /\ i # info[n]
    /\ at[n] = Nil /\ n \notin {at[x][1] : x \in {y \in Nodes : at[y] # Nil}}
    /\ info' = [info EXCEPT ![n] = i]
    /\ UNCHANGED at

Others ==
    /\ \E n \in Nodes :
          \/ Take(n)
          \/ \E d \in Dirs, name \in Names : Plant(n, d, name)
          \/ \E i \in Infos : Remake(n, i)
    /\ disturbed' = TRUE
    /\ UNCHANGED walk

-----------------------------------------------------------------------------
(* The verdicts *)

\* group_write_is_private: "error" when a lookup fails.
GroupWriteIsPrivate(gidIsUid, posix, members) ==
    IF ~gidIsUid THEN "no"
    ELSE IF posix = "error" THEN "error"
    ELSE IF posix = "stored" THEN "no"
    ELSE IF members = "error" THEN "error"
    ELSE IF members = "nobody" THEN "yes" ELSE "no"

\* untrusted_ancestor_rejection
UntrustedAncestor(i, groupTrusted) ==
    \/ i.kind # "dir"
    \/ i.uid = "other"
    \/ ~i.mode.sticky /\ (i.mode.world \/ (i.mode.group /\ ~groupTrusted))

\* untrusted_acl_rejection: of the entries that allow, those for this account
\* and root are within the trust boundary, those without a right to change
\* entries do not matter, and one that cannot be read is not a clean one.
UntrustedAcl(acl) == acl \cap {"others", "group", "illegible"} # {}

\* reject_untrusted_directory: `i' is what lstat said, `now' what the lookups
\* by path find a moment later.
Rejects(i, now) ==
    LET private == GroupWriteIsPrivate(i.mode.gidIsUid, now.mode.posix, i.mode.members) IN
    \/ i.kind # "dir"
    \/ i.mode.group /\ private = "error"
    \/ UntrustedAncestor(i, i.mode.group /\ private = "yes")
    \/ now.mode.aclError
    \/ UntrustedAcl(now.mode.acl)

\* untrusted_link_rejection
FaultyTrustLinks(i) == FALSE
UntrustedLink(i) == i.uid = "other"

-----------------------------------------------------------------------------
(* The walk *)

Conclude(verdict) == pc' = verdict /\ UNCHANGED <<cur, todo, hops, seen>>

\* Judges "/" and starts at it.
Init ==
    /\ at \in Trees
    /\ info \in [Nodes \cup {Slash} -> Infos]
    /\ info[Slash] \in DirInfos /\ info[Slash].uid = "own"
    /\ \A n \in Nodes : at[n] # Nil => at[n][1] \in Dirs
    /\ pc = IF Rejects(info[Slash], info[Slash]) THEN "refused" ELSE "stat"
    /\ cur = <<>>
    /\ todo = Path
    /\ hops = 0
    /\ seen = info[Slash]
    /\ disturbed = FALSE

\* Component::ParentDir: current.pop()
DotDot ==
    /\ pc = "stat" /\ todo # <<>> /\ Head(todo) = ".."
    /\ cur' = IF cur = <<>> THEN <<>> ELSE SubSeq(cur, 1, Len(cur) - 1)
    /\ todo' = Tail(todo)
    /\ UNCHANGED <<pc, hops, seen>>

\* symlink_metadata of the next component, and the verdict on a link's owner.
Stat ==
    /\ pc = "stat" /\ todo # <<>> /\ Head(todo) # ".."
    /\ LET n == Lstat(Head(todo)) IN
       IF n = Nil THEN Conclude("refused")
       ELSE IF info[n].kind # "link"
       THEN pc' = "judge" /\ seen' = info[n] /\ UNCHANGED <<cur, todo, hops>>
       ELSE IF UntrustedLink(info[n]) THEN Conclude("refused")
       ELSE /\ hops' = hops + 1
            /\ pc' = IF hops + 1 > MaxLinks THEN "refused" ELSE "follow"
            /\ seen' = info[n]
            /\ UNCHANGED <<cur, todo>>

\* reject_untrusted_directory of the directory just seen.
Judge ==
    /\ pc = "judge"
    /\ LET n == Lstat(Head(todo)) IN
       IF n = Nil \/ n \notin Dirs \/ Rejects(seen, info[n])
       THEN Conclude("refused")
       ELSE /\ cur' = Append(cur, Head(todo))
            /\ todo' = Tail(todo)
            /\ pc' = "stat"
            /\ UNCHANGED <<hops, seen>>

\* read_link, and the walk of its target from "/": the recursion returns to
\* what is left of the components.
FaultyFreshBudget ==
    /\ pc = "follow"
    /\ hops' = 0
    /\ LET n == Lstat(Head(todo)) IN
       IF n = Nil \/ info[n].kind # "link"
       THEN pc' = "refused" /\ UNCHANGED <<cur, todo, seen>>
       ELSE /\ todo' = (IF info[n].target.absolute THEN info[n].target.comps
                        ELSE cur \o info[n].target.comps) \o Tail(todo)
            /\ cur' = <<>>
            /\ pc' = "stat"
            /\ UNCHANGED seen

Follow ==
    /\ pc = "follow"
    /\ LET n == Lstat(Head(todo)) IN
       IF n = Nil \/ info[n].kind # "link" THEN Conclude("refused")
       ELSE /\ todo' = (IF info[n].target.absolute THEN info[n].target.comps
                        ELSE cur \o info[n].target.comps) \o Tail(todo)
            /\ cur' = <<>>
            /\ pc' = "stat"
            /\ UNCHANGED <<hops, seen>>

Accept == pc = "stat" /\ todo = <<>> /\ Conclude("trusted")

Walk ==
    /\ DotDot \/ Stat \/ Judge \/ Follow \/ Accept
    /\ UNCHANGED <<fs, disturbed>>

Next == Walk \/ Others
Spec == Init /\ [][Next]_vars

\* The walk goes on whatever the others do; nothing makes it wait.
FairSpec == Spec /\ WF_vars(Walk)

-----------------------------------------------------------------------------
(* Properties *)

TypeOK ==
    /\ info \in [Nodes \cup {Slash} -> Infos]
    /\ at \in [Nodes -> Places]
    /\ pc \in {"stat", "judge", "follow", "trusted", "refused"}
    /\ cur \in Seq(Names) /\ todo \in Seq(Names \cup {".."})
    /\ hops \in 0 .. MaxLinks + 1
    /\ seen \in Infos
    /\ disturbed \in BOOLEAN

\* The verdict outlives the call: once the path is accepted nothing another
\* account does changes which directory it leads to, although xray and
\* awg-quick resolve it again, later and by name.
VerdictLasts == [][pc = "trusted" => Resolved' = Resolved]_vars

\* Nor does anything change what the names of this account's own files in that
\* directory lead to: no entry of mine or root's is moved away.
EntriesStay ==
    [][pc = "trusted" =>
         \A n \in Nodes : (at[n] # Nil /\ at[n][1] = Resolved /\ info[n].uid = "own")
                             => at'[n] = at[n]]_vars

\* The walk resolves the path as the kernel does: undisturbed, it accepts the
\* very directory that opening the path would use.
SameAsKernel ==
    pc = "trusted" /\ ~disturbed => Kernel(cur) = Resolved

\* No false alarm: undisturbed, a path is refused only if somebody else could
\* change what it leads to or what is in that directory, or if it leads to no
\* directory, or through too many links.
Exposed(n) ==
    \/ info[n].uid = "other"
    \/ n \in Dirs /\ MayWrite(n) /\
          \/ ~info[n].mode.sticky
          \/ info[n].mode.aclError \/ info[n].mode.acl \cap {"others", "group", "illegible"} # {}
RefusalHasReason ==
    pc = "refused" /\ ~disturbed =>
        \/ \E n \in Passed : Exposed(n)
        \/ Resolved \notin Dirs
        \/ hops > MaxLinks

\* Loops of links, even ones rearranged meanwhile, end in a verdict.
WalkEnds == <>(pc \in {"trusted", "refused"})
=============================================================================
