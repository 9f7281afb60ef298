-------------------------------- MODULE MCLogs --------------------------------
(***************************************************************************)
(* The logs and where they are, in one run: in each behaviour one of       *)
(* LogFile, LogPreflight and TrustedPath runs, and the others rest in an   *)
(* initial state.                                                          *)
(***************************************************************************)
EXTENDS Logs, TLC

CONSTANTS p1, p2, n1, n2, n3, Slash

VARIABLES info, at, walkPc, cur, todo, hops, seen, disturbed

walkVars == <<info, at, walkPc, cur, todo, hops, seen, disturbed>>

-----------------------------------------------------------------------------
\* Three sets of shapes, of which every path has any: all combinations of all
\* of them are too many.
MCWorlds == {{"absent", "file", "exposed", "fifo", "noParent"},
             {"absent", "dangling", "linked", "noParentEver"},
             {"absent", "writable", "readFifo", "foreign", "dir"}}

\* Directories with one thing amiss each, or nothing.
Closed == [sticky |-> FALSE, world |-> FALSE, group |-> FALSE, gidIsUid |-> FALSE,
           posix |-> "none", members |-> "somebody", acl |-> {"deny", "mine"},
           aclError |-> FALSE]
Tmp == [Closed EXCEPT !.sticky = TRUE, !.world = TRUE]
UserPrivate == [Closed EXCEPT !.group = TRUE, !.gidIsUid = TRUE, !.members = "nobody"]
MCModes ==
  {Closed, Tmp, [Closed EXCEPT !.world = TRUE], UserPrivate,
   [UserPrivate EXCEPT !.posix = "stored"],
   [Closed EXCEPT !.acl = {"readOnly", "others"}], [Closed EXCEPT !.aclError = TRUE]}

\* "/" belongs to root and is closed, or open to all, with the sticky bit or not.
RootModes == {Closed, Tmp, [Closed EXCEPT !.world = TRUE]}

\* /a, what is at b below it or beside it, and a third thing anywhere.
MCTrees ==
  {t \in [{n1, n2, n3} -> ({Slash, n1, n2} \X {"a", "b"}) \cup {Nil}] :
     /\ t[n1] = <<Slash, "a">>
     /\ t[n2] \in {<<n1, "b">>, <<Slash, "b">>}
     /\ t[n3] \in {<<n2, "b">>, <<Slash, "b">>, <<n1, "a">>}
     /\ t[n3] # t[n2]}

Path == INSTANCE TrustedPath WITH
  Nodes <- {n1, n2, n3}, Names <- {"a", "b"}, Path <- <<"a", "b">>, Modes <- MCModes,
  Targets <- {[absolute |-> TRUE, comps |-> <<"b">>], [absolute |-> FALSE, comps |-> <<"..", "a">>]},
  Trees <- MCTrees, MaxLinks <- 2, pc <- walkPc

ASSUME WalkTyped == Path!ConstantsTyped

-----------------------------------------------------------------------------
WalkRests ==
  /\ at = [n \in {n1, n2, n3} |-> Nil]
  /\ info = [n \in {n1, n2, n3, Slash} |-> [kind |-> "dir", uid |-> "own", mode |-> Closed]]
  /\ walkPc = "stat" /\ cur = <<>> /\ todo = <<"a", "b">> /\ hops = 0
  /\ seen = info[Slash] /\ disturbed = FALSE

MCInit ==
  \/ LogsInit /\ WalkRests
  \/ part = "walk" /\ LogRests /\ CheckRests /\ Path!Init /\ info[Slash].mode \in RootModes
MCNext ==
  \/ LogsNext /\ UNCHANGED walkVars
  \/ part = "walk" /\ Path!Next /\ UNCHANGED <<part, vars, checkVars>>
MCSpec == MCInit /\ [][MCNext]_<<part, vars, checkVars, walkVars>>

\* No corvex process is told from another.
Symmetry == Permutations(Procs)

-----------------------------------------------------------------------------
\* The directory that a walk accepts is the one the kernel would open, and a
\* path is refused only for what somebody else could do to it; nothing another
\* account does later changes where an accepted path leads, or what this
\* account's own entries there are (TrustedPath, config.rs:1205).
WalkHolds ==
  /\ [](Path!TypeOK /\ Path!SameAsKernel /\ Path!RefusalHasReason)
  /\ Path!VerdictLasts
  /\ Path!EntriesStay
=============================================================================
