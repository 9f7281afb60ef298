-------------------------------- MODULE MCEnds --------------------------------
(***************************************************************************)
(* What must come to an end, in one run with fairness and no symmetry: in  *)
(* each behaviour one of XrayLifecycle, RestrictedFile (a process alone),  *)
(* TrustedPath and DnsReport runs, and the others rest in an initial       *)
(* state.                                                                  *)
(***************************************************************************)
EXTENDS DnsReport

CONSTANTS Slash, c1, p1, p2, i1, i2, n1, n2, n3, NoPid, NoCli, Absent, Blank

VARIABLES
  part,   \* "command", "file", "walk", "report"
  pidContent, pidPerm, state, owner, parent, proxy, cliPc, cmd, euid, site, seen, target, existed,
  fd, outcome, faults, lost, raced,
  inherits, sticky, inode, fileTarget, stage, op, filePc, fileFd, tries, pos, res, fileRaced,
  strippers,
  info, at, walkPc, cur, comps, hops, lstat, disturbed

commandVars == <<pidContent, pidPerm, state, owner, parent, proxy, cliPc, cmd, euid, site, seen,
                 target, existed, fd, outcome, faults, lost, raced>>
openVars == <<inherits, sticky, inode, fileTarget, stage, op, filePc, fileFd, tries, pos, res,
              fileRaced, strippers>>
walkVars == <<info, at, walkPc, cur, comps, hops, lstat, disturbed>>

-----------------------------------------------------------------------------
\* One invocation at a time, whatever was there and may come between.
Lifecycle == INSTANCE XrayLifecycle WITH
  Clis <- {c1}, Pids <- {p1, p2}, Commands <- {"start", "stop", "reload", "status"},
  Scenarios <- {"clean", "running", "private"}, Hazards <- {"crash", "reuse"},
  MaxFaults <- 1, PsMayFail <- TRUE, ZombieAnswers <- {TRUE, FALSE}, pc <- cliPc

Open == INSTANCE RestrictedFile WITH
  Procs <- {p1}, Inodes <- {i1, i2}, Attempts <- 2, OldChunks <- 3, NewChunks <- 2,
  target <- fileTarget, pc <- filePc, fd <- fileFd, raced <- fileRaced

Closed == [sticky |-> FALSE, world |-> FALSE, group |-> FALSE, gidIsUid |-> FALSE,
           posix |-> "none", members |-> "somebody", acl |-> {}, aclError |-> FALSE]
\* Of three nodes, which may be loops of links, the last is attached nowhere yet.
MCTrees == {[n \in {n1, n2, n3} |-> CASE n = n1 -> <<Slash, "a">> [] n = n2 -> b [] OTHER -> Nil] :
              b \in {<<n1, "b">>, <<Slash, "b">>}}
Path == INSTANCE TrustedPath WITH
  Nodes <- {n1, n2, n3}, Names <- {"a", "b"}, Path <- <<"a", "b">>,
  Modes <- {Closed, [Closed EXCEPT !.world = TRUE]},
  Targets <- {[absolute |-> TRUE, comps |-> <<"b">>], [absolute |-> FALSE, comps |-> <<"..", "a">>]},
  Trees <- MCTrees, MaxLinks <- 2, pc <- walkPc, todo <- comps, seen <- lstat

\* Addresses of two bits; nameservers listed twice; routers of every address,
\* and interfaces of up to two addresses, with a peer or of another family.
N1 == Address("v4", {1})
N2 == Address("v4", {2})
N6 == Address("v6", {})
MCListings == {<<>>, <<<<N1, N6>>, <<N1>>>>, <<<<N1, N2>>, <<N2, N1>>>>}
MCRoutes ==
  [gateway : {Nil, N6} \cup {Address("v4", b) : b \in {{}, {1}, {1, 2}}},
   interface : {"en0"}]
\* A host alias, and an address of a subnet of its own.
Aliases == {[class |-> "v4", bits |-> {}, length |-> 2, peer |-> Nil],
            [class |-> "v4", bits |-> {1, 2}, length |-> 1, peer |-> Nil]}
Inets == [class : {"v4"}, bits : {{}, {1, 2}}, length : 0..2, peer : {Nil}]
           \cup [class : {"v4"}, bits : {{2}}, length : {2}, peer : {Address("v4", {1, 2})}]
           \cup [class : {"v6"}, bits : {{}}, length : {0}, peer : {Nil}]
MCInterfaces == {<<>>} \cup {<<a>> : a \in Inets} \cup {<<a, b>> : a \in Inets, b \in Aliases}

ASSUME PathTyped == Path!ConstantsTyped

-----------------------------------------------------------------------------
CommandRests ==
  pidContent = Absent /\ pidPerm = "own" /\ state = [p \in {p1, p2} |-> "none"] /\ Lifecycle!Init
OpenRests ==
  /\ inherits = FALSE /\ sticky = FALSE /\ inode = [i \in {i1, i2} |-> Open!Free]
  /\ fileTarget = Nil /\ op = [p \in {p1} |-> "open"] /\ Open!Init
WalkRests ==
  /\ at = [n \in {n1, n2, n3} |-> Nil]
  /\ info = [n \in {n1, n2, n3, Slash} |-> [kind |-> "dir", uid |-> "own", mode |-> Closed]]
  /\ walkPc = "stat" /\ cur = <<>> /\ comps = <<"a", "b">> /\ hops = 0
  /\ lstat = info[Slash] /\ disturbed = FALSE
ReportRests == platform = "linux" /\ Init

\* No inode is told from another: what is at the path first is i1.
MCInit ==
  \/ part = "command" /\ OpenRests /\ WalkRests /\ ReportRests /\ Lifecycle!Init
  \/ part = "file" /\ CommandRests /\ WalkRests /\ ReportRests /\ fileTarget \in {i1, Nil} /\ Open!Init
  \/ part = "walk" /\ CommandRests /\ OpenRests /\ ReportRests /\ Path!Init
  \/ part = "report" /\ CommandRests /\ OpenRests /\ WalkRests /\ Init

Only(p) ==
  /\ part = p /\ UNCHANGED part
  /\ p # "command" => UNCHANGED commandVars
  /\ p # "file" => UNCHANGED openVars
  /\ p # "walk" => UNCHANGED walkVars
  /\ p # "report" => UNCHANGED vars

MCNext ==
  \/ Only("command") /\ Lifecycle!Next
  \/ Only("file") /\ Open!Next
  \/ Only("walk") /\ Path!Next
  \/ Only("report") /\ Next

all == <<part, commandVars, openVars, walkVars, vars>>
\* The fairness of each part: the operating system runs corvex, and no call it
\* makes waits for ever; nobody else has to do anything.
MCSpec ==
  /\ MCInit /\ [][MCNext]_all
  /\ WF_all(Only("command") /\ Lifecycle!Work(c1))
  /\ WF_all(Only("file") /\ Open!Step(p1))
  /\ WF_all(Only("walk") /\ Path!Walk)
  /\ WF_all(Only("report") /\ Step)

-----------------------------------------------------------------------------
\* Every invocation comes to an end (xray.rs:335), every open returns, whatever
\* is at the path, a walk over loops of links, even ones rearranged meanwhile,
\* ends, and so does a report, whatever answers or does not.
EverythingEnds ==
  /\ Lifecycle!EveryCommandEnds
  /\ Open!Returns
  /\ part = "walk" => Path!WalkEnds
  /\ part = "report" => ReportEnds
=============================================================================
