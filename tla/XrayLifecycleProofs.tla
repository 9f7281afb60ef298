------------------------ MODULE XrayLifecycleProofs -------------------------
(***************************************************************************)
(* What holds of XrayLifecycle for every set of invocations and PIDs,      *)
(* every mixture of hazards and every bound on the faults.                 *)
(***************************************************************************)
EXTENDS XrayLifecycle, TLAPS

USE ConstantsApart, ConstantsTyped DEF ConstantsApart, ConstantsTyped

-----------------------------------------------------------------------------
(* Types *)

\* The first states are typed.
LEMMA InitTyped == Init => TypeOK
<1> SUFFICES ASSUME Init PROVE TypeOK
  OBVIOUS
<1>1. PICK s \in Scenarios, p \in Pids :
        /\ pidContent = IF s = "clean" THEN Absent ELSE p
        /\ pidPerm = CASE s = "legacy" -> "foreignReadable"
                       [] s = "private" -> "foreignPrivate"
                       [] s = "rootDir" -> "rootDir"
                       [] OTHER -> "own"
        /\ state = [q \in Pids |-> IF q = p /\ s # "clean" THEN "run" ELSE "none"]
        /\ owner = [q \in Pids |->
                      IF q = p /\ s \in {"legacy", "private", "rootDir"} THEN "root" ELSE "user"]
        /\ proxy = IF s = "clean" THEN "off" ELSE "on"
  BY DEF Init
<1>2. /\ pidContent \in Pids \cup {Absent, Blank}
      /\ pidPerm \in {"own", "foreignReadable", "foreignPrivate", "rootDir"}
      /\ state \in [Pids -> {"none", "run", "dying", "zombie", "stranger"}]
      /\ owner \in [Pids -> Users]
      /\ proxy \in {"off", "mixed", "on"}
  BY <1>1 DEF Users
<1>3. [c \in Clis |-> FALSE] \in [Clis -> BOOLEAN]
  BY Zenon
<1>4. existed \in [Clis -> BOOLEAN] /\ fd \in [Clis -> BOOLEAN] /\ raced \in BOOLEAN
  BY <1>3, Zenon DEF Init
<1>5. QED
  BY <1>2, <1>4 DEF Init, TypeOK, PCs, Sites, Users, NeedsPid

\* Removing the PID file keeps what is known of it typed.
LEMMA RemoveTyped ==
  ASSUME TypeOK, NEW c \in Clis, Remove(c) \/ KeepFile
  PROVE  /\ pidContent' \in Pids \cup {Absent, Blank}
         /\ pidPerm' \in {"own", "foreignReadable", "foreignPrivate", "rootDir"}
         /\ fd' \in [Clis -> BOOLEAN]
<1>1. fd' = fd \/ fd' = [d \in Clis |-> FALSE]
  BY DEF Remove, KeepFile, Unlink
<1>2. [d \in Clis |-> FALSE] \in [Clis -> BOOLEAN]
  BY Zenon
<1>3. fd' \in [Clis -> BOOLEAN]
  BY <1>1, <1>2, Zenon DEF TypeOK
<1>4. QED
  BY <1>3 DEF Remove, KeepFile, Unlink, TypeOK, fileVars, CanUnlink

\* A text that may be judged to name a running xray is a PID.
LEMMA YesNamesPid ==
  ASSUME NEW text, TRUE \in Verdicts(text)
  PROVE  text \in Pids
  BY Zenon DEF Verdicts

\* Where the callers of is_running go when it finds an xray.
LEMMA SomeCases ==
  ASSUME TypeOK, NEW c \in Clis, IsRunningSome(c)
  PROVE  \/ site[c] = "main" /\ Step(c, "read")
         \/ site[c] = "stop" /\ Step(c, "term")
         \/ site[c] = "start" /\ Fail(c)
         \/ site[c] = "verify" /\ Step(c, "activate")
         \/ site[c] = "reload" /\ Step(c, "hup")
         \/ site[c] = "status" /\ Leave(c, "ok")
  BY DEF IsRunningSome, TypeOK, Sites

\* Every step of an invocation keeps the types.
LEMMA WorkTyped ==
  ASSUME TypeOK, NEW c \in Clis, Work(c)
  PROVE  TypeOK'
<1> USE DEF Goto, Leave, Fail, Step, fileVars, procVars, callVars, env,
            TypeOK, PCs, Sites, Users, NeedsPid
<1>1. CASE Precheck(c)
  BY <1>1 DEF Precheck
<1>2. CASE IsRunningRead(c)
  BY <1>2 DEF IsRunningRead
<1>3. CASE IsRunningSome(c)
  <2>3. /\ site' \in [Clis -> Sites]
        /\ target' \in [Clis -> Pids \cup {NoPid}]
        /\ \A d \in Clis : d # c => target'[d] = target[d]
        /\ site[c] \in {"stop", "reload"} => target'[c] \in Pids
    BY <1>3, YesNamesPid DEF IsRunningSome, UsesPid
  <2>4. /\ pc' \in [Clis -> PCs]
        /\ outcome' \in [Clis -> {"none", "pending", "ok", "failed", "killed"}]
        /\ \A d \in Clis : d # c => pc'[d] = pc[d]
        /\ pc'[c] \in NeedsPid => site[c] \in {"stop", "reload"}
    BY <1>3, SomeCases
  <2>5. QED
    BY <1>3, <2>3, <2>4 DEF IsRunningSome
<1>4. CASE IsRunningNone(c)
  BY <1>4, RemoveTyped DEF IsRunningNone
<1>5. CASE Terminate(c)
  BY <1>5 DEF Terminate
<1>6. CASE WaitGone(c)
  BY <1>6 DEF WaitGone
<1>7. CASE WaitExpired(c)
  BY <1>7 DEF WaitExpired
<1>8. CASE ForceKill(c)
  BY <1>8 DEF ForceKill, Slay, Dead
<1>9. CASE StopUnlink(c)
  BY <1>9, RemoveTyped DEF StopUnlink
<1>10. CASE Disable(c)
  BY <1>10 DEF Disable, HalfDone
<1>11. CASE Hup(c)
  BY <1>11 DEF Hup
<1>12. CASE UpdateConfigPort(c)
  BY <1>12 DEF UpdateConfigPort
<1>13. CASE PreflightStat(c)
  BY <1>13 DEF PreflightStat
<1>14. CASE PreflightOpen(c)
  BY <1>14 DEF PreflightOpen, Touch, Create
<1>15. CASE PreflightUnlink(c)
  BY <1>15, RemoveTyped DEF PreflightUnlink
<1>16. CASE PreflightRead(c)
  BY <1>16 DEF PreflightRead
<1>17. CASE PreflightJudge(c)
  <2>1. Remove(c) \/ KeepFile
    BY <1>17 DEF PreflightJudge
  <2>2. Fail(c) \/ Step(c, "preReopen")
    BY <1>17 DEF PreflightJudge
  <2>3. QED
    BY <1>17, <2>1, <2>2, RemoveTyped DEF PreflightJudge
<1>18. CASE PreflightReopen(c)
  BY <1>18 DEF PreflightReopen, Touch, Create
<1>19. CASE Spawn(c)
  BY <1>19 DEF Spawn
<1>20. CASE PidOpen(c)
  <2>1. CASE KeepFile /\ Untracked(c)
    <3>1. lost' \in SUBSET Pids
      BY <2>1 DEF Untracked
    <3>2. QED
      BY <1>20, <2>1, <3>1, RemoveTyped DEF PidOpen, Untracked
  <2>2. CASE ~(KeepFile /\ Untracked(c))
    <3>1. /\ Create
          /\ fd' = [fd EXCEPT ![c] = TRUE]
          /\ Step(c, "pidWrite")
          /\ UNCHANGED lost
      BY <1>20, <2>2 DEF PidOpen
    <3>2. fd' \in [Clis -> BOOLEAN]
      BY <3>1, Zenon DEF TypeOK
    <3>3. QED
      BY <1>20, <3>1, <3>2 DEF PidOpen, Create
  <2>3. QED
    BY <2>1, <2>2
<1>21. CASE PidWrite(c)
  BY <1>21 DEF PidWrite, Untracked, LiveXray
<1>22. CASE Abandon(c)
  BY <1>22, RemoveTyped DEF Abandon
<1>23. CASE Activate(c)
  BY <1>23 DEF Activate, HalfDone
<1>24. CASE Exit(c)
  BY <1>24 DEF Exit, Ended, Orphaned
<1>25. QED
  BY <1>1, <1>2, <1>3, <1>4, <1>5, <1>6, <1>7, <1>8, <1>9, <1>10, <1>11,
     <1>12, <1>13, <1>14, <1>15, <1>16, <1>17, <1>18, <1>19, <1>20, <1>21,
     <1>22, <1>23, <1>24, Work(c) DEF Work

\* So does its end.
LEMMA EndTyped ==
  ASSUME TypeOK, NEW C \in SUBSET Clis, Ended(C)
  PROVE  /\ pc' \in [Clis -> PCs]
         /\ \A c \in Clis : pc'[c] \in NeedsPid => target'[c] \in Pids
         /\ UNCHANGED <<cmd, target>>
         /\ euid' \in [Clis -> Users] /\ site' \in [Clis -> Sites]
         /\ seen' \in [Clis -> Pids \cup {Absent, Blank}]
         /\ existed' \in [Clis -> BOOLEAN] /\ fd' \in [Clis -> BOOLEAN]
         /\ raced' \in BOOLEAN
  BY DEF Ended, TypeOK, PCs, Users, Sites, NeedsPid

\* Processes whose parents end stay typed.
LEMMA OrphanedTyped ==
  ASSUME TypeOK, NEW C \in SUBSET Clis, Orphaned(C)
  PROVE  /\ state' \in [Pids -> {"none", "run", "dying", "zombie", "stranger"}]
         /\ parent' \in [Pids -> Clis \cup {NoCli}]
  BY DEF Orphaned, TypeOK

\* Every step keeps the types.
LEMMA NextTyped == TypeOK /\ [Next]_vars => TypeOK'
<1> SUFFICES ASSUME TypeOK, [Next]_vars PROVE TypeOK'
  OBVIOUS
<1>1. ASSUME NEW c \in Clis, Invoke(c) PROVE TypeOK'
  BY <1>1 DEF Invoke, Goto, TypeOK, PCs, Sites, Users, NeedsPid, fileVars, procVars
<1>2. ASSUME NEW c \in Clis, Work(c) PROVE TypeOK'
  BY <1>2, WorkTyped
<1>3. ASSUME NEW c \in Clis, KillCli(c) PROVE TypeOK'
  <2>1. {c} \in SUBSET Clis /\ Ended({c}) /\ Orphaned({c})
    BY <1>3 DEF KillCli
  <2>2. /\ outcome' \in [Clis -> {"none", "pending", "ok", "failed", "killed"}]
        /\ faults' \in 0..MaxFaults
    BY <1>3 DEF KillCli, TypeOK
  <2>3. lost' \in SUBSET Pids
    BY <1>3 DEF KillCli, TypeOK, NeedsPid
  <2>4. proxy' \in {"off", "mixed", "on"}
    BY <1>3 DEF KillCli, TypeOK, HalfDone
  <2>5. QED
    BY <1>3, <2>1, <2>2, <2>3, <2>4, EndTyped, OrphanedTyped DEF KillCli, TypeOK, fileVars
<1>4. ASSUME NEW p \in Pids, XrayExits(p) PROVE TypeOK'
  BY <1>4 DEF XrayExits, Slay, Dead, Running, TypeOK, NeedsPid, fileVars, cliVars, callVars
<1>5. ASSUME NEW p \in Pids, StrangerComes(p) \/ StrangerGoes(p) PROVE TypeOK'
  BY <1>5 DEF StrangerComes, StrangerGoes, TypeOK, NeedsPid, Users, fileVars, cliVars, callVars
<1>6. CASE Reboot
  <2>1. Ended(Clis)
    BY <1>6 DEF Reboot
  <2>2. /\ outcome' \in [Clis -> {"none", "pending", "ok", "failed", "killed"}]
        /\ faults' \in 0..MaxFaults
        /\ state' \in [Pids -> {"none", "run", "dying", "zombie", "stranger"}]
        /\ parent' \in [Pids -> Clis \cup {NoCli}]
        /\ lost' \in SUBSET Pids
    BY <1>6 DEF Reboot, TypeOK
  <2>3. QED
    BY <1>6, <2>1, <2>2, EndTyped DEF Reboot, TypeOK, fileVars
<1>7. CASE UNCHANGED vars
  BY <1>7 DEF vars, TypeOK, NeedsPid, fileVars, procVars, cliVars, callVars
<1>8. QED
  BY <1>1, <1>2, <1>3, <1>4, <1>5, <1>6, <1>7 DEF Next, Environment

\* Every variable keeps its type, and a step that signals or records a PID
\* has one, whatever runs side by side and whatever fails.
THEOREM TypeCorrect == Spec => []TypeOK
<1>1. Init => TypeOK
  BY InitTyped
<1>2. TypeOK /\ [Next]_vars => TypeOK'
  BY NextTyped
<1>3. QED
  BY <1>1, <1>2, PTL DEF Spec

-----------------------------------------------------------------------------
(* The shape of an invocation: which command takes which steps, on whose     *)
(* behalf.  It needs nothing of what other invocations do.                   *)

Shape(c) ==
    /\ outcome[c] = "none" => pc[c] = "idle"
    /\ pc[c] = "precheck" => cmd[c] # "start"
    /\ pc[c] \in {"term", "wait", "kill", "unlink", "disable"} => site[c] = "stop"
    /\ pc[c] = "disable" => cmd[c] = "stop"
    /\ pc[c] = "hup" => site[c] = "reload"
    /\ pc[c] \in {"port", "preStat", "preOpen", "preUnlink", "preRead", "preJudge",
                  "preReopen", "spawn", "pidOpen", "pidWrite", "abandon", "activate"}
          => cmd[c] = "start"
    /\ pc[c] # "idle" =>
          /\ cmd[c] \in Commands
          /\ cmd[c] = "start" => euid[c] = "user"
          /\ site[c] = "stop" => cmd[c] \in {"start", "stop"}
          /\ site[c] \in {"reload", "status"} => cmd[c] = site[c]
          /\ site[c] \in {"main", "start", "verify"} => cmd[c] = "start"

\* A step of one invocation leaves the locals of all others alone, and may
\* give its own result.
LEMMA WorkLocal ==
  ASSUME TypeOK, NEW c \in Clis, Work(c)
  PROVE  /\ pc[c] # "idle" /\ UNCHANGED cmd
         /\ outcome'[c] \in {outcome[c], "ok", "failed"}
         /\ \A d \in Clis : d # c =>
              UNCHANGED <<pc[d], euid[d], site[d], seen[d], target[d], existed[d], outcome[d]>>
<1> USE DEF Goto, Leave, Fail, Step, env, callVars, TypeOK
<1>1. CASE IsRunningSome(c)
  <2>1. /\ \A d \in Clis : d # c => pc'[d] = pc[d] /\ outcome'[d] = outcome[d]
        /\ outcome'[c] \in {outcome[c], "ok", "failed"}
    BY <1>1, SomeCases
  <2>2. QED
    BY <1>1, <2>1 DEF IsRunningSome
<1>2. CASE IsRunningNone(c)
  <2>1. /\ \A d \in Clis : d # c => pc'[d] = pc[d] /\ outcome'[d] = outcome[d]
        /\ outcome'[c] \in {outcome[c], "ok", "failed"}
    BY <1>2 DEF IsRunningNone
  <2>2. QED
    BY <1>2, <2>1 DEF IsRunningNone
<1>3. CASE \/ Precheck(c) \/ IsRunningRead(c) \/ Terminate(c)
           \/ WaitGone(c) \/ WaitExpired(c) \/ ForceKill(c)
  BY <1>3 DEF Precheck, IsRunningRead, Terminate, WaitGone, WaitExpired, ForceKill
<1>4. CASE \/ StopUnlink(c) \/ Disable(c) \/ Hup(c) \/ UpdateConfigPort(c)
           \/ PreflightStat(c) \/ PreflightOpen(c) \/ PreflightUnlink(c) \/ PreflightRead(c)
  BY <1>4 DEF StopUnlink, Disable, Hup, UpdateConfigPort, PreflightStat,
              PreflightOpen, PreflightUnlink, PreflightRead
<1>5. CASE PreflightReopen(c) \/ Abandon(c) \/ Activate(c)
  BY <1>5 DEF PreflightReopen, Abandon, Activate
<1>6. CASE Spawn(c) \/ PidOpen(c) \/ PidWrite(c)
  BY <1>6 DEF Spawn, PidOpen, PidWrite, Untracked
<1>7. CASE PreflightJudge(c)
  <2>1. /\ pc[c] = "preJudge" /\ UNCHANGED <<cmd, euid, callVars>>
        /\ Fail(c) \/ Step(c, "preReopen")
    BY <1>7 DEF PreflightJudge
  <2>2. QED
    BY <2>1
<1>8. CASE Exit(c)
  BY <1>8 DEF Exit, Ended
<1>9. QED
  BY <1>1, <1>2, <1>3, <1>4, <1>5, <1>6, <1>7, <1>8 DEF Work

\* Its own steps keep an invocation in shape.
LEMMA WorkShape ==
  ASSUME TypeOK, NEW c \in Clis, Shape(c), Work(c)
  PROVE  Shape(c)'
<1> USE DEF Goto, Leave, Fail, Step, fileVars, procVars, callVars, env, TypeOK, Shape, Sites
<1>3. CASE IsRunningSome(c)
  <2>1. pc[c] = "judge" /\ UNCHANGED <<cmd, euid>>
    BY <1>3 DEF IsRunningSome
  <2>2. site' = [site EXCEPT ![c] = IF @ = "main" THEN "stop" ELSE @]
    BY <1>3 DEF IsRunningSome
  <2>3. QED
    BY <1>3, SomeCases, <2>1, <2>2
<1>4. CASE IsRunningNone(c)
  <2>1. pc[c] = "judge" /\ UNCHANGED <<cmd, euid, site>>
    BY <1>4 DEF IsRunningNone
  <2>2. \/ site[c] = "main" /\ Step(c, "port")
        \/ site[c] = "start" /\ Step(c, "preStat")
        \/ site[c] = "verify" /\ Step(c, "abandon")
        \/ Leave(c, "ok")
        \/ Fail(c)
    BY <1>4 DEF IsRunningNone
  <2>3. QED
    BY <2>1, <2>2
<1>5. CASE \/ Precheck(c) \/ IsRunningRead(c) \/ Terminate(c)
           \/ WaitGone(c) \/ WaitExpired(c) \/ ForceKill(c)
  BY <1>5 DEF Precheck, IsRunningRead, Terminate, WaitGone, WaitExpired, ForceKill
<1>6. CASE \/ StopUnlink(c) \/ Disable(c) \/ Hup(c) \/ UpdateConfigPort(c)
           \/ PreflightStat(c) \/ PreflightOpen(c) \/ PreflightUnlink(c) \/ PreflightRead(c)
  BY <1>6 DEF StopUnlink, Disable, Hup, UpdateConfigPort, PreflightStat,
              PreflightOpen, PreflightUnlink, PreflightRead
<1>7. CASE PreflightReopen(c) \/ Abandon(c) \/ Activate(c)
  BY <1>7 DEF PreflightReopen, Abandon, Activate
<1>8. CASE Spawn(c) \/ PidOpen(c) \/ PidWrite(c)
  BY <1>8 DEF Spawn, PidOpen, PidWrite, Untracked
<1>9. CASE PreflightJudge(c)
  <2>1. /\ pc[c] = "preJudge" /\ UNCHANGED <<cmd, euid, callVars>>
        /\ Fail(c) \/ Step(c, "preReopen")
    BY <1>9 DEF PreflightJudge
  <2>2. QED
    BY <2>1
<1>10. CASE Exit(c)
  BY <1>10 DEF Exit, Ended
<1>11. QED
  BY <1>3, <1>4, <1>5, <1>6, <1>7, <1>8, <1>9, <1>10 DEF Work

\* Every step keeps every invocation in shape.
LEMMA NextShape ==
  TypeOK /\ (\A c \in Clis : Shape(c)) /\ [Next]_vars => (\A c \in Clis : Shape(c))'
<1> SUFFICES ASSUME TypeOK, \A c \in Clis : Shape(c), [Next]_vars, NEW c \in Clis
             PROVE  Shape(c)'
  OBVIOUS
<1>1. ASSUME NEW d \in Clis, Invoke(d) PROVE Shape(c)'
  <2>1. PICK k \in Commands, u \in Users :
          /\ k = "start" => u = "user"
          /\ cmd' = [cmd EXCEPT ![d] = k] /\ euid' = [euid EXCEPT ![d] = u]
          /\ site' = [site EXCEPT ![d] = CASE k = "start" -> "main" [] OTHER -> k]
          /\ pc' = [pc EXCEPT ![d] = IF k = "start" THEN "read" ELSE "precheck"]
          /\ outcome' = [outcome EXCEPT ![d] = "pending"]
    BY <1>1 DEF Invoke, Goto
  <2>2. k \in {"start", "stop", "reload", "status"}
    OBVIOUS
  <2>3. QED
    BY <2>1, <2>2 DEF TypeOK, Shape
<1>2. ASSUME NEW d \in Clis, Work(d) PROVE Shape(c)'
  <2>1. CASE c = d
    BY <1>2, <2>1, WorkShape
  <2>2. CASE c # d
    BY <1>2, <2>2, WorkLocal DEF Shape
  <2>3. QED
    BY <2>1, <2>2
<1>3. ASSUME NEW d \in Clis, KillCli(d) PROVE Shape(c)'
  BY <1>3 DEF KillCli, Ended, TypeOK, Shape
<1>4. ASSUME NEW p \in Pids, XrayExits(p) \/ StrangerComes(p) \/ StrangerGoes(p) PROVE Shape(c)'
  BY <1>4 DEF XrayExits, StrangerComes, StrangerGoes, cliVars, callVars, Shape
<1>5. CASE Reboot
  BY <1>5 DEF Reboot, Ended, TypeOK, Shape
<1>6. CASE UNCHANGED vars
  BY <1>6 DEF vars, cliVars, callVars, Shape
<1>7. QED
  BY <1>1, <1>2, <1>3, <1>4, <1>5, <1>6 DEF Next, Environment

\* Nothing has been invoked at first.
LEMMA InitShape == Init => \A c \in Clis : Shape(c)
  BY DEF Init, Shape

-----------------------------------------------------------------------------
(* Tracking.  What an invocation knows of the PID file at each point, as     *)
(* long as no start overlaps it, or it overlaps none if it is a start.       *)

\* The text is what the file holds, or a command beside has removed the file.
Fresh(c, text) == text = pidContent \/ (cmd[c] # "start" /\ pidContent = Absent)

Knows(c) ==
    /\ pc[c] = "precheck" => site[c] # "verify"
    /\ pc[c] = "judge" => \/ Fresh(c, seen[c])
                          \/ seen[c] = Absent /\ pidPerm = "foreignPrivate"
    /\ pc[c] = "preJudge" => seen[c] = pidContent
    /\ pc[c] = "term" => Fresh(c, target[c])
    /\ pc[c] \in {"wait", "kill", "unlink"} =>
          Fresh(c, target[c]) /\ ~Running(target[c])
    /\ pc[c] \in {"preStat", "preOpen"} => pidPerm # "own" \/ pidContent = Absent
    /\ pc[c] = "preOpen" /\ existed[c] => pidContent # Absent
    /\ pc[c] \in {"preReopen", "spawn", "pidOpen", "abandon"} => pidContent = Absent
    /\ pc[c] \in {"preUnlink", "pidWrite"} => pidContent = Blank /\ pidPerm = "own"
    /\ pc[c] \in {"read", "judge"} /\ site[c] = "verify" => pidPerm = "own"

\* Nobody else is in progress.
Alone(c) == \A d \in Clis : pc[d] # "idle" => d = c

\* Inductive: what was true when an invocation looked is still true when it
\* acts, for only a start could have put another text into the file since.
IInv ==
    /\ TypeOK
    /\ \A c \in Clis : Shape(c)
    /\ ~raced => \A c \in Clis :
          pc[c] # "idle" => Knows(c) /\ (cmd[c] = "start" => Alone(c))

\* Nobody is in progress at first.
LEMMA InitIInv == Init => IInv
  BY InitTyped, InitShape DEF Init, IInv

\* Judged dead or a stranger, a PID is not that of a live xray.
LEMMA NoMeansNotLive ==
  ASSUME NEW p \in Pids, FALSE \in Verdicts(p)
  PROVE  ~Running(p)
  BY Zenon DEF Verdicts, IsProcessAlive, Identities, Named, LiveXray, Running

\* A step of one invocation leaves the program counters of the others alone.
LEMMA WorkFrame ==
  ASSUME TypeOK, NEW c \in Clis, Work(c), ~Exit(c)
  PROVE  /\ pc[c] # "idle"
         /\ \A d \in Clis : d # c => pc'[d] = pc[d]
         /\ raced' = raced
<1> USE DEF Goto, Leave, Fail, Step, env, TypeOK
<1>1. CASE IsRunningSome(c)
  <2>1. pc[c] = "judge" /\ raced' = raced
    BY <1>1 DEF IsRunningSome
  <2>2. QED
    BY <1>1, <2>1, SomeCases
<1>2. CASE IsRunningNone(c)
  <2>1. pc[c] = "judge" /\ raced' = raced
    BY <1>2 DEF IsRunningNone
  <2>2. \E l \in PCs : Goto(c, l)
    BY <1>2 DEF IsRunningNone, PCs
  <2>3. QED
    BY <2>1, <2>2
<1>3. CASE \/ Precheck(c) \/ IsRunningRead(c) \/ Terminate(c)
           \/ WaitGone(c) \/ WaitExpired(c) \/ ForceKill(c)
  BY <1>3 DEF Precheck, IsRunningRead, Terminate, WaitGone, WaitExpired, ForceKill
<1>4. CASE \/ StopUnlink(c) \/ Disable(c) \/ Hup(c) \/ UpdateConfigPort(c)
           \/ PreflightStat(c) \/ PreflightOpen(c) \/ PreflightUnlink(c) \/ PreflightRead(c)
  BY <1>4 DEF StopUnlink, Disable, Hup, UpdateConfigPort, PreflightStat,
              PreflightOpen, PreflightUnlink, PreflightRead
<1>5. CASE PreflightReopen(c) \/ Abandon(c) \/ Activate(c)
  BY <1>5 DEF PreflightReopen, Abandon, Activate
<1>6. CASE Spawn(c) \/ PidOpen(c) \/ PidWrite(c)
  BY <1>6 DEF Spawn, PidOpen, PidWrite, Untracked
<1>7. CASE PreflightJudge(c)
  <2>1. /\ pc[c] = "preJudge" /\ raced' = raced
        /\ Fail(c) \/ Step(c, "preReopen")
    BY <1>7 DEF PreflightJudge
  <2>2. QED
    BY <2>1
<1>8. QED
  BY <1>1, <1>2, <1>3, <1>4, <1>5, <1>6, <1>7 DEF Work

\* Its own steps keep what an invocation knows true.
LEMMA WorkKnows ==
  ASSUME TypeOK, NEW c \in Clis, Knows(c), Work(c), ~Exit(c)
  PROVE  Knows(c)'
<1> USE DEF Goto, Leave, Fail, Step, fileVars, procVars, callVars, env, TypeOK, Knows, Fresh
<1>1. CASE Precheck(c)
  BY <1>1 DEF Precheck
<1>2. CASE IsRunningRead(c)
  BY <1>2 DEF IsRunningRead, CanRead
<1>3. CASE IsRunningSome(c)
  <2>1. seen[c] \in Pids /\ pc[c] = "judge" /\ UNCHANGED <<fileVars, cmd, seen>>
    BY <1>3, YesNamesPid DEF IsRunningSome
  <2>2. /\ site' = [site EXCEPT ![c] = IF @ = "main" THEN "stop" ELSE @]
        /\ site[c] = "stop" => target'[c] = seen[c]
    BY <1>3 DEF IsRunningSome, UsesPid
  <2>3. QED
    BY <1>3, SomeCases, <2>1, <2>2
<1>4. CASE IsRunningNone(c)
  BY <1>4 DEF IsRunningNone, Remove, CanUnlink, Unlink, KeepFile
<1>5. CASE Terminate(c)
  BY <1>5 DEF Terminate, Running, NeedsPid
<1>6. CASE WaitGone(c)
  BY <1>6 DEF WaitGone, Running
<1>7. CASE WaitExpired(c)
  BY <1>7 DEF WaitExpired, Running
<1>8. CASE ForceKill(c)
  BY <1>8 DEF ForceKill, Running, Slay, Dead, NeedsPid
<1>9. CASE StopUnlink(c)
  BY <1>9 DEF StopUnlink
<1>10. CASE Disable(c)
  BY <1>10 DEF Disable
<1>11. CASE Hup(c)
  BY <1>11 DEF Hup
<1>12. CASE UpdateConfigPort(c)
  BY <1>12 DEF UpdateConfigPort
<1>13. CASE PreflightStat(c)
  BY <1>13 DEF PreflightStat
<1>14. CASE PreflightOpen(c)
  BY <1>14 DEF PreflightOpen, Touch, Create, Opens
<1>15. CASE PreflightUnlink(c)
  BY <1>15 DEF PreflightUnlink, Remove, CanUnlink, Unlink
<1>16. CASE PreflightRead(c)
  BY <1>16 DEF PreflightRead
<1>17. CASE PreflightJudge(c)
  <2>1. CASE Fail(c)
    BY <1>17, <2>1
  <2>2. CASE Remove(c) /\ CanUnlink(c) /\ Step(c, "preReopen")
    BY <1>17, <2>2 DEF PreflightJudge, Remove, Unlink
  <2>3. QED
    BY <1>17, <2>1, <2>2 DEF PreflightJudge
<1>18. CASE PreflightReopen(c)
  BY <1>18 DEF PreflightReopen, Touch, Create, Opens
<1>19. CASE Spawn(c)
  BY <1>19 DEF Spawn
<1>20. CASE PidOpen(c)
  BY <1>20 DEF PidOpen, Create, Opens, Untracked
<1>21. CASE PidWrite(c)
  BY <1>21 DEF PidWrite, Untracked
<1>22. CASE Abandon(c)
  BY <1>22 DEF Abandon
<1>23. CASE Activate(c)
  BY <1>23 DEF Activate
<1>24. QED
  BY <1>1, <1>2, <1>3, <1>4, <1>5, <1>6, <1>7, <1>8, <1>9, <1>10, <1>11,
     <1>12, <1>13, <1>14, <1>15, <1>16, <1>17, <1>18, <1>19, <1>20, <1>21,
     <1>22, <1>23 DEF Work

\* Nothing the environment does revives an xray.
LEMMA EnvironmentKnows ==
  ASSUME TypeOK, NEW c \in Clis, Knows(c), NEW p \in Pids,
         XrayExits(p) \/ StrangerComes(p) \/ StrangerGoes(p)
  PROVE  Knows(c)'
<1>1. \A q \in Pids : Running(q)' => Running(q)
  BY DEF XrayExits, StrangerComes, StrangerGoes, Slay, Dead, Running, TypeOK
<1>2. UNCHANGED <<fileVars, cliVars>>
  BY DEF XrayExits, StrangerComes, StrangerGoes
<1>3. QED
  BY <1>1, <1>2 DEF Knows, Fresh, Running, fileVars, cliVars, callVars, TypeOK, NeedsPid

\* What writes no file and revives no xray leaves what others know true.
LEMMA QuietKnows ==
  ASSUME TypeOK, NEW c \in Clis, Knows(c), UNCHANGED fileVars,
         UNCHANGED <<pc[c], cmd[c], site[c], seen[c], target[c], existed[c]>>,
         \A p \in Pids : Running(p)' => Running(p)
  PROVE  Knows(c)'
<1>1. pc[c] \in {"wait", "kill", "unlink"} => ~Running(target[c])'
  BY DEF Knows, TypeOK, NeedsPid
<1>2. QED
  BY <1>1 DEF Knows, Fresh, fileVars

\* A command that is no start leaves the PID file, or removes it.
LEMMA NoStartWrites ==
  ASSUME TypeOK, NEW d \in Clis, Shape(d), cmd[d] # "start", Work(d)
  PROVE  UNCHANGED fileVars \/ pidContent' = Absent
<1>1. CASE \/ Precheck(d) \/ IsRunningRead(d) \/ IsRunningSome(d) \/ Terminate(d)
           \/ WaitGone(d) \/ WaitExpired(d) \/ ForceKill(d) \/ Disable(d) \/ Hup(d)
           \/ UpdateConfigPort(d) \/ PreflightStat(d) \/ PreflightRead(d) \/ Spawn(d)
           \/ Activate(d) \/ Exit(d)
  BY <1>1 DEF Precheck, IsRunningRead, IsRunningSome, Terminate, WaitGone, WaitExpired,
       ForceKill, Disable, Hup, UpdateConfigPort, PreflightStat, PreflightRead, Spawn,
       Activate, Exit
<1>2. CASE IsRunningNone(d) \/ StopUnlink(d)
  BY <1>2 DEF IsRunningNone, StopUnlink, Remove, Unlink, KeepFile
<1>3. CASE \/ PreflightOpen(d) \/ PreflightUnlink(d) \/ PreflightJudge(d)
           \/ PreflightReopen(d) \/ PidOpen(d) \/ PidWrite(d) \/ Abandon(d)
  BY <1>3 DEF PreflightOpen, PreflightUnlink, PreflightJudge, PreflightReopen, PidOpen,
       PidWrite, Abandon, Shape
<1>4. QED
  BY <1>1, <1>2, <1>3 DEF Work

\* Nor does it bring an xray to life.
LEMMA NoStartRevives ==
  ASSUME TypeOK, NEW d \in Clis, Shape(d), cmd[d] # "start", Work(d), NEW p \in Pids, Running(p)'
  PROVE  Running(p)
<1>1. CASE Terminate(d) \/ ForceKill(d) \/ Hup(d) \/ Exit(d)
  BY <1>1 DEF Terminate, ForceKill, Slay, Dead, Hup, Exit, Orphaned, Running, TypeOK
<1>2. CASE Spawn(d)
  BY <1>2 DEF Spawn, Shape
<1>3. CASE ~(Terminate(d) \/ ForceKill(d) \/ Hup(d) \/ Exit(d) \/ Spawn(d))
  BY <1>3 DEF Work, Precheck, IsRunningRead, IsRunningSome, IsRunningNone,
       WaitGone, WaitExpired, StopUnlink, Disable, UpdateConfigPort, PreflightStat,
       PreflightOpen, PreflightUnlink, PreflightRead, PreflightJudge,
       PreflightReopen, PidOpen, PidWrite, Abandon, Activate, env, procVars, Running
<1>4. QED
  BY <1>1, <1>2, <1>3

\* Two commands that are no starts leave each other's knowledge true.
LEMMA BesideKnows ==
  ASSUME TypeOK, NEW c \in Clis, NEW d \in Clis, d # c, Shape(c), Shape(d), Knows(c),
         pc[c] # "idle", cmd[c] # "start", cmd[d] # "start", Work(d)
  PROVE  Knows(c)'
<1>1. UNCHANGED <<pc[c], cmd[c], site[c], seen[c], target[c], existed[c]>>
  BY WorkLocal DEF TypeOK
<1>2. \A p \in Pids : Running(p)' => Running(p)
  BY NoStartRevives
<1>3. CASE UNCHANGED fileVars
  BY <1>1, <1>2, <1>3, QuietKnows
<1>4. CASE pidContent' = Absent
  <2>1. pc[c] \in {"wait", "kill", "unlink"} => ~Running(target[c])'
    BY <1>1, <1>2 DEF Knows, TypeOK, NeedsPid
  <2>2. QED
    BY <1>1, <1>4, <2>1 DEF Knows, Fresh, Shape
<1>5. QED
  BY <1>3, <1>4, NoStartWrites

\* Every step keeps the invariant.
LEMMA NextIInv == IInv /\ [Next]_vars => IInv'
<1> SUFFICES ASSUME IInv, [Next]_vars, ~raced', NEW c \in Clis, pc'[c] # "idle"
             PROVE  Knows(c)' /\ (cmd'[c] = "start" => Alone(c)')
  BY NextTyped, NextShape DEF IInv
<1> TypeOK /\ \A d \in Clis : Shape(d)
  BY DEF IInv
<1>1. ASSUME NEW d \in Clis, Invoke(d) PROVE Knows(c)' /\ (cmd'[c] = "start" => Alone(c)')
  <2>1. /\ ~raced /\ pc[d] = "idle"
        /\ \A e \in Clis : pc[e] # "idle" => cmd[e] # "start" /\ cmd'[d] # "start"
    BY <1>1 DEF Invoke
  <2>2. /\ \A e \in Clis \ {d} : UNCHANGED <<pc[e], cmd[e], site[e], seen[e], target[e], existed[e]>>
        /\ pc'[d] \in {"read", "precheck"} /\ site'[d] # "verify"
        /\ UNCHANGED <<fileVars, state>>
    BY <1>1 DEF Invoke, Goto, TypeOK, procVars
  <2>3. CASE c = d
    BY <2>1, <2>2, <2>3 DEF Alone, Knows
  <2>4. CASE c # d
    <3>1. pc[c] # "idle" /\ Knows(c) /\ cmd'[c] # "start"
      BY <2>1, <2>2, <2>4 DEF IInv
    <3>2. QED
      BY <2>2, <2>4, <3>1, QuietKnows DEF Running
  <2>5. QED
    BY <2>3, <2>4
<1>2. ASSUME NEW d \in Clis, Work(d), ~Exit(d) PROVE Knows(c)' /\ (cmd'[c] = "start" => Alone(c)')
  <2>1. /\ pc[d] # "idle" /\ ~raced /\ cmd' = cmd
        /\ \A e \in Clis : e # d => pc'[e] = pc[e]
    BY <1>2, WorkFrame, WorkLocal
  <2>2. pc[c] # "idle" /\ Knows(c) /\ (cmd[c] = "start" => Alone(c))
    BY <2>1 DEF IInv
  <2>3. cmd'[c] = "start" => Alone(c)'
    BY <2>1, <2>2 DEF Alone
  <2>4. CASE c = d
    BY <1>2, <2>2, <2>3, <2>4, WorkKnows
  <2>5. CASE c # d
    <3>1. cmd[c] # "start" /\ cmd[d] # "start"
      BY <2>1, <2>2, <2>5 DEF IInv, Alone
    <3>2. QED
      BY <1>2, <2>2, <2>3, <2>5, <3>1, BesideKnows
  <2>6. QED
    BY <2>4, <2>5
<1>3. ASSUME NEW d \in Clis, Exit(d) \/ KillCli(d) PROVE Knows(c)' /\ (cmd'[c] = "start" => Alone(c)')
  <2>1. pc[d] # "idle" /\ Ended({d}) /\ Orphaned({d}) /\ UNCHANGED fileVars
    BY <1>3 DEF Exit, KillCli
  <2>2. /\ c # d /\ pc[c] # "idle" /\ ~raced
        /\ UNCHANGED <<pc[c], cmd[c], site[c], seen[c], target[c], existed[c]>>
    BY <2>1 DEF Ended, TypeOK
  <2>3. Knows(c) /\ cmd[c] # "start"
    BY <2>1, <2>2 DEF IInv, Alone
  <2>4. \A p \in Pids : Running(p)' => Running(p)
    BY <2>1 DEF Orphaned, Running, TypeOK
  <2>5. QED
    BY <2>1, <2>2, <2>3, <2>4, QuietKnows
<1>4. ASSUME NEW p \in Pids, XrayExits(p) \/ StrangerComes(p) \/ StrangerGoes(p)
      PROVE Knows(c)' /\ (cmd'[c] = "start" => Alone(c)')
  <2>1. UNCHANGED <<pc, cmd, raced>>
    BY <1>4 DEF XrayExits, StrangerComes, StrangerGoes, cliVars
  <2>2. QED
    BY <1>4, <2>1, EnvironmentKnows DEF IInv, Alone
<1>5. CASE Reboot
  BY <1>5 DEF Reboot, Ended, TypeOK
<1>6. CASE UNCHANGED vars
  <2>1. UNCHANGED <<fileVars, state, pc, cmd, site, seen, target, existed, raced>>
    BY <1>6 DEF vars, procVars, cliVars, callVars
  <2>2. QED
    BY <2>1, QuietKnows DEF IInv, Alone, Running
<1>7. QED
  BY <1>1, <1>2, <1>3, <1>4, <1>5, <1>6 DEF Next, Environment, Work

\* A start that meets no other command, and any command that no start meets, acts
\* on a PID file and a process table as it last saw them, but for a file that is
\* gone (xray.rs, is_running, start, stop).
THEOREM Inductive == Spec => []IInv
  BY InitIInv, NextIInv, PTL DEF Spec

-----------------------------------------------------------------------------
(* The two promises about the PID file, unless a start overlaps a command.   *)

\* A step that knows its place never takes the file from a serving xray.
LEMMA WorkKeeps ==
  ASSUME TypeOK, NEW c \in Clis, Knows(c), Work(c)
  PROVE  Kept
<1> USE DEF Fresh
<1> SUFFICES ASSUME NEW p \in Pids, pidContent = p, Running(p), pidContent' # p
             PROVE  FALSE
  BY DEF Kept
<1>1. CASE \/ Precheck(c) \/ IsRunningRead(c) \/ IsRunningSome(c) \/ Terminate(c)
           \/ WaitGone(c) \/ WaitExpired(c) \/ ForceKill(c) \/ Disable(c) \/ Hup(c)
           \/ UpdateConfigPort(c) \/ PreflightStat(c) \/ PreflightRead(c) \/ Spawn(c)
           \/ Activate(c) \/ Exit(c)
  BY <1>1 DEF Precheck, IsRunningRead, IsRunningSome, Terminate, WaitGone, WaitExpired,
       ForceKill, Disable, Hup, UpdateConfigPort, PreflightStat, PreflightRead, Spawn,
       Activate, Exit, fileVars
<1>2. CASE IsRunningNone(c)
  <2>1. seen[c] # Absent /\ seen[c] = p
    BY <1>2 DEF IsRunningNone, KeepFile, fileVars, Knows
  <2>2. QED
    BY <1>2, <2>1, NoMeansNotLive DEF IsRunningNone
<1>3. CASE PreflightJudge(c)
  <2>1. seen[c] = p
    BY <1>3 DEF PreflightJudge, Knows
  <2>2. FALSE \in Verdicts(p)
    BY <1>3, <2>1 DEF PreflightJudge, KeepFile, fileVars
  <2>3. QED
    BY <2>2, NoMeansNotLive
<1>4. CASE StopUnlink(c)
  BY <1>4 DEF StopUnlink, Knows
<1>5. CASE PreflightOpen(c) \/ PreflightReopen(c)
  BY <1>5 DEF PreflightOpen, PreflightReopen, Touch, fileVars
<1>6. CASE PreflightUnlink(c) \/ PidOpen(c) \/ PidWrite(c) \/ Abandon(c)
  BY <1>6 DEF PreflightUnlink, PidOpen, PidWrite, Abandon, Knows
<1>7. QED
  BY <1>1, <1>2, <1>3, <1>4, <1>5, <1>6 DEF Work

\* A step removes or rewrites the PID file of a serving xray only in a race.
LEMMA NextKeeps == IInv /\ [Next]_vars => raced \/ Kept
<1> SUFFICES ASSUME IInv, [Next]_vars, ~raced PROVE Kept
  OBVIOUS
<1>1. ASSUME NEW c \in Clis, Work(c) PROVE Kept
  <2>1. pc[c] # "idle"
    BY <1>1, WorkFrame DEF Exit, IInv
  <2>2. QED
    BY <1>1, <2>1, WorkKeeps DEF IInv
<1>2. ASSUME ~ \E c \in Clis : Work(c) PROVE Kept
  BY <1>2 DEF Next, Environment, Invoke, KillCli, XrayExits, StrangerComes,
       StrangerGoes, Reboot, vars, fileVars, Kept
<1>3. QED
  BY <1>1, <1>2

\* However many stops, reloads and reports overlap, and in any start that overlaps
\* no other command, nobody takes the PID file from a serving xray, whatever came
\* before (xray.rs, is_running, preflight_pid_file, stop, start).
THEOREM Tracking == Spec => TrackingKeptUnlessRaced
<1>1. IInv /\ [Next]_vars => [raced \/ Kept]_vars
  BY NextKeeps
<1>2. QED
  BY <1>1, Inductive, PTL DEF Spec, TrackingKeptUnlessRaced

\* A process table entry turns into a live xray by a spawn only.
LEMMA OnlySpawn ==
  ASSUME TypeOK, [Next]_vars, NEW p \in Pids, state[p] = "none", LiveXray(p)'
  PROVE  \E c \in Clis : Spawn(c)
<1>1. ASSUME NEW c \in Clis, Work(c), ~Spawn(c) PROVE FALSE
  <2>1. CASE Terminate(c) \/ ForceKill(c) \/ Hup(c) \/ Exit(c)
    BY <2>1 DEF Terminate, ForceKill, Slay, Dead, Hup, Exit, Orphaned, LiveXray, TypeOK
  <2>2. CASE ~(Terminate(c) \/ ForceKill(c) \/ Hup(c) \/ Exit(c))
    <3>1. UNCHANGED state
      BY <1>1, <2>2 DEF Work, Precheck, IsRunningRead, IsRunningSome, IsRunningNone,
           WaitGone, WaitExpired, StopUnlink, Disable, UpdateConfigPort, PreflightStat,
           PreflightOpen, PreflightUnlink, PreflightRead, PreflightJudge,
           PreflightReopen, PidOpen, PidWrite, Abandon, Activate, env, procVars
    <3>2. QED
      BY <3>1 DEF LiveXray
  <2>3. QED
    BY <2>1, <2>2
<1>2. ASSUME NEW c \in Clis, Invoke(c) \/ KillCli(c) PROVE FALSE
  BY <1>2 DEF Invoke, KillCli, Orphaned, procVars, LiveXray, TypeOK
<1>3. ASSUME NEW q \in Pids, XrayExits(q) \/ StrangerComes(q) \/ StrangerGoes(q) PROVE FALSE
  BY <1>3 DEF XrayExits, Slay, Dead, StrangerComes, StrangerGoes, LiveXray, TypeOK
<1>4. CASE Reboot \/ UNCHANGED vars
  BY <1>4 DEF Reboot, vars, procVars, LiveXray, TypeOK
<1>5. QED
  BY <1>1, <1>2, <1>3, <1>4 DEF Next, Environment

\* A `start` that overlaps no other command never spawns a second xray beside one
\* that is tracked and serving (xray.rs:579, preflight_pid_file).
THEOREM NoDuplicate == Spec => SpawnsUntrackedUnlessRaced
<1> DEFINE Single == \A p, q \in Pids : (state[p] = "none" /\ LiveXray(p)')
                       => ~(pidContent = q /\ Running(q))
<1>1. IInv /\ [Next]_vars => [raced \/ Single]_vars
  <2> SUFFICES ASSUME IInv, [Next]_vars, ~raced,
                      NEW p \in Pids, state[p] = "none", LiveXray(p)'
               PROVE  pidContent \notin Pids
    OBVIOUS
  <2>1. PICK c \in Clis : Spawn(c)
    BY OnlySpawn DEF IInv
  <2>2. pc[c] = "spawn" /\ Knows(c)
    BY <2>1 DEF Spawn, IInv
  <2>3. QED
    BY <2>2 DEF Knows
<1>2. QED
  BY <1>1, Inductive, PTL DEF Spec, SpawnsUntrackedUnlessRaced

-----------------------------------------------------------------------------
(* Xrays that no command may untrack however the invocations overlap: those  *)
(* of root's, and all of them where nobody starts another.                   *)

Shielded(p) == LiveXray(p) /\ (owner[p] = "root" \/ "start" \notin Commands)

\* What an invocation may be doing while p is such an xray.
Around(c, p) ==
    /\ pc[c] \notin {"unlink", "disable", "preUnlink", "preReopen", "spawn",
                     "pidOpen", "pidWrite", "abandon", "activate"}
    /\ pc[c] \in {"read", "judge"} => site[c] # "verify"
    /\ pc[c] = "judge" => seen[c] \in {p, Absent}
    /\ pc[c] = "preJudge" => seen[c] = p
    /\ pc[c] = "preOpen" => existed[c]
    /\ pc[c] \in {"term", "wait", "kill", "hup"} => target[c] = p
    /\ pc[c] \in {"wait", "kill"} => CanSignal(c, p)

\* Inductive: the file names such an xray as long as it lives, and nobody has
\* read anything else.
Held(p) ==
    /\ pidContent = p
    /\ "start" \in Commands => pidPerm # "own"
    /\ \A c \in Clis : Around(c, p)
HInv ==
    /\ TypeOK
    /\ \A c \in Clis : Shape(c)
    /\ \A p \in Pids : Shielded(p) => Held(p)

\* Judged dead or a stranger, a PID is not that of an xray, not even of one
\* that is on its way out.
LEMMA NoMeansNoXray ==
  ASSUME NEW p \in Pids, FALSE \in Verdicts(p)
  PROVE  ~LiveXray(p)
  BY Zenon DEF Verdicts, IsProcessAlive, Identities, Named, LiveXray

\* What a step does to the PID file and to p while p is held.
LEMMA WorkHolds ==
  ASSUME TypeOK, NEW c \in Clis, Shape(c), NEW p \in Pids, LiveXray(p), owner[p] = "root" \/ "start" \notin Commands,
         Held(p), Work(c), LiveXray(p)'
  PROVE  UNCHANGED fileVars /\ Around(c, p)' /\ owner'[p] = owner[p]
<1> USE DEF Goto, Leave, Fail, Step, fileVars, procVars, callVars, env, TypeOK, Held
<1> Around(c, p)
  OBVIOUS
<1> USE DEF Around
<1> pidContent = p
  OBVIOUS
<1>1. CASE Precheck(c)
  BY <1>1 DEF Precheck, Shape
<1>2. CASE IsRunningRead(c)
  BY <1>2 DEF IsRunningRead
<1>3. CASE IsRunningSome(c)
  <2>1. seen[c] \in Pids /\ pc[c] = "judge" /\ UNCHANGED <<fileVars, owner, seen>>
    BY <1>3, YesNamesPid DEF IsRunningSome
  <2>2. seen[c] = p
    BY <2>1
  <2>3. /\ site' = [site EXCEPT ![c] = IF @ = "main" THEN "stop" ELSE @]
        /\ site[c] \in {"stop", "reload"} => target'[c] = seen[c]
    BY <1>3 DEF IsRunningSome, UsesPid
  <2>4. QED
    BY <1>3, SomeCases, <2>1, <2>2, <2>3
<1>4. CASE IsRunningNone(c)
  <2>1. pc[c] = "judge" /\ UNCHANGED owner
    BY <1>4 DEF IsRunningNone
  <2>2. seen[c] = Absent
    BY <1>4, <2>1, NoMeansNoXray DEF IsRunningNone
  <2>3. UNCHANGED fileVars
    BY <1>4, <2>2 DEF IsRunningNone, KeepFile
  <2>4. \/ Step(c, "port") \/ Step(c, "preStat") \/ Leave(c, "ok") \/ Fail(c)
    BY <1>4, <2>1 DEF IsRunningNone
  <2>5. QED
    BY <2>1, <2>3, <2>4
<1>5. CASE Terminate(c)
  <2>1. target[c] = p /\ IsProcessAlive(p)
    BY <1>5 DEF Terminate, LiveXray, IsProcessAlive
  <2>2. QED
    BY <1>5, <2>1 DEF Terminate, CanSignal
<1>6. CASE WaitGone(c)
  BY <1>6 DEF WaitGone, LiveXray, IsProcessAlive
<1>7. CASE WaitExpired(c)
  BY <1>7 DEF WaitExpired, CanSignal
<1>8. CASE ForceKill(c)
  BY <1>8 DEF ForceKill, Slay, Dead, LiveXray, IsProcessAlive
<1>9. CASE StopUnlink(c) \/ Disable(c) \/ Abandon(c) \/ Activate(c)
  BY <1>9 DEF StopUnlink, Disable, Abandon, Activate
<1>11. CASE Hup(c)
  BY <1>11 DEF Hup
<1>12. CASE UpdateConfigPort(c)
  BY <1>12 DEF UpdateConfigPort
<1>13. CASE PreflightStat(c)
  BY <1>13 DEF PreflightStat
<1>14. CASE PreflightOpen(c)
  <2>1. cmd[c] = "start" /\ "start" \in Commands
    BY <1>14 DEF PreflightOpen, Shape
  <2>2. QED
    BY <1>14, <2>1 DEF PreflightOpen, Opens
<1>15. CASE PreflightUnlink(c) \/ PreflightReopen(c) \/ Spawn(c) \/ PidOpen(c) \/ PidWrite(c)
  BY <1>15 DEF PreflightUnlink, PreflightReopen, Spawn, PidOpen, PidWrite
<1>16. CASE PreflightRead(c)
  BY <1>16 DEF PreflightRead
<1>17. CASE PreflightJudge(c)
  <2>1. pc[c] = "preJudge" /\ UNCHANGED owner
    BY <1>17 DEF PreflightJudge
  <2>2. Fail(c) /\ KeepFile
    BY <1>17, <2>1, NoMeansNoXray DEF PreflightJudge
  <2>3. QED
    BY <2>1, <2>2 DEF KeepFile
<1>24. CASE Exit(c)
  BY <1>24 DEF Exit, Ended
<1>25. QED
  BY <1>1, <1>2, <1>3, <1>4, <1>5, <1>6, <1>7, <1>8, <1>9, <1>11,
     <1>12, <1>13, <1>14, <1>15, <1>16, <1>17, <1>24 DEF Work

\* The initial xray is the only one, and the file names it.
LEMMA InitHInv == Init => HInv
<1> SUFFICES ASSUME Init, NEW p \in Pids, Shielded(p) PROVE Held(p)
  BY InitTyped, InitShape DEF HInv
<1>1. PICK s \in Scenarios, r \in Pids :
        /\ pidContent = IF s = "clean" THEN Absent ELSE r
        /\ pidPerm = CASE s = "legacy" -> "foreignReadable"
                       [] s = "private" -> "foreignPrivate"
                       [] s = "rootDir" -> "rootDir"
                       [] OTHER -> "own"
        /\ state = [q \in Pids |-> IF q = r /\ s # "clean" THEN "run" ELSE "none"]
        /\ owner = [q \in Pids |->
                      IF q = r /\ s \in {"legacy", "private", "rootDir"} THEN "root" ELSE "user"]
  BY DEF Init
<1>2. p = r /\ s # "clean" /\ pidContent = p
  BY <1>1 DEF Shielded, LiveXray
<1>3. "start" \in Commands => pidPerm # "own"
  <2> SUFFICES ASSUME "start" \in Commands PROVE pidPerm # "own"
    OBVIOUS
  <2>1. owner[p] = "root"
    BY DEF Shielded
  <2>2. s \in {"legacy", "private", "rootDir"}
    BY <1>1, <1>2, <2>1
  <2>3. QED
    BY <1>1, <2>2
<1>4. \A c \in Clis : Around(c, p)
  BY DEF Init, Around
<1>5. QED
  BY <1>2, <1>3, <1>4 DEF Held

\* Only a spawn makes an xray of what is none, and it makes one of the user's.
LEMMA ShieldedBefore ==
  ASSUME TypeOK, \A c \in Clis : Shape(c), [Next]_vars, NEW p \in Pids, Shielded(p)'
  PROVE  Shielded(p)
<1>1. ASSUME NEW c \in Clis, Work(c), ~Spawn(c) PROVE Shielded(p)
  <2>1. CASE Terminate(c) \/ ForceKill(c) \/ Hup(c) \/ Exit(c)
    BY <2>1 DEF Terminate, ForceKill, Slay, Dead, Hup, Exit, Orphaned, LiveXray, TypeOK, Shielded
  <2>2. CASE ~(Terminate(c) \/ ForceKill(c) \/ Hup(c) \/ Exit(c))
    <3>1. UNCHANGED <<state, owner>>
      BY <1>1, <2>2 DEF Work, Precheck, IsRunningRead, IsRunningSome, IsRunningNone,
           WaitGone, WaitExpired, StopUnlink, Disable, UpdateConfigPort, PreflightStat,
           PreflightOpen, PreflightUnlink, PreflightRead, PreflightJudge,
           PreflightReopen, PidOpen, PidWrite, Abandon, Activate, env, procVars
    <3>2. QED
      BY <3>1 DEF LiveXray, Shielded
  <2>3. QED
    BY <2>1, <2>2
<1>2. ASSUME NEW c \in Clis, Spawn(c) PROVE Shielded(p)
  <2>1. euid[c] = "user" /\ "start" \in Commands
    BY <1>2 DEF Spawn, Shape
  <2>2. CASE UNCHANGED procVars
    BY <2>2 DEF procVars, Shielded, LiveXray
  <2>3. CASE \E q \in Pids : /\ state[q] = "none"
                             /\ \E v \in {"run", "dying"} : state' = [state EXCEPT ![q] = v]
                             /\ owner' = [owner EXCEPT ![q] = euid[c]]
    BY <2>1, <2>3 DEF TypeOK, Shielded, LiveXray
  <2>4. QED
    BY <1>2, <2>2, <2>3 DEF Spawn
<1>3. ASSUME NEW c \in Clis, Invoke(c) \/ KillCli(c) PROVE Shielded(p)
  BY <1>3 DEF Invoke, KillCli, Orphaned, procVars, LiveXray, TypeOK, Shielded
<1>4. ASSUME NEW q \in Pids, XrayExits(q) \/ StrangerComes(q) \/ StrangerGoes(q)
      PROVE  Shielded(p)
  BY <1>4 DEF XrayExits, Slay, Dead, StrangerComes, StrangerGoes, LiveXray, TypeOK, Shielded
<1>5. CASE Reboot \/ UNCHANGED vars
  BY <1>5 DEF Reboot, vars, procVars, LiveXray, TypeOK, Shielded
<1>6. QED
  BY <1>1, <1>2, <1>3, <1>4, <1>5 DEF Next, Environment

\* Every step goes on holding what stays alive.
LEMMA NextHolds ==
  ASSUME TypeOK, \A c \in Clis : Shape(c), [Next]_vars,
         NEW p \in Pids, Shielded(p), Held(p), LiveXray(p)'
  PROVE  Held(p)' /\ UNCHANGED fileVars
<1>0. LiveXray(p) /\ (owner[p] = "root" \/ "start" \notin Commands)
  BY DEF Shielded
<1>1. ASSUME NEW c \in Clis, Work(c) PROVE Held(p)' /\ UNCHANGED fileVars
  <2>1. UNCHANGED fileVars /\ Around(c, p)' /\ owner'[p] = owner[p]
    BY <1>0, <1>1, WorkHolds
  <2>2. ASSUME NEW d \in Clis, d # c PROVE Around(d, p)'
    <3>1. Around(d, p)
      BY DEF Held
    <3>2. UNCHANGED <<pc[d], euid[d], site[d], seen[d], target[d], existed[d]>>
      BY <1>1, <2>2, WorkLocal
    <3>3. QED
      BY <2>1, <3>1, <3>2 DEF Around, CanSignal
  <2>3. QED
    BY <2>1, <2>2 DEF Held, fileVars
<1>2. ASSUME NEW c \in Clis, Invoke(c) PROVE Held(p)' /\ UNCHANGED fileVars
  <2>1. PICK k \in Commands, u \in Users :
          /\ euid' = [euid EXCEPT ![c] = u]
          /\ site' = [site EXCEPT ![c] = CASE k = "start" -> "main" [] OTHER -> k]
          /\ pc' = [pc EXCEPT ![c] = IF k = "start" THEN "read" ELSE "precheck"]
          /\ target' = [target EXCEPT ![c] = NoPid]
          /\ UNCHANGED <<fileVars, seen, existed, owner>>
    BY <1>2 DEF Invoke, Goto, procVars
  <2>2. k \in {"start", "stop", "reload", "status"}
    OBVIOUS
  <2>3. \A d \in Clis : Around(d, p)'
    BY <2>1, <2>2 DEF TypeOK, Held, Around, CanSignal
  <2>4. QED
    BY <2>1, <2>3 DEF Held, fileVars
<1>3. ASSUME NEW c \in Clis, KillCli(c) PROVE Held(p)' /\ UNCHANGED fileVars
  BY <1>3 DEF KillCli, Ended, Held, Around, CanSignal, TypeOK, fileVars
<1>4. ASSUME NEW q \in Pids, XrayExits(q) \/ StrangerComes(q) \/ StrangerGoes(q)
      PROVE  Held(p)' /\ UNCHANGED fileVars
  <2>1. UNCHANGED <<fileVars, cliVars>> /\ owner'[p] = owner[p]
    BY <1>0, <1>4 DEF XrayExits, StrangerComes, StrangerGoes, TypeOK, LiveXray
  <2>2. QED
    BY <2>1 DEF Held, Around, CanSignal, fileVars, cliVars, callVars
<1>5. CASE Reboot
  BY <1>5 DEF Reboot, LiveXray
<1>6. CASE UNCHANGED vars
  BY <1>6 DEF vars, fileVars, procVars, cliVars, callVars, Held, Around, CanSignal
<1>7. QED
  BY <1>1, <1>2, <1>3, <1>4, <1>5, <1>6 DEF Next, Environment

\* Every step keeps the invariant.
LEMMA NextHInv == HInv /\ [Next]_vars => HInv'
<1> SUFFICES ASSUME HInv, [Next]_vars, NEW p \in Pids, Shielded(p)' PROVE Held(p)'
  BY NextTyped, NextShape DEF HInv
<1>1. Shielded(p) /\ LiveXray(p)'
  BY ShieldedBefore DEF HInv, Shielded
<1>2. QED
  BY <1>1, NextHolds DEF HInv

\* An xray of root's, and any xray where nobody starts another, is the one in
\* the PID file while it lives, and no invocation, however many there are, is
\* at a step that removes the file or has read anything else.
THEOREM ShieldedHeld == Spec => []HInv
  BY InitHInv, NextHInv, PTL DEF Spec

\* Stops, reloads and status reports never take the PID file from a serving
\* xray, however they overlap and whatever kills them (xray.rs:258).
THEOREM StopsKeepTracking ==
  ASSUME "start" \notin Commands
  PROVE  Spec => TrackingKept
<1>1. HInv /\ [Next]_vars => [Kept]_vars
  <2> SUFFICES ASSUME HInv, [Next]_vars, NEW p \in Pids, pidContent = p, Running(p), Running(p)'
               PROVE  pidContent' = p
    BY DEF Kept
  <2>1. Shielded(p) /\ LiveXray(p)'
    BY DEF Shielded, LiveXray, Running
  <2>2. QED
    BY <2>1, NextHolds DEF HInv, fileVars
<1>2. QED
  BY <1>1, ShieldedHeld, PTL DEF Spec, TrackingKept

\* The proxy goes off only in the last step of a stop, or as one is killed.
LEMMA OnlyDisable ==
  ASSUME TypeOK, [Next]_vars, proxy # "off", proxy' = "off"
  PROVE  \E c \in Clis : pc[c] = "disable"
<1>1. ASSUME NEW c \in Clis, Work(c) PROVE pc[c] = "disable"
  <2>1. CASE Activate(c)
    BY <2>1 DEF Activate, HalfDone, TypeOK
  <2>2. CASE ~Activate(c)
    BY <1>1, <2>2 DEF Work, Precheck, IsRunningRead, IsRunningSome, IsRunningNone, Terminate,
         WaitGone, WaitExpired, ForceKill, StopUnlink, Disable, Hup, UpdateConfigPort,
         PreflightStat, PreflightOpen, PreflightUnlink, PreflightRead, PreflightJudge,
         PreflightReopen, Spawn, PidOpen, PidWrite, Abandon, Exit, env
  <2>3. QED
    BY <2>1, <2>2
<1>2. ASSUME NEW c \in Clis, KillCli(c) PROVE pc[c] = "disable"
  BY <1>2 DEF KillCli, HalfDone, TypeOK
<1>3. ASSUME \/ \E c \in Clis : Invoke(c)
             \/ \E p \in Pids : XrayExits(p) \/ StrangerComes(p) \/ StrangerGoes(p)
             \/ Reboot
             \/ UNCHANGED vars
      PROVE  FALSE
  BY <1>3 DEF Invoke, XrayExits, StrangerComes, StrangerGoes, Reboot, vars
<1>4. QED
  BY <1>1, <1>2, <1>3 DEF Next, Environment

\* Stops, reloads and status reports switch the proxy off only when the xray
\* is dead, however they overlap and whatever kills them (main.rs, cmd_stop).
THEOREM StopsOutlast ==
  ASSUME "start" \notin Commands
  PROVE  Spec => ProxyOutlivesXray
<1> DEFINE Last == proxy # "off" /\ proxy' = "off" => \A p \in Pids : LiveXray(p) => p \in lost
<1>1. HInv /\ [Next]_vars => [Last]_vars
  <2> SUFFICES ASSUME HInv, [Next]_vars, proxy # "off", proxy' = "off",
                      NEW p \in Pids, LiveXray(p)
               PROVE  FALSE
    OBVIOUS
  <2>1. Held(p)
    BY DEF HInv, Shielded
  <2>2. QED
    BY <2>1, OnlyDisable DEF HInv, Held, Around
<1>2. QED
  BY <1>1, ShieldedHeld, PTL DEF Spec, ProxyOutlivesXray

\* No command of an ordinary user, however many overlap, brings down or
\* untracks a serving xray of root's (xray.rs: kill, remove_file, is_running).
THEOREM RootXrayKept == Spec => RootXrayUntouched
<1> DEFINE Untouched == \A p \in Pids :
         (/\ owner[p] = "root" /\ pidContent = p /\ Running(p)
          /\ faults' = faults /\ \A c \in Clis : euid[c] = "user")
         => Running(p)' /\ pidContent' = p
<1>1. HInv /\ [Next]_vars => [Untouched]_vars
  <2> SUFFICES ASSUME HInv, [Next]_vars, NEW p \in Pids, owner[p] = "root", pidContent = p,
                      Running(p), faults' = faults, \A c \in Clis : euid[c] = "user"
               PROVE  Running(p)' /\ pidContent' = p
    OBVIOUS
  <2> TypeOK /\ Shielded(p) /\ Held(p) /\ \A c \in Clis : ~CanSignal(c, p)
    BY DEF HInv, Shielded, LiveXray, Running, CanSignal
  <2>1. ASSUME NEW c \in Clis, Work(c) PROVE Running(p)'
    <3>1. CASE Terminate(c) \/ ForceKill(c) \/ Hup(c) \/ Exit(c)
      <4>1. Around(c, p)
        BY DEF Held
      <4>2. QED
        BY <3>1, <4>1 DEF Around, Terminate, ForceKill, Hup, Exit, Orphaned, Running, TypeOK,
             IsProcessAlive
    <3>2. CASE Spawn(c)
      BY <3>2 DEF Spawn, Held, Around
    <3>3. CASE ~(Terminate(c) \/ ForceKill(c) \/ Hup(c) \/ Exit(c) \/ Spawn(c))
      BY <2>1, <3>3 DEF Work, Precheck, IsRunningRead, IsRunningSome, IsRunningNone,
           WaitGone, WaitExpired, StopUnlink, Disable, UpdateConfigPort, PreflightStat,
           PreflightOpen, PreflightUnlink, PreflightRead, PreflightJudge,
           PreflightReopen, PidOpen, PidWrite, Abandon, Activate, env, procVars, Running
    <3>4. QED
      BY <3>1, <3>2, <3>3
  <2>2. ASSUME NEW c \in Clis, Invoke(c) PROVE Running(p)'
    BY <2>2 DEF Invoke, procVars, Running
  <2>3. ASSUME NEW c \in Clis, KillCli(c) PROVE FALSE
    BY <2>3 DEF KillCli, TypeOK
  <2>4. ASSUME NEW q \in Pids, XrayExits(q) \/ StrangerComes(q) \/ StrangerGoes(q)
        PROVE  Running(p)'
    BY <2>4 DEF XrayExits, Slay, Dead, StrangerComes, StrangerGoes, Running, TypeOK
  <2>5. CASE Reboot
    BY <2>5 DEF Reboot, TypeOK
  <2>6. ASSUME UNCHANGED vars PROVE Running(p)'
    BY <2>6 DEF vars, procVars, Running
  <2>7. Running(p)'
    BY <2>1, <2>2, <2>3, <2>4, <2>5, <2>6 DEF Next, Environment
  <2>8. QED
    BY <2>7, NextHolds DEF HInv, LiveXray, Running, fileVars
<1>2. QED
  BY <1>1, ShieldedHeld, PTL DEF Spec, RootXrayUntouched

-----------------------------------------------------------------------------
(* One command at a time.  With only one slot ever used, nothing that another *)
(* could have left behind stands between a command and what it promises.      *)

Lone(c) == \A d \in Clis \ {c} : outcome[d] = "none"

\* Every live xray is in the file, known to be lost, or the one just spawned.
Tracked(c) ==
    \A p \in Pids : LiveXray(p) =>
        \/ p = pidContent
        \/ p \in lost
        \/ pc[c] \in {"pidOpen", "pidWrite"} /\ p = target[c]

\* Inductive: on the way to a successful end each command holds the part of its
\* promise that it has already brought about.
Behind(c) ==
    /\ ~raced
    /\ Tracked(c)
    /\ pc[c] \in {"wait", "kill"} /\ LiveXray(target[c]) => CanSignal(c, target[c])
    /\ pc[c] \in {"unlink", "disable"} => ~LiveXray(target[c])
    /\ pc[c] = "disable" =>
          /\ target[c] \in Pids
          /\ pidContent = Absent \/ (pidPerm = "rootDir" /\ pidContent = target[c])
    /\ pc[c] = "pidWrite" => fd[c]
    /\ pc[c] \in {"read", "judge"} /\ site[c] = "verify" => pidContent = target[c]
    /\ pc[c] = "activate" => pidContent = target[c]
    /\ pc[c] \in {"idle", "exit"} /\ outcome[c] = "ok" =>
          Promise(c) /\ (cmd[c] = "stop" => target[c] \in Pids)

BInv ==
    /\ IInv
    /\ \A c \in Clis : Lone(c) => Behind(c)

\* A lone invocation's own steps keep its promises in sight.
LEMMA WorkBehind ==
  ASSUME TypeOK, NEW c \in Clis, Shape(c), Knows(c), Behind(c), Work(c)
  PROVE  Behind(c)'
<1> USE DEF Goto, Leave, Fail, Step, fileVars, procVars, callVars, env, TypeOK, Tracked
<1> USE DEF Behind
<1>1. CASE Precheck(c)
  BY <1>1 DEF Precheck, LiveXray, Shape
<1>2. CASE IsRunningRead(c)
  BY <1>2 DEF IsRunningRead, LiveXray
<1>3. CASE IsRunningSome(c)
  <2>1. /\ pc[c] = "judge" /\ UNCHANGED <<fileVars, cmd, state, owner, lost, raced, fd, proxy>>
        /\ site' = [site EXCEPT ![c] = IF @ = "main" THEN "stop" ELSE @]
        /\ site[c] = "verify" => target' = target
    BY <1>3 DEF IsRunningSome, UsesPid
  <2>2. QED
    BY <1>3, SomeCases, <2>1 DEF Shape, Promise, LiveXray
<1>4. CASE IsRunningNone(c)
  <2>1. /\ pc[c] = "judge" /\ UNCHANGED <<cmd, site, target, state, owner, lost, raced, proxy>>
        /\ FALSE \in Verdicts(seen[c])
    BY <1>4 DEF IsRunningNone
  <2>2. \/ site[c] = "main" /\ Step(c, "port")
        \/ site[c] = "start" /\ Step(c, "preStat")
        \/ site[c] = "verify" /\ Step(c, "abandon")
        \/ site[c] = "status" /\ Leave(c, "ok")
        \/ Fail(c)
    BY <1>4 DEF IsRunningNone
  <2>3. pidContent' = pidContent \/ (seen[c] = pidContent /\ pidContent' = Absent)
    BY <1>4, <2>1 DEF IsRunningNone, KeepFile, Remove, Unlink, Knows, Fresh
  <2>4. \A p \in Pids : LiveXray(p) /\ p = pidContent => pidContent' = p
    BY <2>1, <2>3, NoMeansNoXray
  <2>5. QED
    BY <2>1, <2>2, <2>4 DEF Shape, Promise, LiveXray
<1>5. CASE Terminate(c)
  <2>1. pc[c] = "term" /\ UNCHANGED <<fileVars, cmd, euid, site, target, owner, lost, raced, proxy, fd>>
    BY <1>5 DEF Terminate
  <2>2. \A p \in Pids : LiveXray(p)' => LiveXray(p)
    BY <1>5 DEF Terminate, LiveXray
  <2>3. \/ Fail(c)
        \/ Step(c, "wait") /\ (LiveXray(target[c]) => CanSignal(c, target[c]))
    BY <1>5 DEF Terminate, LiveXray, IsProcessAlive
  <2>4. QED
    BY <2>1, <2>2, <2>3 DEF CanSignal, NeedsPid
<1>6. CASE WaitGone(c) \/ WaitExpired(c)
  BY <1>6 DEF WaitGone, WaitExpired, LiveXray, IsProcessAlive, CanSignal
<1>8. CASE ForceKill(c)
  <2>1. /\ pc[c] = "kill" /\ Step(c, "unlink")
        /\ UNCHANGED <<fileVars, cmd, euid, site, target, owner, raced, proxy, fd>>
    BY <1>8 DEF ForceKill
  <2>2. \A p \in Pids : LiveXray(p)' => LiveXray(p) /\ p # target[c] /\ (p \in lost => p \in lost')
    BY <1>8 DEF ForceKill, Slay, Dead, LiveXray, IsProcessAlive, NeedsPid
  <2>3. QED
    BY <2>1, <2>2 DEF NeedsPid
<1>9. CASE StopUnlink(c)
  <2>1. pc[c] = "unlink" /\ UNCHANGED <<cmd, site, target, state, owner, lost, raced, proxy>>
    BY <1>9 DEF StopUnlink
  <2>2. \/ pidContent' = Absent
        \/ pidContent' = pidContent /\ pidPerm' = pidPerm /\ pidPerm = "rootDir"
    BY <1>9 DEF StopUnlink, Remove, Unlink, KeepFile, CanUnlink
  <2>3. Step(c, IF cmd[c] = "start" THEN "port" ELSE "disable")
    BY <1>9 DEF StopUnlink
  <2>4. pidContent \in {target[c], Absent} /\ ~LiveXray(target[c]) /\ target[c] \in Pids
    BY <2>1 DEF Knows, Fresh, NeedsPid
  <2>5. QED
    BY <2>1, <2>2, <2>3, <2>4 DEF LiveXray
<1>10. CASE Disable(c)
  BY <1>10 DEF Disable, Promise, Shape, LiveXray
<1>11. CASE Hup(c)
  <2>1. pc[c] = "hup" /\ UNCHANGED <<fileVars, cmd, euid, site, target, owner, lost, raced, proxy, fd>>
    BY <1>11 DEF Hup
  <2>2. \A p \in Pids : LiveXray(p)' => LiveXray(p)
    BY <1>11 DEF Hup, LiveXray
  <2>3. Leave(c, "ok") \/ Fail(c)
    BY <1>11 DEF Hup
  <2>4. QED
    BY <2>1, <2>2, <2>3 DEF Promise, Shape
<1>12. CASE UpdateConfigPort(c) \/ PreflightStat(c) \/ PreflightRead(c)
  BY <1>12 DEF UpdateConfigPort, PreflightStat, PreflightRead, LiveXray
<1>13. CASE PreflightOpen(c) \/ PreflightReopen(c)
  <2>1. /\ pc[c] \in {"preOpen", "preReopen"}
        /\ UNCHANGED <<cmd, site, target, state, owner, lost, raced, proxy>>
    BY <1>13 DEF PreflightOpen, PreflightReopen
  <2>2. pidContent' = pidContent \/ pidContent = Absent
    BY <1>13 DEF PreflightOpen, PreflightReopen, Touch, Create
  <2>3. \/ Fail(c) \/ Step(c, "spawn") \/ Step(c, "preUnlink") \/ Step(c, "preRead")
    BY <1>13 DEF PreflightOpen, PreflightReopen
  <2>4. QED
    BY <2>1, <2>2, <2>3 DEF LiveXray
<1>14. CASE PreflightUnlink(c) \/ Abandon(c)
  <2>1. /\ pc[c] \in {"preUnlink", "abandon"}
        /\ UNCHANGED <<cmd, site, target, state, owner, lost, raced, proxy>>
    BY <1>14 DEF PreflightUnlink, Abandon
  <2>2. pidContent \notin Pids
    BY <2>1 DEF Knows
  <2>3. Fail(c) \/ Step(c, "spawn")
    BY <1>14 DEF PreflightUnlink, Abandon
  <2>4. QED
    BY <2>1, <2>2, <2>3 DEF LiveXray
<1>15. CASE PreflightJudge(c)
  <2>1. pc[c] = "preJudge" /\ UNCHANGED <<cmd, site, target, state, owner, lost, raced, proxy>>
    BY <1>15 DEF PreflightJudge
  <2>2. Fail(c) \/ Step(c, "preReopen")
    BY <1>15 DEF PreflightJudge
  <2>3. pidContent' = pidContent \/ FALSE \in Verdicts(pidContent)
    BY <1>15, <2>1 DEF PreflightJudge, KeepFile, Knows
  <2>4. \A p \in Pids : LiveXray(p) /\ p = pidContent => pidContent' = p
    BY <2>3, NoMeansNoXray
  <2>5. QED
    BY <2>1, <2>2, <2>4 DEF LiveXray
<1>16. CASE Spawn(c)
  <2>1. /\ pc[c] = "spawn" /\ pidContent = Absent
        /\ UNCHANGED <<fileVars, cmd, site, lost, raced, proxy, fd>>
    BY <1>16 DEF Spawn, Knows
  <2>2. CASE Fail(c) /\ UNCHANGED <<procVars, target>>
    BY <2>1, <2>2 DEF LiveXray
  <2>3. CASE \E p \in Pids : /\ \A q \in Pids : q # p => state'[q] = state[q]
                             /\ target' = [target EXCEPT ![c] = p]
                             /\ Step(c, "pidOpen")
    BY <2>1, <2>3 DEF LiveXray
  <2>4. QED
    BY <1>16, <2>2, <2>3 DEF Spawn
<1>17. CASE PidOpen(c)
  <2>1. /\ pc[c] = "pidOpen" /\ pidContent = Absent
        /\ UNCHANGED <<cmd, site, target, state, raced, proxy>>
    BY <1>17 DEF PidOpen, Knows
  <2>2. CASE Create /\ fd' = [fd EXCEPT ![c] = TRUE] /\ Step(c, "pidWrite") /\ UNCHANGED lost
    <3>1. fd'[c]
      BY <2>2, Zenon
    <3>2. QED
      BY <2>1, <2>2, <3>1 DEF Create, LiveXray
  <2>3. CASE Untracked(c) /\ KeepFile
    BY <2>1, <2>3 DEF Untracked, KeepFile, LiveXray
  <2>4. QED
    BY <1>17, <2>2, <2>3 DEF PidOpen
<1>18. CASE PidWrite(c)
  <2>1. /\ pc[c] = "pidWrite" /\ pidContent = Blank /\ fd[c]
        /\ UNCHANGED <<cmd, target, state, raced, proxy>>
    BY <1>18 DEF PidWrite, Knows
  <2>2. CASE Untracked(c) /\ UNCHANGED <<pidContent, site>>
    BY <2>1, <2>2 DEF Untracked, LiveXray
  <2>3. CASE pidContent' = target[c] /\ Step(c, "read") /\ UNCHANGED lost
    BY <2>1, <2>3 DEF LiveXray
  <2>4. QED
    BY <1>18, <2>1, <2>2, <2>3 DEF PidWrite
<1>19. CASE Activate(c)
  BY <1>19 DEF Activate, Promise, Shape, LiveXray
<1>20. CASE Exit(c)
  <2>1. /\ pc[c] = "exit" /\ pc'[c] = "idle" /\ UNCHANGED <<fileVars, cmd, target, outcome, proxy, lost>>
        /\ ~raced'
    BY <1>20 DEF Exit, Ended
  <2>2. \A p \in Pids : LiveXray(p)' => LiveXray(p)
    BY <1>20 DEF Exit, Orphaned, LiveXray
  <2>3. outcome[c] = "ok" => Promise(c)'
    BY <2>1, <2>2 DEF Promise
  <2>4. QED
    BY <2>1, <2>2, <2>3
<1>21. QED
  BY <1>1, <1>2, <1>3, <1>4, <1>5, <1>6, <1>8, <1>9, <1>10, <1>11, <1>12, <1>13,
     <1>14, <1>15, <1>16, <1>17, <1>18, <1>19, <1>20 DEF Work

\* What takes no xray to life and writes no file leaves the promises in sight.
LEMMA QuietBehind ==
  ASSUME TypeOK, NEW c \in Clis, Behind(c), UNCHANGED <<fileVars, proxy>>,
         UNCHANGED <<pc[c], cmd[c], euid[c], site[c], target[c], outcome[c], fd[c]>>, ~raced',
         \A p \in Pids : LiveXray(p)' => LiveXray(p) /\ owner'[p] = owner[p] /\ (p \in lost => p \in lost')
  PROVE  Behind(c)'
<1>1. Tracked(c)'
  BY DEF Behind, Tracked, fileVars
<1>2. pc[c] \in {"wait", "kill"} /\ LiveXray(target[c])' => CanSignal(c, target[c])'
  BY DEF Behind, TypeOK, NeedsPid, CanSignal
<1>3. pc[c] \in {"unlink", "disable"} => ~LiveXray(target[c])'
  BY DEF Behind, TypeOK, NeedsPid
<1>4. pc[c] \in {"idle", "exit"} /\ outcome[c] = "ok" => Promise(c)'
  BY DEF Behind, Promise, fileVars
<1>5. QED
  BY <1>1, <1>2, <1>3, <1>4 DEF Behind, fileVars

\* Who has had the machine alone after a step had it alone before.
LEMMA LoneBefore ==
  ASSUME TypeOK, \A d \in Clis : Shape(d), [Next]_vars, NEW c \in Clis, Lone(c)'
  PROVE  /\ Lone(c)
         /\ \A d \in Clis : Invoke(d) \/ Work(d) \/ KillCli(d) => d = c
<1>1. ASSUME NEW d \in Clis, Work(d) PROVE Lone(c) /\ d = c
  <2>1. /\ outcome[d] # "none"
        /\ outcome'[d] \in {outcome[d], "ok", "failed"}
        /\ \A e \in Clis : e # d => outcome'[e] = outcome[e]
    BY <1>1, WorkLocal DEF Shape
  <2>2. QED
    BY <2>1 DEF Lone
<1>2. ASSUME NEW d \in Clis, Invoke(d) PROVE Lone(c) /\ d = c
  BY <1>2 DEF Invoke, TypeOK, Lone
<1>3. ASSUME NEW d \in Clis, KillCli(d) PROVE Lone(c) /\ d = c
  BY <1>3 DEF KillCli, TypeOK, Lone
<1>4. ASSUME NEW p \in Pids, XrayExits(p) \/ StrangerComes(p) \/ StrangerGoes(p) PROVE Lone(c)
  BY <1>4 DEF XrayExits, StrangerComes, StrangerGoes, cliVars, Lone
<1>5. ASSUME Reboot PROVE Lone(c)
  BY <1>5 DEF Reboot, TypeOK, Lone
<1>6. ASSUME UNCHANGED vars PROVE Lone(c)
  BY <1>6 DEF vars, cliVars, Lone
<1>7. QED
  BY <1>1, <1>2, <1>3, <1>4, <1>5, <1>6 DEF Next, Environment

\* The initial xray, if there is one, is the tracked one.
LEMMA InitBInv == Init => BInv
<1> SUFFICES ASSUME Init, NEW c \in Clis PROVE Behind(c)
  BY InitIInv DEF BInv
<1>1. pc[c] = "idle" /\ outcome[c] = "none" /\ ~raced
  BY DEF Init
<1>2. \A p \in Pids : LiveXray(p) => p = pidContent
  BY DEF Init, LiveXray
<1>3. QED
  BY <1>1, <1>2 DEF Behind, Tracked

\* Every step keeps the invariant.
LEMMA NextBInv == BInv /\ [Next]_vars => BInv'
<1> SUFFICES ASSUME BInv, [Next]_vars, NEW c \in Clis, Lone(c)' PROVE Behind(c)'
  BY NextIInv DEF BInv
<1>0. /\ TypeOK /\ \A d \in Clis : Shape(d)
      /\ Lone(c) /\ Behind(c) /\ ~raced
      /\ \A d \in Clis : Invoke(d) \/ Work(d) \/ KillCli(d) => d = c
      /\ pc[c] # "idle" => Knows(c)
      /\ \A d \in Clis : d # c => pc[d] = "idle"
  <2>1. TypeOK /\ \A d \in Clis : Shape(d)
    BY DEF BInv, IInv
  <2>2. Lone(c) /\ \A d \in Clis : Invoke(d) \/ Work(d) \/ KillCli(d) => d = c
    BY <2>1, LoneBefore
  <2>3. Behind(c) /\ ~raced
    BY <2>2 DEF BInv, Behind
  <2>4. QED
    BY <2>1, <2>2, <2>3 DEF BInv, IInv, Lone, Shape
<1> USE <1>0
<1>1. CASE Work(c)
  BY <1>1, WorkLocal, WorkBehind
<1>2. CASE Invoke(c)
  <2>1. /\ pc'[c] \in {"read", "precheck"} /\ site'[c] # "verify" /\ outcome'[c] = "pending"
        /\ ~raced' /\ pc[c] = "idle"
        /\ UNCHANGED <<fileVars, state, lost>>
    BY <1>2 DEF Invoke, Goto, procVars, TypeOK
  <2>2. QED
    BY <2>1 DEF Behind, Tracked, LiveXray, fileVars
<1>3. CASE KillCli(c)
  <2>1. /\ pc'[c] = "idle" /\ outcome'[c] = "killed" /\ ~raced'
        /\ UNCHANGED fileVars
    BY <1>3 DEF KillCli, Ended, TypeOK
  <2>2. \A p \in Pids : LiveXray(p)' => LiveXray(p)
    BY <1>3 DEF KillCli, Orphaned, LiveXray
  <2>3. \A p \in Pids : LiveXray(p) /\ (p \in lost \/ (pc[c] \in {"pidOpen", "pidWrite"} /\ p = target[c]))
                          => p \in lost'
    BY <1>3 DEF KillCli
  <2>4. QED
    BY <2>1, <2>2, <2>3 DEF Behind, Tracked, fileVars
<1>4. ASSUME NEW p \in Pids, XrayExits(p) \/ StrangerComes(p) \/ StrangerGoes(p)
      PROVE  Behind(c)'
  <2>1. UNCHANGED <<fileVars, cliVars, raced, proxy>>
    BY <1>4 DEF XrayExits, StrangerComes, StrangerGoes
  <2>2. \A q \in Pids : LiveXray(q)' => LiveXray(q) /\ owner'[q] = owner[q] /\ (q \in lost => q \in lost')
    BY <1>4 DEF XrayExits, StrangerComes, StrangerGoes, Slay, Dead, LiveXray, TypeOK
  <2>3. QED
    BY <2>1, <2>2, QuietBehind DEF cliVars, callVars
<1>5. CASE Reboot
  <2>1. /\ pc'[c] = "idle" /\ ~raced' /\ UNCHANGED <<fileVars, cmd, target, proxy>>
        /\ outcome'[c] = IF pc[c] = "idle" THEN outcome[c] ELSE "killed"
        /\ \A p \in Pids : ~LiveXray(p)'
    BY <1>5 DEF Reboot, Ended, TypeOK, LiveXray
  <2>2. outcome'[c] = "ok" => Promise(c)' /\ (cmd[c] = "stop" => target[c] \in Pids)
    BY <2>1 DEF Behind, Promise, fileVars
  <2>3. QED
    BY <2>1, <2>2 DEF Behind, Tracked
<1>6. CASE UNCHANGED vars
  <2>1. UNCHANGED <<fileVars, procVars, proxy, cliVars, lost, raced>>
    BY <1>6 DEF vars
  <2>2. QED
    BY <2>1, QuietBehind DEF cliVars, callVars, procVars, LiveXray
<1>7. QED
  BY <1>1, <1>2, <1>3, <1>4, <1>5, <1>6 DEF Next, Environment

\* With one slot in use, each command holds the part of its promise that it has
\* brought about, and nothing but the file, or a report, answers for an xray.
THEOREM LoneBehind == Spec => []BInv
  BY InitBInv, NextBInv, PTL DEF Spec

\* One command at a time: between commands every live xray is the one in the
\* PID file, unless a failed write reported it or its corvex was killed before
\* the write (xray.rs:258).
THEOREM NoOrphans == Spec => []NoneSilentlyOrphaned
<1>1. BInv => NoneSilentlyOrphaned
  BY DEF BInv, NoneSilentlyOrphaned, OneAtATime, Lone, NoSilentOrphan, Behind, Tracked
<1>2. QED
  BY <1>1, LoneBehind, PTL

\* One command at a time: what a successful start or stop promises holds until
\* the next one begins (main.rs, cmd_start and cmd_stop).
THEOREM Promises == Spec => []PromisesKept
<1>1. BInv => PromisesKept
  <2> SUFFICES ASSUME BInv, NEW c \in Clis, Lone(c), NEW d \in Clis, pc[d] = "idle", outcome[d] = "ok"
               PROVE  Promise(d)
    BY DEF PromisesKept, OneAtATime, Lone, PromiseKept
  <2>1. d = c
    BY DEF Lone
  <2>2. QED
    BY <2>1 DEF BInv, Behind
<1>2. QED
  BY <1>1, LoneBehind, PTL

\* One command at a time, starts included: the proxy goes off only when every
\* xray but those reported lost is dead.
THEOREM LoneOutlasts ==
  Spec => [][OneAtATime /\ proxy # "off" /\ proxy' = "off"
               => \A p \in Pids : LiveXray(p) => p \in lost]_vars
<1> DEFINE Last == OneAtATime /\ proxy # "off" /\ proxy' = "off"
                     => \A p \in Pids : LiveXray(p) => p \in lost
<1>1. BInv /\ [Next]_vars => [Last]_vars
  <2> SUFFICES ASSUME BInv, [Next]_vars, NEW c \in Clis, Lone(c), proxy # "off", proxy' = "off",
                      NEW p \in Pids, LiveXray(p)
               PROVE  p \in lost
    BY DEF OneAtATime, Lone
  <2>1. PICK d \in Clis : pc[d] = "disable"
    BY OnlyDisable DEF BInv, IInv
  <2>2. d = c
    BY <2>1 DEF BInv, IInv, Shape, Lone
  <2>3. QED
    BY <2>1, <2>2 DEF BInv, Behind, Tracked
<1>2. QED
  BY <1>1, LoneBehind, PTL DEF Spec
=============================================================================
