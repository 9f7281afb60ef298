---------------------------- MODULE XrayLifecycle ----------------------------
(***************************************************************************)
(* The life of the tracked xray process: what `corvex start`, `stop`,      *)
(* `reload` and `status` do to the PID file, the process table and the     *)
(* system proxy (src/src/xray.rs and the callers in src/src/main.rs, unix  *)
(* build).  Nothing in corvex locks anything, so every invocation is a     *)
(* process of its own and each system call on shared state is one step.    *)
(* Two neighbouring calls share a step only where the second acts on a     *)
(* value the first has already fixed (see IsRunningNone and PidOpen).      *)
(*                                                                         *)
(* What happens before main_algorithm (settings, subscriptions, the AWG    *)
(* tunnel, the text of config.json) is not part of this module: it touches *)
(* none of these variables.                                                *)
(***************************************************************************)
EXTENDS Naturals, FiniteSets

CONSTANTS
    Clis,             \* slots for concurrently running corvex invocations
    Pids,             \* process ids the kernel hands out (and hands out again)
    NoPid, NoCli,     \* "none" values
    Absent, Blank,    \* PID file contents: no file; a file that holds no PID
    Commands,         \* subset of {"start", "stop", "reload", "status"}
    Scenarios,        \* initial situations, subset of those in Init
    Hazards,          \* subset of {"crash", "kill", "reboot", "reuse"}
    MaxFaults,        \* bound on crashes, killed invocations and reboots
    PsMayFail,        \* whether `ps` may be missing or fail
    ZombieAnswers     \* what `ps -o comm=` may say of a zombie: is it xray?

Users == {"user", "root"}

ASSUME ConstantsApart ==
    /\ NoPid \notin Pids /\ NoCli \notin Clis
    /\ Absent \notin Pids /\ Blank \notin Pids /\ Absent # Blank
ASSUME ConstantsTyped ==
    /\ Commands \subseteq {"start", "stop", "reload", "status"}
    /\ Scenarios \subseteq {"clean", "running", "legacy", "private", "rootDir"}
    /\ Hazards \subseteq {"crash", "kill", "reboot", "reuse"}
    /\ MaxFaults \in Nat
    /\ PsMayFail \in BOOLEAN
    /\ ZombieAnswers \subseteq BOOLEAN /\ ZombieAnswers # {}

VARIABLES
    \* The PID file: what it holds, and what the user may do at its path.
    \* corvex creates it 0600 under the user ("own"); an older corvex run by
    \* root may have left one that only root can write but all can read
    \* ("foreignReadable"), one the user cannot even read ("foreignPrivate"),
    \* or a readable one in a directory of root's ("rootDir").
    pidContent, pidPerm,
    \* The process table.  "run": an xray serving its port; "dying": an xray
    \* on its way out (signalled, or unable to come up); "zombie": exited but
    \* not waited for by the corvex that spawned it; "stranger": not xray.
    state, owner, parent,
    proxy,            \* the operating system's proxy switch
    \* One invocation: its program counter, command, uid and Rust locals.
    pc, cmd, euid,
    site,             \* which call of is_running is in progress
    seen,             \* the PID file text it has read
    target,           \* the PID it spawned, signals or reports
    existed,          \* preflight_pid_file's existed_before
    fd,               \* its open PID file descriptor is still linked
    outcome,          \* "pending", "ok", "failed"
    faults,           \* crashes, kills and reboots so far
    lost,             \* history: PIDs whose xray became untracked, known so
    raced             \* history: a start and another invocation have met, one is in progress

fileVars == <<pidContent, pidPerm>>
procVars == <<state, owner, parent>>
callVars == <<site, seen, target, existed>>
cliVars  == <<pc, cmd, euid, outcome, callVars, fd>>
vars == <<fileVars, procVars, proxy, cliVars, faults, lost, raced>>

PCs == {"idle", "precheck", "read", "judge", "term", "wait", "kill", "unlink",
        "port", "preStat", "preOpen", "preUnlink", "preRead", "preJudge",
        "preReopen", "spawn", "pidOpen", "pidWrite", "abandon",
        "activate", "disable", "hup", "exit"}
NeedsPid == {"term", "wait", "kill", "unlink", "hup", "pidOpen", "pidWrite"}
Sites == {"main", "stop", "start", "verify", "reload", "status"}

\* Types, and that a step that signals or records a PID has one.
TypeOK ==
    /\ pidContent \in Pids \cup {Absent, Blank}
    /\ pidPerm \in {"own", "foreignReadable", "foreignPrivate", "rootDir"}
    /\ state \in [Pids -> {"none", "run", "dying", "zombie", "stranger"}]
    /\ owner \in [Pids -> Users]
    /\ parent \in [Pids -> Clis \cup {NoCli}]
    /\ proxy \in {"off", "mixed", "on"}
    /\ pc \in [Clis -> PCs]
    /\ cmd \in [Clis -> {"start", "stop", "reload", "status"}]
    /\ euid \in [Clis -> Users]
    /\ site \in [Clis -> Sites]
    /\ seen \in [Clis -> Pids \cup {Absent, Blank}]
    /\ target \in [Clis -> Pids \cup {NoPid}]
    /\ \A c \in Clis : pc[c] \in NeedsPid => target[c] \in Pids
    /\ existed \in [Clis -> BOOLEAN]
    /\ fd \in [Clis -> BOOLEAN]
    /\ outcome \in [Clis -> {"none", "pending", "ok", "failed", "killed"}]
    /\ faults \in 0..MaxFaults
    /\ lost \in SUBSET Pids
    /\ raced \in BOOLEAN

-----------------------------------------------------------------------------
(* Initial situations: nothing there; a user-run xray, tracked and proxied; *)
(* a root-run xray tracked by a file of an older corvex, readable or not.   *)

Init ==
    /\ \E s \in Scenarios, p \in Pids :
        /\ pidContent = IF s = "clean" THEN Absent ELSE p
        /\ pidPerm = CASE s = "legacy" -> "foreignReadable"
                       [] s = "private" -> "foreignPrivate"
                       [] s = "rootDir" -> "rootDir"
                       [] OTHER -> "own"
        /\ state = [q \in Pids |-> IF q = p /\ s # "clean" THEN "run" ELSE "none"]
        /\ owner = [q \in Pids |->
                      IF q = p /\ s \in {"legacy", "private", "rootDir"} THEN "root" ELSE "user"]
        /\ proxy = IF s = "clean" THEN "off" ELSE "on"
    /\ parent = [p \in Pids |-> NoCli]
    /\ pc = [c \in Clis |-> "idle"]
    /\ cmd = [c \in Clis |-> "status"]
    /\ euid = [c \in Clis |-> "user"]
    /\ site = [c \in Clis |-> "main"]
    /\ seen = [c \in Clis |-> Absent]
    /\ target = [c \in Clis |-> NoPid]
    /\ existed = [c \in Clis |-> FALSE]
    /\ fd = [c \in Clis |-> FALSE]
    /\ outcome = [c \in Clis |-> "none"]
    /\ faults = 0
    /\ lost = {}
    /\ raced = FALSE

-----------------------------------------------------------------------------
(* Helpers *)

Goto(c, l) == pc' = [pc EXCEPT ![c] = l]
Leave(c, o) == Goto(c, "exit") /\ outcome' = [outcome EXCEPT ![c] = o]
Fail(c) == Leave(c, "failed")
Step(c, l) == Goto(c, l) /\ UNCHANGED outcome

\* kill(pid, 0): a zombie still answers, EPERM counts as alive.
FaultyEpermIsDeath(p) == state[p] # "none" /\ owner[p] = "user"
IsProcessAlive(p) == state[p] # "none"

LiveXray(p) == state[p] \in {"run", "dying"}

\* What `process_is_xray` may answer: it believes a failing ps.
Named(p) == CASE LiveXray(p) -> {TRUE}
              [] state[p] = "zombie" -> ZombieAnswers
              [] OTHER -> {FALSE}
FaultyDisbelief(p) == Named(p) \cup (IF PsMayFail THEN {FALSE} ELSE {})
Identities(p) == Named(p) \cup (IF PsMayFail THEN {TRUE} ELSE {})

\* Whether a PID file text names a live xray, for is_running and for
\* pid_file_tracks_live_xray alike.
Verdicts(text) ==
    IF text \in Pids THEN IF IsProcessAlive(text) THEN Identities(text) ELSE {FALSE}
                     ELSE {FALSE}

CanRead(c) == euid[c] = "root" \/ pidPerm # "foreignPrivate"
CanSignal(c, p) == euid[c] = "root" \/ owner[p] = euid[c]

\* open_write_restricted: creates the file, or accepts one its own uid owns.
Opens == pidPerm = "own"
Create == pidContent' = Blank /\ UNCHANGED pidPerm
Touch == IF pidContent = Absent THEN Create ELSE UNCHANGED fileVars

\* remove_file goes by path: it takes whatever is there, and every open
\* descriptor is left pointing at an unlinked inode.  Its result is ignored.
CanUnlink(c) == euid[c] = "root" \/ pidPerm # "rootDir"
Unlink ==
    /\ pidContent' = Absent
    /\ pidPerm' = IF pidPerm = "rootDir" THEN pidPerm ELSE "own"
    /\ fd' = [d \in Clis |-> FALSE]

KeepFile == UNCHANGED <<fileVars, fd>>
FaultyRemoveForgotten(c) == KeepFile
Remove(c) == IF CanUnlink(c) THEN Unlink ELSE KeepFile

\* An exited process stays a zombie while the corvex that spawned it runs,
\* for `start` drops the Child without ever waiting for it.
Dead(p) == IF state[p] \in {"run", "dying"} /\ parent[p] # NoCli
             THEN "zombie" ELSE IF state[p] = "zombie" THEN "zombie" ELSE "none"
Slay(p) == state' = [state EXCEPT ![p] = Dead(p)]

Running(p) == state[p] = "run"
PortTaken == \E p \in Pids : Running(p)

env == <<procVars, proxy, faults, lost, raced>>    \* what most CLI steps leave alone

-----------------------------------------------------------------------------
(* A command begins.  `start` is only ever taken this far by the user: under *)
(* root the vetted opens refuse the user's directory before any of this.     *)

Invoke(c) ==
    /\ pc[c] = "idle"
    /\ \E k \in Commands, u \in Users :
        /\ k = "start" => u = "user"
        /\ cmd' = [cmd EXCEPT ![c] = k]
        /\ euid' = [euid EXCEPT ![c] = u]
        /\ site' = [site EXCEPT ![c] = CASE k = "start" -> "main"
                                         [] OTHER -> k]
        /\ Goto(c, IF k = "start" THEN "read" ELSE "precheck")
    /\ outcome' = [outcome EXCEPT ![c] = "pending"]
    /\ target' = [target EXCEPT ![c] = NoPid]
    /\ raced' = (raced \/ \E d \in Clis : pc[d] # "idle" /\ "start" \in {cmd[d], cmd'[c]})
    /\ UNCHANGED <<fileVars, fd, seen, existed, procVars, proxy, faults, lost>>

\* `stop` and `status` first detect the network service, `reload` first reads
\* and parses config.json; each may fail before anything is touched.
Precheck(c) ==
    /\ pc[c] = "precheck"
    /\ Step(c, "read") \/ Fail(c)
    /\ UNCHANGED <<fileVars, fd, cmd, euid, callVars, env>>

-----------------------------------------------------------------------------
(* is_running *)

IsRunningRead(c) ==
    /\ pc[c] = "read"
    /\ seen' = [seen EXCEPT ![c] = IF CanRead(c) THEN pidContent ELSE Absent]
    /\ Step(c, "judge")
    /\ UNCHANGED <<fileVars, fd, cmd, euid, site, target, existed, env>>

\* It answers Some(pid): only these callers use the PID.
FaultyReloadForgets == {"stop", "status"}
UsesPid == {"stop", "reload", "status"}

IsRunningSome(c) ==
    /\ pc[c] = "judge"
    /\ TRUE \in Verdicts(seen[c])
    /\ CASE site[c] = "main"   -> Step(c, "read")
         [] site[c] = "stop"   -> Step(c, "term")
         [] site[c] = "start"  -> Fail(c)              \* AlreadyRunning
         [] site[c] = "verify" -> Step(c, "activate")
         [] site[c] = "reload" -> Step(c, "hup")
         [] site[c] = "status" -> Leave(c, "ok")
    /\ site' = [site EXCEPT ![c] = IF @ = "main" THEN "stop" ELSE @]
    /\ target' = [target EXCEPT ![c] =
                    IF site[c] \in UsesPid THEN seen[c] ELSE @]
    /\ UNCHANGED <<fileVars, fd, cmd, euid, seen, existed, env>>

\* It answers None, and removes a file whose text it took for stale.  The
\* text was read in an earlier step, so judging and removing can share one.
IsRunningNone(c) ==
    /\ pc[c] = "judge"
    /\ FALSE \in Verdicts(seen[c])
    /\ IF seen[c] = Absent THEN KeepFile ELSE Remove(c)
    /\ CASE site[c] = "main"   -> Step(c, "port")
         [] site[c] = "start"  -> Step(c, "preStat")
         [] site[c] = "verify" -> Step(c, "abandon")
         [] site[c] = "status" -> Leave(c, "ok")
         [] OTHER              -> Fail(c)              \* NotRunning
    /\ UNCHANGED <<cmd, euid, callVars, env>>

-----------------------------------------------------------------------------
(* stop *)

Terminate(c) ==
    /\ pc[c] = "term"
    /\ LET p == target[c] IN
        \/ /\ IsProcessAlive(p) /\ ~CanSignal(c, p)    \* EPERM: NotPermitted
           /\ Fail(c)
           /\ UNCHANGED state
        \/ /\ IsProcessAlive(p) => CanSignal(c, p)     \* sent, or ESRCH
           /\ Step(c, "wait")
           /\ state' = [state EXCEPT ![p] = IF @ = "run" THEN "dying" ELSE @]
    /\ UNCHANGED <<fileVars, fd, cmd, euid, callVars, owner, parent, proxy, faults, lost, raced>>

\* Twenty polls 100ms apart: one of them finds the process gone, or none does.
WaitGone(c) ==
    /\ pc[c] = "wait"
    /\ ~IsProcessAlive(target[c])
    /\ Step(c, "unlink")
    /\ UNCHANGED <<fileVars, fd, cmd, euid, callVars, env>>

FaultyNoSigkill(c) ==
    /\ pc[c] = "wait"
    /\ IsProcessAlive(target[c])
    /\ Step(c, "unlink")
    /\ UNCHANGED <<fileVars, fd, cmd, euid, callVars, env>>

WaitExpired(c) ==
    /\ pc[c] = "wait"
    /\ IsProcessAlive(target[c])
    /\ Step(c, "kill")
    /\ UNCHANGED <<fileVars, fd, cmd, euid, callVars, env>>

\* SIGKILL, its result ignored, and no second look at the process.
ForceKill(c) ==
    /\ pc[c] = "kill"
    /\ LET p == target[c] IN
         IF IsProcessAlive(p) /\ CanSignal(c, p)
           THEN Slay(p) /\ lost' = lost \ {p}
           ELSE UNCHANGED <<state, lost>>
    /\ Step(c, "unlink")
    /\ UNCHANGED <<fileVars, fd, cmd, euid, callVars, owner, parent, proxy, faults, raced>>

StopUnlink(c) ==
    /\ pc[c] = "unlink"
    /\ Remove(c)
    /\ Step(c, IF cmd[c] = "start" THEN "port" ELSE "disable")
    /\ UNCHANGED <<cmd, euid, callVars, env>>

\* A batch of proxy commands that fails half way leaves a mixture, or has
\* happened to complete one that an earlier failure left (see ProxySwitch).
HalfDone(goal) == {proxy, "mixed"} \cup (IF proxy = "mixed" THEN {goal} ELSE {})

Disable(c) ==
    /\ pc[c] = "disable"
    /\ \/ Leave(c, "ok") /\ proxy' = "off"
       \/ Fail(c) /\ proxy' \in HalfDone("off")
    /\ UNCHANGED <<fileVars, fd, cmd, euid, callVars, procVars, faults, lost, raced>>

-----------------------------------------------------------------------------
(* reload *)

\* SIGHUP; ESRCH and EPERM are errors.  Whether xray rereads its config or
\* dies of the signal is up to xray: corvex does not look again.
Hup(c) ==
    /\ pc[c] = "hup"
    /\ LET p == target[c] IN
         IF IsProcessAlive(p) /\ CanSignal(c, p)
           THEN /\ Leave(c, "ok")
                /\ state' \in {state, [state EXCEPT ![p] = IF @ = "run" THEN "dying" ELSE @]}
           ELSE Fail(c) /\ UNCHANGED state
    /\ UNCHANGED <<fileVars, fd, cmd, euid, callVars, owner, parent, proxy, faults, lost, raced>>

-----------------------------------------------------------------------------
(* start: main_algorithm and xray::start *)

UpdateConfigPort(c) ==
    /\ pc[c] = "port"
    /\ \/ Step(c, "read") /\ site' = [site EXCEPT ![c] = "start"]
       \/ Fail(c) /\ UNCHANGED site
    /\ UNCHANGED <<fileVars, fd, cmd, euid, seen, target, existed, env>>

PreflightStat(c) ==
    /\ pc[c] = "preStat"
    /\ existed' = [existed EXCEPT ![c] = pidContent # Absent]
    /\ Step(c, "preOpen")
    /\ UNCHANGED <<fileVars, fd, cmd, euid, site, seen, target, env>>

\* The writability probe creates a missing file and changes no other.  The
\* path itself (a full disk, an untrusted directory) may refuse it too.
PreflightOpen(c) ==
    /\ pc[c] = "preOpen"
    /\ \/ Opens /\ Touch /\ Step(c, IF existed[c] THEN "spawn" ELSE "preUnlink")
       \/ ~existed[c] /\ Fail(c) /\ UNCHANGED fileVars
       \/ existed[c] /\ Step(c, "preRead") /\ UNCHANGED fileVars
    /\ UNCHANGED <<fd, cmd, euid, callVars, env>>

\* The probe believed it had created the file, so it takes it away again.
PreflightUnlink(c) ==
    /\ pc[c] = "preUnlink"
    /\ Remove(c)
    /\ Step(c, "spawn")
    /\ UNCHANGED <<cmd, euid, callVars, env>>

FaultyUnreadableIsStale(c) ==
    /\ pc[c] = "preRead"
    /\ ~CanRead(c) \/ pidContent = Absent
    /\ Step(c, "spawn")
    /\ UNCHANGED <<fileVars, fd, cmd, euid, callVars, env>>

PreflightRead(c) ==
    /\ pc[c] = "preRead"
    /\ \/ /\ CanRead(c) /\ pidContent # Absent
          /\ seen' = [seen EXCEPT ![c] = pidContent]
          /\ Step(c, "preJudge")
       \/ /\ ~CanRead(c) \/ pidContent = Absent
          /\ Fail(c)
          /\ UNCHANGED seen
    /\ UNCHANGED <<fileVars, fd, cmd, euid, site, target, existed, env>>

PreflightJudge(c) ==
    /\ pc[c] = "preJudge"
    /\ \/ TRUE \in Verdicts(seen[c]) /\ Fail(c) /\ KeepFile
       \/ FALSE \in Verdicts(seen[c]) /\ Remove(c)
          /\ IF CanUnlink(c) THEN Step(c, "preReopen") ELSE Fail(c)
    /\ UNCHANGED <<cmd, euid, callVars, env>>

PreflightReopen(c) ==
    /\ pc[c] = "preReopen"
    /\ \/ Opens /\ Touch /\ Step(c, "preUnlink")
       \/ Fail(c) /\ UNCHANGED fileVars
    /\ UNCHANGED <<fd, cmd, euid, callVars, env>>

\* Opening the log or spawning may fail.  A spawned xray that finds its port
\* taken, or its config bad, is on its way out from the beginning.
Spawn(c) ==
    /\ pc[c] = "spawn"
    /\ \/ /\ Fail(c)
          /\ UNCHANGED <<procVars, target>>
       \/ \E p \in Pids :
            /\ state[p] = "none"
            /\ \/ ~PortTaken /\ state' = [state EXCEPT ![p] = "run"]
               \/ state' = [state EXCEPT ![p] = "dying"]
            /\ owner' = [owner EXCEPT ![p] = euid[c]]
            /\ parent' = [parent EXCEPT ![p] = c]
            /\ target' = [target EXCEPT ![c] = p]
            /\ Step(c, "pidOpen")
    /\ UNCHANGED <<fileVars, fd, cmd, euid, site, seen, existed, proxy, faults, lost, raced>>

\* write_pid_file, first half: the vetted open and set_len(0).  No other
\* step can tell a truncation from one that followed the open at once.
\* A failing open or write leaves the xray untracked, and the message says so.
Untracked(c) ==
    /\ Fail(c)
    /\ lost' = lost \cup ({target[c]} \cap {p \in Pids : LiveXray(p)})

PidOpen(c) ==
    /\ pc[c] = "pidOpen"
    /\ \/ /\ Opens /\ Create
          /\ fd' = [fd EXCEPT ![c] = TRUE]
          /\ Step(c, "pidWrite")
          /\ UNCHANGED lost
       \/ Untracked(c) /\ KeepFile
    /\ UNCHANGED <<cmd, euid, callVars, procVars, proxy, faults, raced>>

\* Second half: the digits go to the start of the inode that was opened.  If
\* another start wrote longer ones in between, their tail survives.
PidWrite(c) ==
    /\ pc[c] = "pidWrite"
    /\ \/ /\ IF fd[c]
               THEN pidContent' \in {target[c]} \cup (IF pidContent = Blank THEN {} ELSE Pids)
               ELSE UNCHANGED pidContent
          /\ site' = [site EXCEPT ![c] = "verify"]
          /\ Step(c, "read")
          /\ UNCHANGED lost
       \/ Untracked(c) /\ UNCHANGED <<pidContent, site>>
    /\ fd' = [fd EXCEPT ![c] = FALSE]
    /\ UNCHANGED <<pidPerm, cmd, euid, seen, target, existed, procVars, proxy, faults, raced>>

\* Nothing is running a second after the spawn: StartFailed.
Abandon(c) ==
    /\ pc[c] = "abandon"
    /\ Remove(c)
    /\ Fail(c)
    /\ UNCHANGED <<cmd, euid, callVars, env>>

\* detect_active_service, then enable_proxy; either may fail.
Activate(c) ==
    /\ pc[c] = "activate"
    /\ \/ Leave(c, "ok") /\ proxy' = "on"
       \/ Fail(c) /\ proxy' \in HalfDone("on")
    /\ UNCHANGED <<fileVars, fd, cmd, euid, callVars, procVars, faults, lost, raced>>

-----------------------------------------------------------------------------
(* The end of an invocation, expected or not: init adopts and reaps. *)

\* The locals die with the process; its last result is kept for properties.
Ended(C) ==
    /\ pc' = [c \in Clis |-> IF c \in C THEN "idle" ELSE pc[c]]
    /\ euid' = [c \in Clis |-> IF c \in C THEN "user" ELSE euid[c]]
    /\ site' = [c \in Clis |-> IF c \in C THEN "main" ELSE site[c]]
    /\ seen' = [c \in Clis |-> IF c \in C THEN Absent ELSE seen[c]]
    /\ existed' = [c \in Clis |-> existed[c] /\ c \notin C]
    /\ fd' = [c \in Clis |-> fd[c] /\ c \notin C]
    /\ raced' = (raced /\ \E c \in Clis \ C : pc[c] # "idle")
    /\ UNCHANGED <<cmd, target>>

Orphaned(C) ==
    /\ parent' = [p \in Pids |-> IF parent[p] \in C THEN NoCli ELSE parent[p]]
    /\ state' = [p \in Pids |-> IF parent[p] \in C /\ state[p] = "zombie"
                                  THEN "none" ELSE state[p]]

Exit(c) ==
    /\ pc[c] = "exit"
    /\ Ended({c})
    /\ Orphaned({c})
    /\ UNCHANGED <<fileVars, outcome, owner, proxy, faults, lost>>

\* An invocation is killed, in the middle of a proxy batch perhaps.  Between
\* the spawn and the PID write the new xray has not been recorded anywhere.
KillCli(c) ==
    /\ "kill" \in Hazards /\ faults < MaxFaults
    /\ pc[c] \notin {"idle", "exit"}
    /\ Ended({c})
    /\ outcome' = [outcome EXCEPT ![c] = "killed"]
    /\ Orphaned({c})
    /\ lost' = IF pc[c] \in {"pidOpen", "pidWrite"} /\ LiveXray(target[c])
                 THEN lost \cup {target[c]} ELSE lost
    /\ proxy' \in CASE pc[c] = "activate" -> HalfDone("on")
                     [] pc[c] = "disable" -> HalfDone("off")
                     [] OTHER -> {proxy}
    /\ faults' = faults + 1
    /\ UNCHANGED <<fileVars, owner>>

-----------------------------------------------------------------------------
(* The environment *)

\* A dying xray goes; a running one crashes.
XrayExits(p) ==
    /\ \/ state[p] = "dying" /\ UNCHANGED faults
       \/ /\ Running(p) /\ "crash" \in Hazards /\ faults < MaxFaults
          /\ faults' = faults + 1
    /\ Slay(p)
    /\ lost' = lost \ {p}
    /\ UNCHANGED <<fileVars, owner, parent, proxy, cliVars, raced>>

\* The kernel gives a free PID to an unrelated process, or takes it back.
StrangerComes(p) ==
    /\ "reuse" \in Hazards
    /\ state[p] = "none"
    /\ state' = [state EXCEPT ![p] = "stranger"]
    /\ \E u \in Users : owner' = [owner EXCEPT ![p] = u]
    /\ UNCHANGED <<fileVars, parent, proxy, cliVars, faults, lost, raced>>

StrangerGoes(p) ==
    /\ state[p] = "stranger"
    /\ state' = [state EXCEPT ![p] = "none"]
    /\ UNCHANGED <<fileVars, owner, parent, proxy, cliVars, faults, lost, raced>>

\* The machine restarts: files and the proxy switch are what is left.
Reboot ==
    /\ "reboot" \in Hazards /\ faults < MaxFaults
    /\ faults' = faults + 1
    /\ state' = [p \in Pids |-> "none"]
    /\ parent' = [p \in Pids |-> NoCli]
    /\ Ended(Clis)
    /\ outcome' = [c \in Clis |-> IF pc[c] = "idle" THEN outcome[c] ELSE "killed"]
    /\ lost' = {}
    /\ UNCHANGED <<fileVars, owner, proxy>>

-----------------------------------------------------------------------------
Work(c) ==
    \/ Precheck(c) \/ IsRunningRead(c) \/ IsRunningSome(c) \/ IsRunningNone(c)
    \/ Terminate(c) \/ WaitGone(c) \/ WaitExpired(c) \/ ForceKill(c)
    \/ StopUnlink(c) \/ Disable(c) \/ Hup(c)
    \/ UpdateConfigPort(c) \/ PreflightStat(c) \/ PreflightOpen(c)
    \/ PreflightUnlink(c) \/ PreflightRead(c) \/ PreflightJudge(c)
    \/ PreflightReopen(c) \/ Spawn(c) \/ PidOpen(c) \/ PidWrite(c)
    \/ Abandon(c) \/ Activate(c) \/ Exit(c)

Environment ==
    \/ \E p \in Pids : XrayExits(p) \/ StrangerComes(p) \/ StrangerGoes(p)
    \/ Reboot

Next ==
    \/ \E c \in Clis : Invoke(c) \/ Work(c) \/ KillCli(c)
    \/ Environment

Spec == Init /\ [][Next]_vars

\* The operating system runs every invocation that has begun.  Nobody is
\* obliged to begin one, and nothing obliges an xray to honour a signal.
FairSpec == Spec /\ \A c \in Clis : WF_vars(Work(c))

-----------------------------------------------------------------------------
(* Properties *)

\* A live xray that the PID file names is never untracked: no step removes
\* or rewrites the file while the xray it names is still serving.  (is_running,
\* preflight_pid_file, stop, start: every remove_file and the PID write.)
Kept == \A p \in Pids :
    pidContent = p /\ Running(p) /\ Running(p)' => pidContent' = p

\* What the comments on process_is_xray and preflight_pid_file promise.
TrackingKept == [][Kept]_vars

\* What the code delivers: commands keep the promise however many stops, reloads
\* and reports overlap; it takes a start that overlaps another command to break
\* it, and once they have ended the promise is kept again, whatever they leave.
TrackingKeptUnlessRaced == [][raced \/ Kept]_vars

\* A `start` that overlaps no other command spawns only when the PID file names
\* no serving xray, whatever mix of owners and file modes earlier runs have left
\* behind.  Two starts that overlap may both find no file, and the second spawns
\* beside the xray that the first has recorded (xray.rs:579).
SpawnsUntrackedUnlessRaced ==
    [][raced \/ \A p, q \in Pids : (state[p] = "none" /\ LiveXray(p)')
         => ~(pidContent = q /\ Running(q))]_vars

\* The proxy is switched off only after every xray is dead, but for those
\* corvex has lost track of: a stop that was refused, or that found nothing
\* to stop, leaves a working setup alone, and so do two stops at once.
ProxyOutlivesXray ==
    [][proxy # "off" /\ proxy' = "off"
         => \A p \in Pids : LiveXray(p) => p \in lost]_vars

\* While no command is in progress, every live xray is the one in the PID
\* file, unless a failed PID write reported it or its corvex was killed
\* between the spawn and the write.
NoSilentOrphan ==
    (\A c \in Clis : pc[c] = "idle") =>
        \A p \in Pids : LiveXray(p) => p = pidContent \/ p \in lost

\* What a successful command promises until the next one begins: after `stop`
\* the xray it found is gone, the proxy is off and so is the PID file, unless
\* root's directory keeps it; after `start` the proxy is on and the PID file
\* names the xray that was spawned.
Promise(c) ==
    CASE cmd[c] = "stop"  -> /\ pidContent = Absent \/ pidPerm = "rootDir"
                             /\ proxy = "off"
                             /\ ~LiveXray(target[c])
      [] cmd[c] = "start" -> pidContent = target[c] /\ proxy = "on"
      [] OTHER -> TRUE
PromiseKept == \A c \in Clis : pc[c] = "idle" /\ outcome[c] = "ok" => Promise(c)

\* Commands run one after another, in one slot: no other has ever been used.
OneAtATime ==
    \E c \in Clis : \A d \in Clis \ {c} : outcome[d] = "none"

\* One command at a time: between commands every live xray is in the PID file,
\* or was reported, or its corvex was killed (xray.rs:258).
NoneSilentlyOrphaned == OneAtATime => NoSilentOrphan

\* One command at a time: what a successful start or stop promises holds until
\* the next command begins.
PromisesKept == OneAtATime => PromiseKept

\* Without root's help no command brings down, or untracks, a serving xray
\* of root's that the PID file names, readable or not.
RootXrayUntouched ==
    [][\A p \in Pids :
         (/\ owner[p] = "root" /\ pidContent = p /\ Running(p)
          /\ faults' = faults /\ \A c \in Clis : euid[c] = "user")
         => Running(p)' /\ pidContent' = p]_vars

\* Every invocation comes to an end, whatever xray does with its signals.
EveryCommandEnds ==
    \A c \in Clis : (pc[c] # "idle") ~> (pc[c] = "idle")

\* `start` says "xray still up 1s after spawn" only of an xray that is.
ReportedUpIsUp ==
    [][\A c \in Clis : (site[c] = "verify" /\ pc[c] = "judge" /\ pc'[c] = "activate")
         => LiveXray(target[c])]_vars
=============================================================================
