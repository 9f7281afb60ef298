----------------------------- MODULE ProcessReport -----------------------------
(***************************************************************************)
(* What corvex says of the xray processes that `ps` lists: the orphans     *)
(* that start, stop and status report with the command that ends each, the *)
(* process that keeps a start from stopping it, and what a failed start    *)
(* may have met (src/src/xray.rs, src/src/main.rs).  How a start or a stop *)
(* comes about is XrayLifecycle's; here each is one step, and what matters *)
(* is what has changed by the time the process list is read.               *)
(***************************************************************************)
EXTENDS Naturals, FiniteSets

CONSTANTS
  Pids,
  Programs,     \* what may be run: [user, binary, config]
  MaxEvents,    \* bound: what happens besides the command
  Nil

VARIABLES
  procs,    \* the process table: a program or Nil
  pidFile,  \* the PID in xray.pid, Nil if there is none
  cmd,      \* "status", "stop", "start"
  pc,       \* "begin", "spawn", "list", "disable", "write", "end"
  tracked,  \* the PID the command takes to be the tracked one
  error,    \* of the stop or start: "NotPermitted", "StartFailed", Nil
  all,      \* list_xray_processes
  out,      \* what was said, a set of lines
  then,     \* history: the processes and xray.pid when they were listed
  raced,    \* history: another corvex has stopped or started an xray meanwhile
  events

command == <<cmd, pc, tracked, error, all, out, then>>
vars == <<procs, pidFile, command, raced, events>>

Me == "me"
\* The program corvex starts.
Xray == [user |-> Me, binary |-> "xray", config |-> "own"]

(***************************************************************************)
(* The binary of a program is xray, one whose name contains it, one of     *)
(* another name, or xray under a path with a blank in it.  Its config is   *)
(* corvex's, another, or not given.  For every other user stands root.     *)
(***************************************************************************)
AProgram ==
  [user : {Me, "root"}, binary : {"xray", "xray-like", "editor", "spaced"},
   config : {"own", "other", "none"}]
Tables == [Pids -> AProgram \cup {Nil}]

\* What the constants must be.
ConstantsTyped ==
  /\ Programs \subseteq AProgram /\ MaxEvents \in Nat
  /\ Nil \notin Pids \cup AProgram \cup {"NotPermitted", "StartFailed"}
  /\ Nil \notin [procs : Tables, pidFile : Pids \cup {Nil}]

\* argv[0] as ps prints it ends at the first blank.
Argv0(program) == IF program.binary = "spaced" THEN "head of a path" ELSE program.binary
CommandMatches(name) == name \in {"xray", "xray-like"}
\* process_is_xray reads comm, which is whole.
ProcessIsXray(program) == CommandMatches(IF program.binary = "spaced" THEN "xray" ELSE program.binary)

\* parse_xray_processes, of the lines of ps.
ParseXrayProcesses ==
  {[pid |-> p, user |-> procs[p].user, config_arg |-> procs[p].config] :
     p \in {q \in Pids : procs[q] # Nil /\ CommandMatches(Argv0(procs[q]))}}

\* managed_processes
ManagedProcesses(list) == {x \in list : x.config_arg = "own"}

\* orphans
Orphans(list, pid) == {x \in ManagedProcesses(list) : x.pid # pid}

Line(kind, pid, user) == [kind |-> kind, pid |-> pid, user |-> user, sudo |-> FALSE]

\* The bug of advising a plain kill, which does nothing to another user's.
FaultyOrphanLines(list) == {Line("orphan", x.pid, x.user) : x \in list}

\* orphan_lines, each with the command that ends the process.
OrphanLines(list) ==
  {[Line("orphan", x.pid, x.user) EXCEPT !.sudo = x.user # Me] : x \in list}

\* start_blocked_message, and the owner it is given.
StartBlockedMessage(pid) ==
  LET owners == {x \in all : x.pid = pid}
  IN  {Line("blocked", pid, IF owners = {} THEN Nil ELSE (CHOOSE x \in owners : TRUE).user)}
        \cup {Line("besides", x.pid, x.user) : x \in Orphans(all, pid)}

\* start_failure_diagnostics
StartFailureDiagnostics ==
  {Line("failed", Nil, Nil)} \cup {Line("perhaps", x.pid, x.user) : x \in all}

\* start_error_message; an error of another kind is passed on as it is.
StartErrorMessage ==
  CASE error = "NotPermitted" -> StartBlockedMessage(tracked)
    [] error = "StartFailed" -> StartFailureDiagnostics
    [] OTHER -> {Line("error", Nil, Nil)}

\* stop_outcome_lines
StopOutcomeLines(survivors) ==
  IF survivors = {} THEN {Line("clean", Nil, Nil)}
  ELSE {Line("qualified", Nil, Nil)} \cup OrphanLines(survivors)

-----------------------------------------------------------------------------
Init ==
  /\ procs \in [Pids -> Programs \cup {Nil}]
  /\ pidFile \in {p \in Pids : procs[p] # Nil /\ procs[p].binary = "xray"} \cup {Nil}
  /\ cmd \in {"status", "stop", "start"} /\ pc = "begin"
  /\ tracked = Nil /\ error = Nil /\ all = {} /\ out = {} /\ then = Nil
  /\ raced = FALSE /\ events = 0

Running == pidFile # Nil /\ procs[pidFile] # Nil /\ ProcessIsXray(procs[pidFile])
End(o) == pc' = "end" /\ out' = o

\* cmd_status_inner up to the process list: is_running, which removes a file
\* that tracks nothing.
BeginStatus ==
  /\ pc = "begin" /\ cmd = "status" /\ pc' = "list"
  /\ tracked' = IF Running THEN pidFile ELSE Nil
  /\ pidFile' = IF Running THEN pidFile ELSE Nil
  /\ UNCHANGED <<procs, cmd, error, all, out, then, raced, events>>

\* xray::stop, as stop and start call it: the tracked process is ended and its
\* file removed, or is another user's and neither.
StopTracked(next) ==
  IF procs[pidFile].user = Me
    THEN /\ procs' = [procs EXCEPT ![pidFile] = Nil] /\ pidFile' = Nil
         /\ tracked' = Nil /\ pc' = next /\ UNCHANGED <<error, out>>
    ELSE /\ error' = "NotPermitted" /\ tracked' = pidFile
         /\ IF cmd = "start" THEN pc' = "list" /\ UNCHANGED out
            ELSE End({Line("error", Nil, Nil)})
         /\ UNCHANGED <<procs, pidFile>>

\* cmd_stop_inner: an xray that does not run is an error.
BeginStop ==
  /\ pc = "begin" /\ cmd = "stop"
  /\ IF Running THEN StopTracked("list")
     ELSE /\ End({Line("error", Nil, Nil)}) /\ pidFile' = Nil
          /\ UNCHANGED <<procs, tracked, error>>
  /\ UNCHANGED <<cmd, all, then, raced, events>>

\* main_algorithm: what runs is stopped first.
BeginStart ==
  /\ pc = "begin" /\ cmd = "start"
  /\ IF Running THEN StopTracked("spawn")
     ELSE pidFile' = Nil /\ pc' = "spawn" /\ UNCHANGED <<procs, tracked, error, out>>
  /\ UNCHANGED <<cmd, all, then, raced, events>>

\* xray::start: it comes up, or dies at once, or another start was faster.
Spawn ==
  /\ pc = "spawn"
  /\ \/ ~Running /\ \E p \in Pids :
          /\ procs[p] = Nil
          /\ procs' = [procs EXCEPT ![p] = Xray]
          /\ pidFile' = p /\ tracked' = p /\ pc' = "list" /\ UNCHANGED <<error, out>>
     \/ ~Running /\ error' = "StartFailed" /\ pidFile' = Nil /\ pc' = "list"
        /\ UNCHANGED <<procs, tracked, out>>
     \/ Running /\ End({Line("error", Nil, Nil)}) /\ UNCHANGED <<procs, pidFile, tracked, error>>
  /\ UNCHANGED <<cmd, all, then, raced, events>>

\* list_xray_processes: without ps there are none.
List ==
  /\ pc = "list" /\ pc' = IF cmd = "stop" THEN "disable" ELSE "write"
  /\ \/ all' = ParseXrayProcesses /\ then' = [procs |-> procs, pidFile |-> pidFile]
     \/ all' = {} /\ UNCHANGED then
  /\ UNCHANGED <<procs, pidFile, cmd, tracked, error, out, raced, events>>

\* cmd_stop_inner turns the proxy off before it says anything; that may fail.
Disable ==
  /\ pc = "disable"
  /\ \/ pc' = "write" /\ UNCHANGED out
     \/ End({Line("error", Nil, Nil)})
  /\ UNCHANGED <<procs, pidFile, cmd, tracked, error, all, then, raced, events>>

\* What the command says at last: stop_outcome_lines, start_error_message, or
\* the tracked process and status_process_lines.
Write ==
  /\ pc = "write"
  /\ End(CASE cmd = "stop" -> StopOutcomeLines(Orphans(all, Nil))
           [] error # Nil -> StartErrorMessage
           [] OTHER -> {Line("tracked", tracked, Nil)} \cup OrphanLines(Orphans(all, tracked)))
  /\ UNCHANGED <<procs, pidFile, cmd, tracked, error, all, then, raced, events>>

\* A process comes or goes.
Exit(p) == procs[p] # Nil /\ procs' = [procs EXCEPT ![p] = Nil] /\ UNCHANGED <<pidFile, raced>>
Enter(p) ==
  /\ procs[p] = Nil /\ \E program \in Programs : procs' = [procs EXCEPT ![p] = program]
  /\ UNCHANGED <<pidFile, raced>>
\* Another `corvex start` replaces the tracked process, or starts the first.
OtherStart(p) ==
  /\ procs[p] = Nil /\ (Running => procs[pidFile].user = Me)
  /\ procs' = [q \in Pids |-> IF q = p THEN Xray
                              ELSE IF Running /\ q = pidFile THEN Nil ELSE procs[q]]
  /\ pidFile' = p /\ raced' = TRUE
Meanwhile ==
  /\ pc \notin {"begin", "end"} /\ events < MaxEvents /\ events' = events + 1
  /\ \E p \in Pids : Exit(p) \/ Enter(p) \/ OtherStart(p)
  /\ UNCHANGED command

Done == pc = "end" /\ UNCHANGED vars
Next ==
  \/ BeginStatus \/ BeginStop \/ BeginStart \/ Spawn \/ List \/ Disable \/ Write
  \/ Meanwhile \/ Done
Spec == Init /\ [][Next]_vars

-----------------------------------------------------------------------------
\* The values of the variables; what is said comes at the end only.
TypeOK ==
  /\ procs \in [Pids -> Programs \cup {Nil, Xray}]
  /\ pidFile \in Pids \cup {Nil} /\ tracked \in Pids \cup {Nil}
  /\ pc \in {"begin", "spawn", "list", "disable", "write", "end"}
  /\ error \in {"NotPermitted", "StartFailed", Nil}
  /\ \A x \in all : x.pid \in Pids /\ CommandMatches(Argv0(then.procs[x.pid]))
  /\ (out # {}) <=> (pc = "end")
  /\ events \in 0..MaxEvents

Named(kind) == {l.pid : l \in {m \in out : m.kind = kind}}
\* An orphan of corvex's: it runs on corvex's config and is not in xray.pid.
IsOrphan(p) ==
  /\ then.procs[p] # Nil /\ ProcessIsXray(then.procs[p])
  /\ then.procs[p].config = "own" /\ p # then.pidFile

\* Whom the user is told to kill runs an xray on corvex's own config, as the
\* user the advice takes it for, and is the tracked one only if another corvex
\* has started it meanwhile (xray.rs:379-402, 469-490).
AdviceFits ==
  \A l \in out : l.kind = "orphan" =>
    /\ then.procs[l.pid].config = "own" /\ ProcessIsXray(then.procs[l.pid])
    /\ l.sudo <=> then.procs[l.pid].user # Me
    /\ ~raced => l.pid # then.pidFile

\* No orphan stays unsaid where orphans are told, if ps was read and its argv[0]
\* shows it: not by status or start, and a stop that says it was clean was
\* (xray.rs:340-355, main.rs:1212-1217).
OrphansTold ==
  then # Nil =>
    \A p \in Pids : IsOrphan(p) /\ then.procs[p].binary # "spaced" =>
      /\ out \cap {l \in out : l.kind \in {"tracked", "qualified"}} # {} =>
           p \in Named("orphan") \/ p = tracked
      /\ {l \in out : l.kind = "clean"} = {}

\* A start that may not stop the tracked process says whose it is whenever that
\* process was listed, even if it does not run on corvex's config, and does not
\* count it among the others (main.rs:1079-1084).
BlockedByWhom ==
  \A l \in out : l.kind = "blocked" /\ then # Nil =>
    /\ LET p == then.procs[l.pid]
       IN  p # Nil /\ CommandMatches(Argv0(p)) => l.user = p.user
    /\ l.pid \notin Named("besides")
=============================================================================
