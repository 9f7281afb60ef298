--------------------------------- MODULE Logs ---------------------------------
(***************************************************************************)
(* corvex's own log and the preflight of xray's, in one specification: in  *)
(* each behaviour LogFile or LogPreflight runs, and the other rests in an  *)
(* initial state.                                                          *)
(***************************************************************************)
EXTENDS LogFile

CONSTANTS XrayLog, AccessLog, ErrorLog, UserPaths, Worlds  \* of LogPreflight

VARIABLES
  part,   \* "log", "preflight"; anything else leaves both at rest
  logs, access, error, checkPc, probe, existed, errors, before, met

checkVars == <<logs, access, error, checkPc, probe, existed, errors, before, met>>

Check == INSTANCE LogPreflight WITH fs <- logs, pc <- checkPc, disturbed <- met

ASSUME ConstantsTyped == Check!ConstantsTyped

LogRests ==
  /\ Init
  /\ log = Nil /\ past = Nil /\ data["first"] = <<>>
  /\ debug = [p \in Procs |-> FALSE]
CheckRests ==
  /\ logs = [p \in Check!Paths |-> "absent"] /\ access = "unset" /\ error = "unset"
  /\ Check!Init

LogsInit ==
  \/ part = "log" /\ Init /\ CheckRests
  \/ part = "preflight" /\ LogRests /\ Check!Init
LogsNext ==
  \/ part = "log" /\ Next /\ UNCHANGED <<part, checkVars>>
  \/ part = "preflight" /\ Check!Next /\ UNCHANGED <<part, vars>>
LogsSpec == LogsInit /\ [][LogsNext]_<<part, vars, checkVars>>

-----------------------------------------------------------------------------
\* A start past the preflight does not lose its xray to a log; a path corvex
\* has chosen passes only where nobody else can change what its name means;
\* every target that cannot be opened is named, none that is fine is; and the
\* probe leaves nothing behind (LogPreflight, main.rs:971, config.rs:1733).
PreflightHolds ==
  /\ Check!TypeOK
  /\ Check!PassMeansOpens /\ Check!ChosenAreSafe
  /\ Check!AllNamed /\ Check!NoFalseAlarm
  /\ Check!NoTrace
=============================================================================
