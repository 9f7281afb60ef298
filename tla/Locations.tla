------------------------------- MODULE Locations -------------------------------
(***************************************************************************)
(* Where corvex keeps its files (src/src/config.rs): every command resolves *)
(* the paths anew from its own environment, so commands meet at a file only *)
(* if their environments do.  On Windows the path may also be one corvex    *)
(* refuses to write to.  What start and stop do with the process is         *)
(* XrayLifecycle's, what start does in between is StartFlow's.              *)
(***************************************************************************)
EXTENDS Naturals, Sequences, FiniteSets

CONSTANTS
  Windows,       \* whether this is the Windows build
  Configs, States, Homes,  \* what the three variables may be set to
  Cwds,          \* the directories a command is run in
  Temp,          \* the temporary directory
  Reparse,       \* Windows: the paths at which there is a reparse point
  MaxLive,       \* bound: how many xray may run at once
  Nil            \* a variable that is not set

(***************************************************************************)
(* A path is the sequence of its components; an absolute one begins with   *)
(* "/", and <<>> is the empty string.                                      *)
(***************************************************************************)
Absolute(path) == path # <<>> /\ Head(path) = "/"

Paths == Seq(STRING)

\* What the constants must be.
ConstantsTyped ==
  /\ Configs \cup States \cup Homes \subseteq Paths \cup {Nil}
  /\ \A d \in Cwds \cup {Temp} : d \in Paths /\ Absolute(d)
  /\ Nil \notin Paths /\ MaxLive \in Nat

VARIABLES
  live,          \* the running xray a PID file tracks: [at |-> its PID file, env |-> of its start]
  last           \* the last command: [cmd, env, outcome, wrote]

vars == <<live, last>>

\* XDG_CONFIG_HOME, XDG_STATE_HOME, HOME; on Windows APPDATA, LOCALAPPDATA, USERPROFILE.
Env == [config : Configs, state : States, home : Homes, cwd : Cwds]

-----------------------------------------------------------------------------
\* Path::parent and Path::starts_with.
Parent(path) == SubSeq(path, 1, Len(path) - 1)
StartsWith(path, dir) == Len(dir) <= Len(path) /\ SubSeq(path, 1, Len(dir)) = dir

IsSet(v) == v \notin {Nil, <<>>}

\* windows_per_user_dir.
PerUserDir(v, home, leaf) ==
  IF IsSet(v) THEN v ELSE IF IsSet(home) THEN home \o <<"AppData", leaf>> ELSE Temp

\* The unix half: an empty HOME is taken as it is.
XdgDir(v, home, leaf) ==
  IF IsSet(v) THEN v ELSE (IF home = Nil THEN <<"/", "tmp">> ELSE home) \o leaf

ConfigBaseDir(e) == IF Windows THEN PerUserDir(e.config, e.home, "Roaming")
                               ELSE XdgDir(e.config, e.home, <<".config">>)
StateDir(e) == IF Windows THEN PerUserDir(e.state, e.home, "Local")
                          ELSE XdgDir(e.state, e.home, <<".local", "state">>)

\* The bug of a PID file kept beside the logs.
FaultyPidFile(e) == StateDir(e) \o <<"xray", "xray.pid">>
PidFile(e) == (IF Windows THEN StateDir(e) ELSE ConfigBaseDir(e)) \o <<"xray", "xray.pid">>

XrayConfig(e) == ConfigBaseDir(e) \o <<"xray", "config.json">>
AwgConf(e) == Parent(XrayConfig(e)) \o <<"corvex-awg.conf">>
CorvexLog(e) == StateDir(e) \o <<"corvex", "corvex.log">>
ChosenXrayLogs(e) == {StateDir(e) \o <<"xray", f>> : f \in {"xray.log", "access.log", "error.log"}}

\* What the system makes of a path that is not absolute.
Located(e, path) == IF Absolute(path) THEN path ELSE e.cwd \o path

-----------------------------------------------------------------------------
(***************************************************************************)
(* What Windows opens refuse: the shared fallback, judged by the spelling  *)
(* of the path, and a reparse point.                                       *)
(***************************************************************************)
FellBack(e) == ~IsSet(e.home) /\ (~IsSet(e.config) \/ ~IsSet(e.state))

SharedFallbackRejection(e, path) == FellBack(e) /\ StartsWith(path, Temp)

Refused(e, path) == Windows /\ (SharedFallbackRejection(e, path) \/ Located(e, path) \in Reparse)

Written(e, paths) == {Located(e, p) : p \in {q \in paths : ~Refused(e, q)}}

-----------------------------------------------------------------------------
Init ==
  /\ live = {}
  /\ last = [cmd |-> "none", env |-> Nil, outcome |-> "ok", wrote |-> {}]

Ended(cmd, e, outcome, paths) ==
  last' = [cmd |-> cmd, env |-> e, outcome |-> outcome, wrote |-> Written(e, paths)]

Tracked(e) == {x \in live : x.at = Located(e, PidFile(e))}

(***************************************************************************)
(* start: the log first, whose refusal leaves the command to its stderr;    *)
(* then the configuration, the probe of the log files - corvex's own,       *)
(* unless ownLogs, when the settings name others - and, the instance it     *)
(* finds being stopped, the PID file's.                                     *)
(***************************************************************************)
Start(e, awg, ownLogs) ==
  LET confs == {XrayConfig(e)} \cup (IF awg THEN {AwgConf(e)} ELSE {})
      logs  == IF ownLogs THEN {} ELSE ChosenXrayLogs(e)
  IN  \/ /\ \E p \in confs : Refused(e, p)
         /\ Ended("start", e, "refused", {CorvexLog(e)})
         /\ UNCHANGED live
      \/ /\ \A p \in confs : ~Refused(e, p)
         /\ \E p \in logs : Refused(e, p)
         /\ Ended("start", e, "refused", {CorvexLog(e)} \cup confs)
         /\ UNCHANGED live
      \/ /\ \A p \in confs \cup logs : ~Refused(e, p)
         /\ Refused(e, PidFile(e))
         /\ Ended("start", e, "refused", {CorvexLog(e)} \cup confs)
         /\ live' = live \ Tracked(e)
      \/ /\ \A p \in confs \cup logs \cup {PidFile(e)} : ~Refused(e, p)
         /\ Cardinality(live \ Tracked(e)) < MaxLive
         /\ Ended("start", e, "ok", {CorvexLog(e), PidFile(e)} \cup confs \cup logs)
         /\ live' = (live \ Tracked(e)) \cup {[at |-> Located(e, PidFile(e)), env |-> e]}

\* stop reads the PID file, wherever it is.
Stop(e) ==
  /\ Ended("stop", e, IF Tracked(e) = {} THEN "notRunning" ELSE "ok", {CorvexLog(e)})
  /\ live' = live \ Tracked(e)

Next == \E e \in Env : (\E awg, ownLogs \in BOOLEAN : Start(e, awg, ownLogs)) \/ Stop(e)

Spec == Init /\ [][Next]_vars

-----------------------------------------------------------------------------
(***************************************************************************)
(* Two environments are of one home if the variable that decides names the *)
(* same absolute directory: on unix XDG_CONFIG_HOME over HOME, on Windows  *)
(* LOCALAPPDATA over USERPROFILE, an empty one counting as none.           *)
(***************************************************************************)
SameHome(a, b) ==
  LET of(e) == IF Windows THEN e.state ELSE e.config
  IN  \/ IsSet(of(a)) /\ Absolute(of(a)) /\ of(a) = of(b)
      \/ ~IsSet(of(a)) /\ ~IsSet(of(b)) /\ IsSet(a.home) /\ Absolute(a.home) /\ a.home = b.home

\* A live instance is tracked at an absolute path; the last command is one of these.
TypeOK ==
  /\ \A x \in live : Absolute(x.at) /\ x.env \in Env
  /\ last.cmd \in {"none", "start", "stop"} /\ last.outcome \in {"ok", "refused", "notRunning"}
  /\ \A p \in last.wrote : Absolute(p)

\* One home has one xray, whatever else its commands' environments disagree
\* about, the other base directory and the working directory among it: a
\* second start replaces the first, and after a stop there is none
\* (config.rs:1876, main.rs:1100).
OneXrayPerHome ==
  /\ \A x, y \in live : x # y => ~SameHome(x.env, y.env)
  /\ last.cmd = "stop" => \A x \in live : ~SameHome(x.env, last.env)

\* Nothing is created in the temporary directory, which other accounts may
\* share, unless a variable names a place in it, nor at a reparse point
\* (config.rs:231, config.rs:180).
WrittenWhereMeant ==
  Windows => \A p \in last.wrote :
    /\ p \notin Reparse
    /\ StartsWith(p, Temp) =>
         \E v \in {last.env.config, last.env.state, last.env.home} :
           IsSet(v) /\ StartsWith(p, Located(last.env, v))

\* And a place somebody named is written to: a start is refused only at a
\* reparse point, or when USERPROFILE and one of the bases are unset or empty
\* (config.rs:240-245).
NamedIsAccepted ==
  last.outcome = "refused" =>
    \/ \E p \in {PidFile(last.env), XrayConfig(last.env), AwgConf(last.env)}
                 \cup ChosenXrayLogs(last.env) :
         Located(last.env, p) \in Reparse
    \/ /\ last.env.home \in {Nil, <<>>}
       /\ last.env.config \in {Nil, <<>>} \/ last.env.state \in {Nil, <<>>}
=============================================================================
