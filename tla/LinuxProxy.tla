------------------------------ MODULE LinuxProxy ------------------------------
(***************************************************************************)
(* The Linux proxy of src/src/platform/linux.rs: proxy.env, which shells   *)
(* source and which decides what corvex reports, and the settings of the   *)
(* desktop, which are changed as well as can be and of which no failure is *)
(* ever reported.                                                          *)
(*                                                                         *)
(* A corvex knows its desktop from XDG_CURRENT_DESKTOP: over ssh there is  *)
(* none, although the machine's desktop is the same.  gsettings and        *)
(* kwriteconfig are external.                                              *)
(***************************************************************************)
EXTENDS Naturals, Sequences, ProxyAddresses

Kinds == {"socks", "http", "https"}
Desktops == {"gnome", "kde"}

VARIABLES
  machine,     \* the desktop of the machine
  env,         \* proxy.env
  on, addr,    \* the settings of the desktop: its mode, the address of each kind
  session,     \* what XDG_CURRENT_DESKTOP tells each corvex
  task, want,  \* "none", "enable", "disable"; the port it enables
  phase,       \* "open", "write", "remove", "desktop"
  step,        \* the next desktop command
  told, before, alone,  \* as in ProxySwitch
  smooth,      \* history: every desktop command of the batch has worked
  disturbed    \* history: a batch failed, died, met another or knew no desktop

desktop == <<machine, on, addr>>
vars == <<machine, env, on, addr, session, task, want, phase, step, told, before, alone,
          smooth, disturbed>>

Switch == IF env \in Ports THEN "on" ELSE IF env = Absent THEN "off" ELSE "mixed"

-----------------------------------------------------------------------------
\* try_gsettings_set_proxy: the mode first; try_kde_set_proxy likewise.  GNOME
\* keeps host and port of a kind in two settings, KDE in one.
SetCommands(d) ==
  IF d = "gnome"
  THEN <<<<"mode", TRUE>>, <<"host", "socks">>, <<"port", "socks">>, <<"host", "http">>,
         <<"port", "http">>, <<"host", "https">>, <<"port", "https">>>>
  ELSE <<<<"mode", TRUE>>, <<"port", "socks">>, <<"port", "http">>, <<"port", "https">>>>
UnsetCommands(d) == <<<<"mode", FALSE>>>>

Commands(c) ==
  IF session[c] = "none" THEN <<>>
  ELSE IF task[c] = "enable" THEN SetCommands(session[c]) ELSE UnsetCommands(session[c])

\* The host is always 127.0.0.1: the port is what tells addresses apart.
Apply(command, port) ==
  CASE command[1] = "mode" -> on' = command[2] /\ UNCHANGED addr
    [] command[1] = "port" -> addr' = [addr EXCEPT ![command[2]] = port] /\ UNCHANGED on
    [] OTHER -> UNCHANGED <<on, addr>>

Init ==
  /\ machine \in Desktops
  /\ env \in Ports \cup {Absent}
  /\ on = (env \in Ports)
  /\ addr = [k \in Kinds |-> IF env \in Ports THEN env ELSE Other]
  /\ session = [c \in Callers |-> "none"]
  /\ task = [c \in Callers |-> "none"] /\ want = [c \in Callers |-> Other]
  /\ phase = [c \in Callers |-> "open"] /\ step = [c \in Callers |-> 1]
  /\ told = [c \in Callers |-> "none"]
  /\ before = [c \in Callers |-> Switch] /\ alone = [c \in Callers |-> FALSE]
  /\ smooth = [c \in Callers |-> TRUE]
  /\ disturbed = FALSE

Begin(c) ==
  /\ task[c] = "none"
  /\ \/ \E p \in Ports : want' = [want EXCEPT ![c] = p] /\ task' = [task EXCEPT ![c] = "enable"]
     \/ task' = [task EXCEPT ![c] = "disable"] /\ UNCHANGED want
  /\ \E s \in {machine, "none"} : session' = [session EXCEPT ![c] = s]
  /\ told' = [told EXCEPT ![c] = "none"]
  /\ before' = [before EXCEPT ![c] = Switch]
  /\ alone' = [d \in Callers |-> d = c /\ \A e \in Callers : task[e] = "none"]
  /\ smooth' = [smooth EXCEPT ![c] = TRUE]
  /\ disturbed' = (disturbed \/ \E d \in Callers : task[d] # "none")
  /\ UNCHANGED <<env, desktop, phase, step>>

\* The command is over, with a report.  A batch mends what was left disturbed if
\* it knew the desktop, met no other batch, and all of it worked.
Report(c, t) ==
  /\ told' = [told EXCEPT ![c] = t]
  /\ task' = [task EXCEPT ![c] = "none"] /\ want' = [want EXCEPT ![c] = Other]
  /\ phase' = [phase EXCEPT ![c] = "open"] /\ step' = [step EXCEPT ![c] = 1]
  /\ session' = [session EXCEPT ![c] = "none"]
  /\ LET mends == t \in {"enabled", "disabled"} /\ alone[c] /\ smooth[c] /\ session[c] = machine
     IN  disturbed' = ~mends
  /\ UNCHANGED <<before, alone, smooth>>

Goto(c, p) ==
  /\ phase' = [phase EXCEPT ![c] = p]
  /\ UNCHANGED <<session, task, want, step, told, before, alone, smooth, disturbed>>

\* enable_proxy: create_dir_all, and fs::write, which truncates and then writes.
Open(c) ==
  /\ task[c] = "enable" /\ phase[c] = "open"
  /\ \/ env' = Empty /\ Goto(c, "write")
     \/ UNCHANGED env /\ Report(c, "failed")
  /\ UNCHANGED desktop

Write(c) ==
  /\ phase[c] = "write"
  /\ \/ env' = want[c] /\ Goto(c, "desktop")
     \/ UNCHANGED env /\ Report(c, "failed")
  /\ UNCHANGED desktop

\* disable_proxy: exists, and then remove_file, of what may be gone by then.
Exists(c) ==
  /\ task[c] = "disable" /\ phase[c] = "open"
  /\ Goto(c, IF env = Absent THEN "desktop" ELSE "remove")
  /\ UNCHANGED <<env, desktop>>

Remove(c) ==
  /\ phase[c] = "remove"
  /\ \/ env # Absent /\ env' = Absent /\ Goto(c, "desktop")
     \/ UNCHANGED env /\ Report(c, "failed")
  /\ UNCHANGED desktop

Step(c) ==
  /\ step' = [step EXCEPT ![c] = @ + 1]
  /\ UNCHANGED <<session, task, want, phase, told, before, alone, disturbed>>

\* The bug of a run that is over at its first success.
FaultyRunDesktop(c) ==
  /\ phase[c] = "desktop" /\ step[c] <= Len(Commands(c))
  /\ \/ /\ Apply(Commands(c)[step[c]], want[c])
        /\ step' = [step EXCEPT ![c] = Len(Commands(c)) + 1]
        /\ UNCHANGED <<session, task, want, phase, told, before, alone, smooth, disturbed>>
     \/ /\ UNCHANGED <<on, addr>>
        /\ smooth' = [smooth EXCEPT ![c] = FALSE]
        /\ Step(c)
  /\ UNCHANGED <<machine, env>>

\* One gsettings or kwriteconfig.  gsettings is given up at its first failure,
\* kwriteconfig goes on; where it is not installed every command fails.
RunDesktop(c) ==
  /\ phase[c] = "desktop" /\ step[c] <= Len(Commands(c))
  /\ \/ /\ Apply(Commands(c)[step[c]], want[c])
        /\ Step(c) /\ UNCHANGED smooth
     \/ /\ UNCHANGED <<on, addr>>
        /\ smooth' = [smooth EXCEPT ![c] = FALSE]
        /\ IF session[c] = "gnome"
           THEN /\ step' = [step EXCEPT ![c] = Len(Commands(c)) + 1]
                /\ UNCHANGED <<session, task, want, phase, told, before, alone, disturbed>>
           ELSE Step(c)
  /\ UNCHANGED <<machine, env>>

Done(c) ==
  /\ phase[c] = "desktop" /\ step[c] > Len(Commands(c))
  /\ Report(c, IF task[c] = "enable" THEN "enabled" ELSE "disabled")
  /\ UNCHANGED <<env, desktop>>

Kill(c) ==
  /\ task[c] # "none"
  /\ Report(c, "killed")
  /\ UNCHANGED <<env, desktop>>

Next == \E c \in Callers :
  \/ Begin(c) \/ Open(c) \/ Write(c) \/ Exists(c) \/ Remove(c) \/ RunDesktop(c)
  \/ Done(c) \/ Kill(c)

Spec == Init /\ [][Next]_vars

-----------------------------------------------------------------------------
\* proxy_status: what the desktop says, where gsettings is there to ask and
\* answers, else proxy.env.
Off == [enabled |-> FALSE, port |-> Other]

Status(s, answers, k) ==
  IF s = "gnome" /\ answers
  THEN [enabled |-> on, port |-> addr[k]]
  ELSE IF env \in Ports THEN [enabled |-> TRUE, port |-> env] ELSE Off

Idle == \A c \in Callers : task[c] = "none"

TypeOK ==
  /\ machine \in Desktops
  /\ env \in Ports \cup {Absent, Empty}
  /\ on \in BOOLEAN /\ addr \in [Kinds -> Ports \cup {Other}]
  /\ session \in [Callers -> Desktops \cup {"none"}]
  /\ task \in [Callers -> {"none", "enable", "disable"}]
  /\ want \in [Callers -> Ports \cup {Other}]
  /\ phase \in [Callers -> {"open", "write", "remove", "desktop"}]
  /\ step \in [Callers -> 1..8]
  /\ told \in [Callers -> {"none", "enabled", "disabled", "failed", "killed"}]
  /\ \A c \in Callers : task[c] = "enable" <=> want[c] \in Ports

\* proxy.env and the desktop say the same, both off or both on at one port for
\* every kind, unless a batch failed, died, met another or knew no desktop; and
\* one batch that did none of these mends whatever was left before it.
DesktopFollowsEnv ==
  Idle /\ ~disturbed =>
    /\ on <=> env \in Ports
    /\ on => \A k \in Kinds : addr[k] = env

\* `corvex status` says the same in every session, and whether or not gsettings
\* answers, under the same condition.
StatusFollowsEnv ==
  Idle /\ ~disturbed =>
    \A s \in {machine, "none"}, answers \in BOOLEAN, k \in Kinds :
      /\ Status(s, answers, k).enabled <=> env \in Ports
      /\ env \in Ports => Status(s, answers, k).port = env

\* What is reported of proxy.env is what is promised of the switch: that much is
\* "the primary mechanism" whatever becomes of the desktop.
PS == INSTANCE ProxySwitch WITH switch <- Switch
ImplementsProxySwitch == PS!Spec
=============================================================================
