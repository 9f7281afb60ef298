----------------------------- MODULE WindowsProxy -----------------------------
(***************************************************************************)
(* The Windows proxy of src/src/platform/windows.rs: two values of the     *)
(* Internet Settings key, written one after the other without a            *)
(* transaction, and the WinHTTP proxy, set as well as can be.  The         *)
(* registry and netsh are external.                                        *)
(***************************************************************************)
EXTENDS Naturals, ProxyAddresses

VARIABLES
  ProxyEnable, ProxyServer, winhttp,
  task, want, phase,      \* phase: "open", "enable", "server", "winhttp"
  told, before, alone,    \* as in ProxySwitch
  smooth,                 \* history: netsh has worked for this batch
  disturbed               \* history: a batch failed, died or met another

settings == <<ProxyEnable, ProxyServer, winhttp>>
vars == <<settings, task, want, phase, told, before, alone, smooth, disturbed>>

\* The switch as corvex leaves it, on or off; all else is in between.
Switch == IF ProxyEnable /\ ProxyServer \in Ports THEN "on"
          ELSE IF ~ProxyEnable /\ ProxyServer = None THEN "off" ELSE "mixed"

\* The user may have a proxy configured, on or off.
Init ==
  /\ ProxyEnable \in BOOLEAN
  /\ ProxyServer \in {Other, None} /\ (ProxyEnable => ProxyServer = Other)
  /\ winhttp \in {Other, None}
  /\ task = [c \in Callers |-> "none"] /\ want = [c \in Callers |-> Other]
  /\ phase = [c \in Callers |-> "open"]
  /\ told = [c \in Callers |-> "none"]
  /\ before = [c \in Callers |-> Switch] /\ alone = [c \in Callers |-> FALSE]
  /\ smooth = [c \in Callers |-> TRUE]
  /\ disturbed = TRUE

Begin(c) ==
  /\ task[c] = "none"
  /\ \/ \E p \in Ports : want' = [want EXCEPT ![c] = p] /\ task' = [task EXCEPT ![c] = "enable"]
     \/ task' = [task EXCEPT ![c] = "disable"] /\ want' = [want EXCEPT ![c] = None]
  /\ told' = [told EXCEPT ![c] = "none"]
  /\ before' = [before EXCEPT ![c] = Switch]
  /\ alone' = [d \in Callers |-> d = c /\ \A e \in Callers : task[e] = "none"]
  /\ smooth' = [smooth EXCEPT ![c] = TRUE]
  /\ disturbed' = (disturbed \/ \E d \in Callers : task[d] # "none")
  /\ UNCHANGED <<settings, phase>>

\* The command is over.  A batch that met no other, and all of which worked,
\* mends whatever was left.
Report(c, t) ==
  /\ told' = [told EXCEPT ![c] = t]
  /\ task' = [task EXCEPT ![c] = "none"] /\ want' = [want EXCEPT ![c] = Other]
  /\ phase' = [phase EXCEPT ![c] = "open"]
  /\ disturbed' = ~(t \in {"enabled", "disabled"} /\ alone[c] /\ smooth'[c])
  /\ UNCHANGED <<before, alone>>

Goto(c, p) ==
  /\ phase' = [phase EXCEPT ![c] = p]
  /\ UNCHANGED <<task, want, told, before, alone, smooth, disturbed>>

Fails(c) == Report(c, "failed") /\ UNCHANGED <<settings, smooth>>

\* write_proxy_settings: the key, and one value after the other.
OpenKey(c) ==
  /\ task[c] # "none" /\ phase[c] = "open"
  /\ \/ Goto(c, "enable") /\ UNCHANGED settings
     \/ Fails(c)

SetEnable(c) ==
  /\ phase[c] = "enable"
  /\ \/ ProxyEnable' = (task[c] = "enable") /\ Goto(c, "server") /\ UNCHANGED <<ProxyServer, winhttp>>
     \/ Fails(c)

\* The bug of not looking at what the second write returns.
FaultySetServer(c) ==
  /\ phase[c] = "server"
  /\ ProxyServer' \in {want[c], ProxyServer} /\ Goto(c, "winhttp")
  /\ UNCHANGED <<ProxyEnable, winhttp>>

SetServer(c) ==
  /\ phase[c] = "server"
  /\ \/ ProxyServer' = want[c] /\ Goto(c, "winhttp") /\ UNCHANGED <<ProxyEnable, winhttp>>
     \/ Fails(c)

\* netsh winhttp set proxy, or reset proxy; whatever becomes of it is success.
Netsh(c) ==
  /\ phase[c] = "winhttp"
  /\ \/ winhttp' = want[c] /\ UNCHANGED smooth
     \/ UNCHANGED winhttp /\ smooth' = [smooth EXCEPT ![c] = FALSE]
  /\ Report(c, IF task[c] = "enable" THEN "enabled" ELSE "disabled")
  /\ UNCHANGED <<ProxyEnable, ProxyServer>>

Kill(c) ==
  /\ task[c] # "none"
  /\ Report(c, "killed")
  /\ UNCHANGED <<settings, smooth>>

Next == \E c \in Callers :
  Begin(c) \/ OpenKey(c) \/ SetEnable(c) \/ SetServer(c) \/ Netsh(c) \/ Kill(c)

Spec == Init /\ [][Next]_vars

-----------------------------------------------------------------------------
\* parse_proxy_server, of what corvex writes: socks=, and no other kind.  An
\* address without a kind, the user's, is all of them.
Status(kind) ==
  IF ~ProxyEnable \/ ProxyServer = None THEN None
  ELSE IF ProxyServer \in Ports /\ kind # "socks" THEN None
  ELSE ProxyServer

Idle == \A c \in Callers : task[c] = "none"

\* What the settings and the batches may hold: no batch outlives its command,
\* and none gets past the key without the address it is to write.
TypeOK ==
  /\ ProxyEnable \in BOOLEAN
  /\ ProxyServer \in Ports \cup {Other, None} /\ winhttp \in Ports \cup {Other, None}
  /\ task \in [Callers -> {"none", "enable", "disable"}]
  /\ want \in [Callers -> Ports \cup {Other, None}]
  /\ phase \in [Callers -> {"open", "enable", "server", "winhttp"}]
  /\ \A c \in Callers : task[c] = "none" => phase[c] = "open"
  /\ \A c \in Callers : phase[c] # "open" => want[c] # Other

\* The proxy, the WinHTTP proxy and `corvex status` say the same, unless a batch
\* failed, died or met another; one batch that did none of these mends what was
\* left before it.
AllAgree ==
  Idle /\ ~disturbed =>
    /\ ProxyEnable <=> ProxyServer \in Ports
    /\ winhttp = (IF ProxyEnable THEN ProxyServer ELSE None)
    /\ Status("socks") = winhttp

\* What is reported is what is promised of the switch.
PS == INSTANCE ProxySwitch WITH switch <- Switch
ImplementsProxySwitch == PS!Spec
=============================================================================
