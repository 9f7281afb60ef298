------------------------------ MODULE StartFlow ------------------------------
(***************************************************************************)
(* One corvex command after another, end to end: cmd_start, cmd_stop and   *)
(* cmd_reload of src/src/main.rs and what they do to config.json, the      *)
(* AmneziaWG tunnel, xray and the system proxy.  Every fallible call is a  *)
(* step with its failure, and the command may be killed at each.           *)
(*                                                                         *)
(* Here xray is what serves the proxy port and has which configuration;    *)
(* its PID file and process are the subject of XrayLifecycle, the batches  *)
(* behind the proxy switch that of MacProxy.  Commands do not overlap.     *)
(* sudo, awg, awg-quick and xray are external.                             *)
(***************************************************************************)
EXTENDS Naturals

CONSTANTS
    Servers,        \* proxy servers xray itself can talk to
    Awg,            \* a vpn:// source: the tunnel, xray as its router
    None,           \* no xray, no file
    Broken,         \* a config.json that is not JSON (any more)
    MaxFaults       \* bound on killed commands, crashes and reboots

Sources == Servers \cup {Awg}

ASSUME ValuesApart ==
    /\ Awg \notin Servers
    /\ {None, Broken} \cap Sources = {} /\ None # Broken
    /\ MaxFaults \in Nat

\* A config.json, reduced to whom its outbound is for and for whom its routing
\* rules were built: the rules name the outbound by its tag.
Configs == [out : Sources, rules : Sources]
For(s) == [out |-> s, rules |-> s]

ASSUME ConfigsApart == {None, Broken} \cap Configs = {}

VARIABLES
    config,     \* config.json
    conf,       \* the AmneziaWG .conf exists
    tunnel,     \* its interface is up
    xray,       \* the configuration the running xray has, or None
    proxy,      \* "off", "mixed", "on"
    pc, cmd,
    source,     \* the server the command has resolved, or None
    outcome,    \* of the last command: "none", "ok", "failed", "killed"
    faults,
    disturbed   \* history: something was left half done, and no command has mended it

world == <<config, conf, tunnel, xray, proxy>>
vars == <<world, pc, cmd, source, outcome, faults, disturbed>>

\* Up to here a failing command has not touched anything.
Early == {"settings", "resolve", "preflight", "detect", "validate"}
Late == {"preStop", "parse", "conf", "up", "awgConfig", "apply", "rules", "create",
         "dns", "stopOld", "port", "spawn", "enable",
         "stopXray", "disable", "down", "hup"}
Writing == {"awgConfig", "apply", "rules", "create", "dns", "port"}

\* Types; and from the moment a source is chosen there is one.
TypeOK ==
    /\ config \in Configs \cup {None, Broken}
    /\ conf \in BOOLEAN /\ tunnel \in BOOLEAN
    /\ xray \in Configs \cup {None}
    /\ proxy \in {"off", "mixed", "on"}
    /\ pc \in Early \cup Late \cup {"idle"}
    /\ cmd \in {"start", "stop", "reload"}
    /\ source \in Sources \cup {None}
    /\ outcome \in {"none", "ok", "failed", "killed"}
    /\ faults \in 0..MaxFaults
    /\ disturbed \in BOOLEAN
    /\ pc \in {"parse", "conf", "up", "spawn"} \cup Writing => source \in Sources
    /\ pc \in {"conf", "up", "awgConfig"} => source = Awg
    /\ pc \in {"apply", "rules", "create"} => source \in Servers

Init ==
    /\ config \in {None, Broken} \cup {For(s) : s \in Servers}
    /\ conf = FALSE /\ tunnel = FALSE /\ xray = None /\ proxy = "off"
    /\ pc = "idle" /\ cmd = "stop" /\ source = None /\ outcome = "none"
    /\ faults = 0 /\ disturbed = FALSE

-----------------------------------------------------------------------------
Goto(l) == pc' = l /\ UNCHANGED <<cmd, source, outcome, faults, disturbed>>

End(o, d) ==
    /\ pc' = "idle" /\ source' = None
    /\ outcome' = o
    /\ disturbed' = d
    /\ UNCHANGED <<cmd, faults>>

\* The ? operator: the command ends with an error where it stands.
Fail == End("failed", disturbed \/ pc \in Late)

Invoke ==
    /\ pc = "idle"
    /\ \/ cmd' = "start" /\ pc' = "settings"
       \/ cmd' = "stop" /\ pc' = "detect"
       \/ cmd' = "reload" /\ pc' = "validate"
    /\ outcome' = "none"
    /\ UNCHANGED <<world, source, faults, disturbed>>

\* write_restricted: the open may be refused before the truncation, or the
\* write fail after it.
WriteFails == config' \in {config, Broken}

-----------------------------------------------------------------------------
(* cmd_start: settings, a live server, the log files.  Nothing is touched. *)

Settings ==
    /\ pc = "settings"
    /\ Goto("resolve") \/ Fail
    /\ UNCHANGED world

\* A direct URI, or what SourceSelect makes of the subscriptions.
Resolve ==
    /\ pc = "resolve"
    /\ \/ \E s \in Sources :
            /\ pc' = "preflight" /\ source' = s
            /\ UNCHANGED <<cmd, outcome, faults, disturbed>>
       \/ Fail
    /\ UNCHANGED world

FaultyStopFirst ==
    /\ pc = "preflight"
    /\ Goto("preStop") \/ Fail
    /\ tunnel' = FALSE
    /\ UNCHANGED <<config, conf, xray, proxy>>

Preflight ==
    /\ pc = "preflight"
    /\ Goto("preStop") \/ Fail
    /\ UNCHANGED world

\* stop_awg_if_running: without a .conf there is nothing to stop; `awg show`
\* may not see an interface that is there; a failing awg-quick is a warning.
StopTunnel ==
    \/ conf /\ tunnel /\ tunnel' = FALSE
    \/ UNCHANGED tunnel

PreStop ==
    /\ pc = "preStop"
    /\ StopTunnel
    /\ Goto("parse")
    /\ UNCHANGED <<config, conf, xray, proxy>>

FaultyOneEngine ==
    /\ pc = "parse"
    /\ Goto(IF config = None THEN "create" ELSE "apply") \/ Fail
    /\ UNCHANGED world

\* parse_uri or parse_vpn_uri; then the engines part.
Parse ==
    /\ pc = "parse"
    /\ \/ source = Awg /\ Goto("conf")
       \/ source # Awg /\ Goto(IF config = None THEN "create" ELSE "apply")
       \/ Fail
    /\ UNCHANGED world

-----------------------------------------------------------------------------
(* The AmneziaWG engine *)

WriteConf ==
    /\ pc = "conf"
    /\ \/ conf' = TRUE /\ Goto("up")
       \/ conf' \in {conf, TRUE} /\ Fail
    /\ UNCHANGED <<config, tunnel, xray, proxy>>

\* awg-quick is missing, the path is not trusted, sudo refuses, or an
\* interface of that name is up already.
StartTunnel ==
    /\ pc = "up"
    /\ \/ ~tunnel /\ tunnel' = TRUE /\ Goto("awgConfig")
       \/ Fail /\ UNCHANGED tunnel
    /\ UNCHANGED <<config, conf, xray, proxy>>

WriteAwgConfig ==
    /\ pc = "awgConfig"
    /\ \/ config' = For(Awg) /\ Goto("dns")
       \/ WriteFails /\ Fail
    /\ UNCHANGED <<conf, tunnel, xray, proxy>>

-----------------------------------------------------------------------------
(* The xray engine: write_xray_config *)

Inapplicable == {Broken} \cup {[out |-> Awg, rules |-> s] : s \in Sources}

\* apply_to_config replaces a proxy outbound: a config of the AmneziaWG engine
\* has none, and one that does not parse is no better.
ApplyToConfig ==
    /\ pc = "apply"
    /\ \/ config \in Inapplicable /\ UNCHANGED config /\ Goto("create")
       \/ config \notin Inapplicable /\ config' = [config EXCEPT !.out = source] /\ Goto("rules")
       \/ config \notin Inapplicable /\ WriteFails /\ Goto("create")
    /\ UNCHANGED <<conf, tunnel, xray, proxy>>

FaultyRulesOptional ==
    /\ pc = "rules"
    /\ \/ config' = [config EXCEPT !.rules = source]
       \/ UNCHANGED config
    /\ Goto("dns")
    /\ UNCHANGED <<conf, tunnel, xray, proxy>>

UpdateRoutingRules ==
    /\ pc = "rules"
    /\ \/ config' = [config EXCEPT !.rules = source] /\ Goto("dns")
       \/ WriteFails /\ Goto("create")
    /\ UNCHANGED <<conf, tunnel, xray, proxy>>

CreateConfig ==
    /\ pc = "create"
    /\ \/ config' = For(source) /\ Goto("dns")
       \/ WriteFails /\ Fail
    /\ UNCHANGED <<conf, tunnel, xray, proxy>>

-----------------------------------------------------------------------------
(* The common tail *)

\* The mappings of the settings and of the system resolver; with none of them
\* the file is not even read.
SyncDns ==
    /\ pc = "dns"
    /\ \/ Goto("stopOld") /\ UNCHANGED config
       \/ WriteFails /\ Fail
    /\ UNCHANGED <<conf, tunnel, xray, proxy>>

StopOld ==
    /\ pc = "stopOld"
    /\ \/ xray' = None /\ Goto("port")
       \/ UNCHANGED xray /\ Fail
    /\ UNCHANGED <<config, conf, tunnel, proxy>>

UpdateConfigPort ==
    /\ pc = "port"
    /\ \/ Goto("spawn") /\ UNCHANGED config
       \/ WriteFails /\ Fail
    /\ UNCHANGED <<conf, tunnel, xray, proxy>>

\* What an earlier command or a crash has left no longer matters.
UpAndRunning == pc' = "enable" /\ disturbed' = FALSE /\ UNCHANGED <<cmd, source, outcome, faults>>

\* Up for a second, or StartFailed; an xray whose PID could not be written
\* stays, and the error says so.
Spawn ==
    /\ pc = "spawn"
    /\ \/ xray' = config /\ (UpAndRunning \/ Fail)
       \/ UNCHANGED xray /\ Fail
    /\ UNCHANGED <<config, conf, tunnel, proxy>>

HalfDone(goal) == {proxy, "mixed"} \cup (IF proxy = "mixed" THEN {goal} ELSE {})

EnableProxy ==
    /\ pc = "enable"
    /\ \/ proxy' = "on" /\ End("ok", disturbed)
       \/ proxy' \in HalfDone("on") /\ Fail
    /\ UNCHANGED <<config, conf, tunnel, xray>>

-----------------------------------------------------------------------------
(* cmd_stop *)

DetectService ==
    /\ pc = "detect"
    /\ Goto("stopXray") \/ Fail
    /\ UNCHANGED world

\* A process of somebody else's, or none at all, is an error that changes
\* nothing; so it does not count as something left half done.
StopXray ==
    /\ pc = "stopXray"
    /\ \/ xray # None /\ xray' = None /\ Goto("disable")
       \/ UNCHANGED xray /\ End("failed", disturbed)
    /\ UNCHANGED <<config, conf, tunnel, proxy>>

FaultyTunnelFirst ==
    /\ pc = "disable"
    /\ StopTunnel
    /\ \/ proxy' = "off" /\ Goto("down")
       \/ proxy' \in HalfDone("off") /\ Fail
    /\ UNCHANGED <<config, conf, xray>>

DisableProxy ==
    /\ pc = "disable"
    /\ \/ proxy' = "off" /\ Goto("down")
       \/ proxy' \in HalfDone("off") /\ Fail
    /\ UNCHANGED <<config, conf, tunnel, xray>>

Down ==
    /\ pc = "down"
    /\ StopTunnel
    /\ End("ok", FALSE)
    /\ UNCHANGED <<config, conf, xray, proxy>>

-----------------------------------------------------------------------------
(* cmd_reload *)

ValidateConfig ==
    /\ pc = "validate"
    /\ IF config \in {None, Broken} THEN Fail ELSE Goto("hup")
    /\ UNCHANGED world

\* xray rereads its configuration, keeps the one it has, or dies.
Hup ==
    /\ pc = "hup"
    /\ \/ xray # None /\ xray' \in {config, xray, None} /\ End("ok", disturbed \/ xray' # xray)
       \/ UNCHANGED xray /\ End("failed", disturbed)
    /\ UNCHANGED <<config, conf, tunnel, proxy>>

-----------------------------------------------------------------------------
(* What else happens *)

Fault == faults < MaxFaults /\ faults' = faults + 1 /\ disturbed' = TRUE

\* Killed in the middle of a write, a command leaves a truncated file, and in
\* the middle of a batch a mixture.
Kill ==
    /\ pc # "idle" /\ Fault
    /\ pc' = "idle" /\ source' = None /\ outcome' = "killed"
    /\ config' \in {config} \cup (IF pc \in Writing THEN {Broken} ELSE {})
    /\ proxy' \in CASE pc = "enable" -> HalfDone("on")
                    [] pc = "disable" -> HalfDone("off")
                    [] OTHER -> {proxy}
    /\ UNCHANGED <<conf, tunnel, xray, cmd>>

XrayCrashes ==
    /\ xray # None /\ Fault
    /\ xray' = None
    /\ UNCHANGED <<config, conf, tunnel, proxy, pc, cmd, source, outcome>>

Reboot ==
    /\ Fault
    /\ xray' = None /\ tunnel' = FALSE
    /\ pc' = "idle" /\ source' = None
    /\ outcome' = IF pc = "idle" THEN outcome ELSE "killed"
    /\ UNCHANGED <<config, conf, proxy, cmd>>

Next ==
    \/ Invoke \/ Settings \/ Resolve \/ Preflight \/ PreStop \/ Parse
    \/ WriteConf \/ StartTunnel \/ WriteAwgConfig
    \/ ApplyToConfig \/ UpdateRoutingRules \/ CreateConfig
    \/ SyncDns \/ StopOld \/ UpdateConfigPort \/ Spawn \/ EnableProxy
    \/ DetectService \/ StopXray \/ DisableProxy \/ Down
    \/ ValidateConfig \/ Hup
    \/ Kill \/ XrayCrashes \/ Reboot

Spec == Init /\ [][Next]_vars

-----------------------------------------------------------------------------
(* Properties *)

\* Between commands, unless something since the last success was left half
\* done by a failure past the point of no return, a kill, a crash or an xray
\* that reread a changed file, the parts agree: the proxy is on exactly while
\* an xray serves it, that xray's rules are those of its outbound, and the one
\* that only routes into the tunnel has a tunnel.
Coherent ==
    pc = "idle" /\ ~disturbed =>
        /\ proxy = (IF xray = None THEN "off" ELSE "on")
        /\ xray # None => xray.out = xray.rules /\ (xray.out = Awg => tunnel)

\* `start` gives xray the configuration of the server it has resolved and of
\* no other, whatever file earlier commands have left, and whichever of
\* write_xray_config's two ways was taken.
SpawnsResolved ==
    [][pc = "spawn" /\ xray' # xray => xray' = For(source)]_vars

\* `stop` takes the tunnel down last of all: not before the proxy is off and
\* xray gone (README.md:104), so that nothing falls back to the open network.
TunnelOutlivesProxy ==
    [][cmd = "stop" /\ tunnel /\ ~tunnel' /\ faults' = faults
         => proxy = "off" /\ xray = None]_vars
=============================================================================
