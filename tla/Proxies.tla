------------------------------- MODULE Proxies -------------------------------
(***************************************************************************)
(* The system proxies of the three platforms (src/src/platform) side by    *)
(* side: in each behaviour the batches of one of them run, and the other   *)
(* two rest in an initial state.                                           *)
(***************************************************************************)
EXTENDS MacProxy

CONSTANT LinuxPorts   \* one port will do where two callers contend for two settings

VARIABLES
  part,   \* "macos", "linux", "windows"
  machine, env, desktopOn, desktopAddr, session, linuxTask, linuxWant, linuxPhase, linuxStep,
  linuxTold, linuxBefore, linuxAlone, linuxSmooth, linuxDisturbed,
  ProxyEnable, ProxyServer, winhttp, windowsTask, windowsWant, windowsPhase,
  windowsTold, windowsBefore, windowsAlone, windowsSmooth, windowsDisturbed

Linux == INSTANCE LinuxProxy WITH Ports <- LinuxPorts,
  on <- desktopOn, addr <- desktopAddr, task <- linuxTask, want <- linuxWant,
  phase <- linuxPhase, step <- linuxStep, told <- linuxTold, before <- linuxBefore,
  alone <- linuxAlone, smooth <- linuxSmooth, disturbed <- linuxDisturbed

Windows == INSTANCE WindowsProxy WITH
  task <- windowsTask, want <- windowsWant, phase <- windowsPhase, told <- windowsTold,
  before <- windowsBefore, alone <- windowsAlone, smooth <- windowsSmooth,
  disturbed <- windowsDisturbed

\* No port is mistaken for what else a setting may hold.
ASSUME LinuxApart == Linux!AddressesApart

linuxVars == <<machine, env, desktopOn, desktopAddr, session, linuxTask, linuxWant, linuxPhase,
               linuxStep, linuxTold, linuxBefore, linuxAlone, linuxSmooth, linuxDisturbed>>
windowsVars == <<ProxyEnable, ProxyServer, winhttp, windowsTask, windowsWant, windowsPhase,
                 windowsTold, windowsBefore, windowsAlone, windowsSmooth, windowsDisturbed>>

\* The proxies are off where the part rests.
MacRests == on = [k \in Kinds |-> FALSE] /\ Init
LinuxRests == machine = "gnome" /\ env = Absent /\ Linux!Init
WindowsRests == ProxyEnable = FALSE /\ ProxyServer = None /\ winhttp = None /\ Windows!Init

ProxiesInit ==
  \/ part = "macos" /\ LinuxRests /\ WindowsRests /\ Init
  \/ part = "linux" /\ MacRests /\ WindowsRests /\ Linux!Init
  \/ part = "windows" /\ MacRests /\ LinuxRests /\ Windows!Init
ProxiesNext ==
  /\ UNCHANGED part
  /\ \/ part = "macos" /\ Next /\ UNCHANGED <<linuxVars, windowsVars>>
     \/ part = "linux" /\ Linux!Next /\ UNCHANGED <<vars, windowsVars>>
     \/ part = "windows" /\ Windows!Next /\ UNCHANGED <<vars, linuxVars>>
ProxiesSpec == ProxiesInit /\ [][ProxiesNext]_<<part, vars, linuxVars, windowsVars>>

-----------------------------------------------------------------------------
\* After a batch that met no other and worked, everything a platform shows the
\* proxy in says the same: macOS its three proxies and the last report, Linux
\* proxy.env, the desktop and `corvex status` of either session, Windows the
\* two registry values and WinHTTP.
SettingsAgree ==
  /\ TypeOK /\ LastWordsAgree
  /\ Linux!TypeOK /\ Linux!DesktopFollowsEnv /\ Linux!StatusFollowsEnv
  /\ Windows!TypeOK /\ Windows!AllAgree

\* proxy.env and the registry keep the promise of enable_proxy and
\* disable_proxy, as the three proxies of macOS do (platform/mod.rs).
OthersImplement == Linux!ImplementsProxySwitch /\ Windows!ImplementsProxySwitch
=============================================================================
