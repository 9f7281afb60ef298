-------------------------------- MODULE Flow --------------------------------
(***************************************************************************)
(* The flow of the commands side by side with what its steps stand for: in *)
(* each behaviour one of StartFlow, AwgTunnel, ProcessReport, BinaryLookup *)
(* and Locations (for unix and for Windows) runs, and the others rest in   *)
(* an initial state.                                                       *)
(***************************************************************************)
EXTENDS StartFlow, Sequences

CONSTANTS
  Nil,
  Links, Ids, Users, MaxCommands,        \* of AwgTunnel
  Pids, Programs, MaxEvents,             \* of ProcessReport
  OnWindows, FixedPlaces, Packages,      \* of BinaryLookup
  UnixPlaces, WindowsPlaces,             \* of Locations: [configs, states, homes, cwds]
  Temp, Reparse, MaxLive

VARIABLES
  part,   \* "flow", "tunnel", "processes", "binary", "unix", "windows"
  user, commands, tunnelPc, link, awg, confLines, interface, from, tunnelOutcome,
  procs, pidFile, processCmd, processPc, tracked, error, all, out, then, raced, events,
  tool, onPath, fixed, packages, lookupPc, found, changed, lookupOutcome,
  live, last

tunnelVars == <<user, commands, tunnelPc, link, awg, confLines, interface, from, tunnelOutcome>>
processVars == <<procs, pidFile, processCmd, processPc, tracked, error, all, out, then, raced, events>>
lookupVars == <<tool, onPath, fixed, packages, lookupPc, found, changed, lookupOutcome>>
placeVars == <<live, last>>

-----------------------------------------------------------------------------
Tunnel == INSTANCE AwgTunnel WITH
  pc <- tunnelPc, conf <- confLines, tunnel <- interface, outcome <- tunnelOutcome

Processes == INSTANCE ProcessReport WITH cmd <- processCmd, pc <- processPc

Lookup == INSTANCE BinaryLookup WITH
  Windows <- OnWindows, Fixed <- FixedPlaces, pc <- lookupPc, outcome <- lookupOutcome

PlacesOf(windows) == IF windows THEN WindowsPlaces ELSE UnixPlaces
Place(windows) == INSTANCE Locations WITH
  Windows <- windows, Configs <- PlacesOf(windows).configs, States <- PlacesOf(windows).states,
  Homes <- PlacesOf(windows).homes, Cwds <- PlacesOf(windows).cwds

ASSUME ConstantsTyped ==
  /\ Tunnel!ConstantsTyped /\ Processes!ConstantsTyped /\ Lookup!ConstantsTyped
  /\ \A windows \in BOOLEAN : Place(windows)!ConstantsTyped

-----------------------------------------------------------------------------
FlowRests == config = None /\ Init
TunnelRests == user = "user" /\ Tunnel!Init
ProcessesRest == procs = [p \in Pids |-> Nil] /\ processCmd = "status" /\ Processes!Init
LookupRests == packages = <<>> /\ fixed = {} /\ onPath = FALSE /\ Lookup!Init

FlowInit ==
  \/ part = "flow" /\ TunnelRests /\ ProcessesRest /\ LookupRests /\ Place(FALSE)!Init /\ Init
  \/ part = "tunnel" /\ FlowRests /\ ProcessesRest /\ LookupRests /\ Place(FALSE)!Init /\ Tunnel!Init
  \/ part = "processes" /\ FlowRests /\ TunnelRests /\ LookupRests /\ Place(FALSE)!Init /\ Processes!Init
  \/ part = "binary" /\ FlowRests /\ TunnelRests /\ ProcessesRest /\ Place(FALSE)!Init /\ Lookup!Init
  \/ part \in {"unix", "windows"} /\ FlowRests /\ TunnelRests /\ ProcessesRest /\ LookupRests /\ Place(FALSE)!Init
FlowNext ==
  /\ UNCHANGED part
  /\ \/ part = "flow" /\ Next /\ UNCHANGED <<tunnelVars, processVars, lookupVars, placeVars>>
     \/ part = "tunnel" /\ Tunnel!Next /\ UNCHANGED <<vars, processVars, lookupVars, placeVars>>
     \/ part = "processes" /\ Processes!Next /\ UNCHANGED <<vars, tunnelVars, lookupVars, placeVars>>
     \/ part = "binary" /\ Lookup!Next /\ UNCHANGED <<vars, tunnelVars, processVars, placeVars>>
     \/ part = "unix" /\ Place(FALSE)!Next /\ UNCHANGED <<vars, tunnelVars, processVars, lookupVars>>
     \/ part = "windows" /\ Place(TRUE)!Next /\ UNCHANGED <<vars, tunnelVars, processVars, lookupVars>>
FlowSpec == FlowInit /\ [][FlowNext]_<<part, vars, tunnelVars, processVars, lookupVars, placeVars>>

-----------------------------------------------------------------------------
\* The interface has for each key what the link that is running has for it; a
\* link that is refused leaves the .conf the tunnel was brought up with; and
\* for root a command that ends well leaves its own link's tunnel, or none
\* (AwgTunnel, awg.rs:101-176, main.rs:657).
TunnelFollowsLink ==
  /\ [](Tunnel!TypeOK /\ Tunnel!TunnelIsLinks)
  /\ Tunnel!ConfOutlivesRefusal
  /\ Tunnel!NoStaleTunnel

\* Whom the user is told to kill runs on corvex's config, as the user the
\* advice takes it for, and is not the tracked one; no listed orphan stays
\* unsaid; and a start that may not stop the tracked process says whose it is
\* (ProcessReport, xray.rs:469).
ReportsFit ==
  Processes!TypeOK /\ Processes!AdviceFits /\ Processes!OrphansTold /\ Processes!BlockedByWhom

\* What runs is what is preferred when it is spawned, and a start past the
\* check fails to spawn only if the installation changed (BinaryLookup, xray.rs:33).
SpawnsWhatIsThere == Lookup!TypeOK /\ Lookup!SpawnsThePreferred /\ Lookup!CheckHolds

\* One home has one xray, whatever else environments disagree about; on Windows
\* nothing is created in the shared temporary directory or at a reparse point,
\* and a place that somebody named is accepted (Locations, config.rs:1876,
\* config.rs:180, config.rs:231-245).
PlacesFit ==
  \A windows \in BOOLEAN : (part = "windows") = windows =>
    /\ Place(windows)!TypeOK /\ Place(windows)!OneXrayPerHome
    /\ Place(windows)!WrittenWhereMeant /\ Place(windows)!NamedIsAccepted
=============================================================================
