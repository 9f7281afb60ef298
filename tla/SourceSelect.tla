----------------------------- MODULE SourceSelect -----------------------------
(***************************************************************************)
(* How `corvex start` comes by a server when corvex.json names             *)
(* subscriptions: cmd_start's download loop, choose_source and             *)
(* resolve_uri_flow of src/src/main.rs, and the health checks of           *)
(* src/src/health.rs, each of which runs an xray of its own.               *)
(*                                                                         *)
(* A candidate is a server, whatever the protocol.  What a subscription    *)
(* holds is an input; the servers, the local machine (ports, files,        *)
(* processes) and the clock are external.                                  *)
(***************************************************************************)
EXTENDS Naturals, Sequences

CONSTANTS
    Servers,        \* proxy servers corvex can parse
    Unparsable,     \* entries of a supported scheme that parse_uri refuses
    Vpn,            \* vpn:// entries
    None,
    JsonBodies,     \* what a JSON-array subscription may hold: sequences of servers
    UriBodies,      \* what a base64 one may hold: its vpn:// entries and the others
    Subscriptions,  \* how many URLs there are
    Unsteady        \* whether servers may come and go during a start

ASSUME BodiesTyped ==
    /\ JsonBodies \subseteq Seq(Servers)
    /\ \A b \in UriBodies : b.uris \in Seq(Servers \cup Unparsable) /\ b.vpns \in Seq(Vpn)
ASSUME EntriesApart ==
    /\ Servers \cap (Unparsable \cup Vpn) = {} /\ Unparsable \cap Vpn = {}
    /\ None \notin Servers \cup Vpn
ASSUME SettingsTyped == Subscriptions \in Nat /\ Unsteady \in BOOLEAN

\* Above DEGRADED_THRESHOLD a server is "slow"; two that are not still differ.
Healths == {"down", "broken", "slow", "good", "fast"}
Acceptable == {"good", "fast"}

VARIABLES
    todo,           \* subscriptions still to download
    json, uris, vpns,   \* json_entries, xray_uris, vpn_uris
    pc,
    sweep,          \* whose candidates are being checked: "json", "uri"
    parsed,         \* the URIs of the sweep that parse_uri takes
    next,           \* number of the candidate under test, or of the URI to parse
    file, child,    \* the check's temporary config.json and xray exist
    source,         \* the start source
    health,         \* of each server, as a check would find it
    rejected        \* history: <<sweep, number>> of the candidates turned down

gathered == <<todo, json, uris, vpns>>
probe == <<file, child>>
vars == <<gathered, pc, sweep, parsed, next, probe, source, health, rejected>>

Probing == {"tcp", "config", "spawn", "ready", "request"}
Final == {"chosen", "failed", "killed"}

Candidates == IF sweep = "json" THEN json ELSE parsed

\* Types; the check's xray has a config to run from, and a candidate.
TypeOK ==
    /\ todo \in 0..Subscriptions
    /\ json \in Seq(Servers)
    /\ uris \in Seq(Servers \cup Unparsable)
    /\ vpns \in Seq(Vpn)
    /\ pc \in {"download", "choose", "parse"} \cup Probing \cup Final
    /\ sweep \in {"json", "uri"}
    /\ parsed \in Seq(Servers) /\ next \in Nat \ {0}
    /\ file \in BOOLEAN /\ child \in BOOLEAN
    /\ source \in Servers \cup Vpn \cup {None}
    /\ health \in [Servers -> Healths]
    /\ rejected \subseteq {"json", "uri"} \X Nat
    /\ child => file
    /\ pc \in Probing \ {"tcp"} => next \in DOMAIN Candidates

Init ==
    /\ todo = Subscriptions
    /\ json = <<>> /\ uris = <<>> /\ vpns = <<>>
    /\ pc = "download"
    /\ sweep = "json" /\ parsed = <<>> /\ next = 1
    /\ file = FALSE /\ child = FALSE
    /\ source = None
    /\ health \in [Servers -> Healths]
    /\ rejected = {}

-----------------------------------------------------------------------------
(* The subscriptions, one after the other *)

\* A body is a JSON array of configurations, or base64, or neither; one that
\* is neither counts like one that cannot be fetched.  Entries of an unknown
\* scheme, and JSON entries that do not parse, are dropped on the way.
Download ==
    /\ pc = "download" /\ todo > 0
    /\ todo' = todo - 1
    /\ \/ UNCHANGED <<json, uris, vpns>>
       \/ \E b \in JsonBodies : json' = json \o b /\ UNCHANGED <<uris, vpns>>
       \/ \E b \in UriBodies :
            /\ uris' = uris \o b.uris /\ vpns' = vpns \o b.vpns
            /\ UNCHANGED json
    /\ UNCHANGED <<pc, sweep, parsed, next, probe, source, health, rejected>>

DownloadsDone ==
    /\ pc = "download" /\ todo = 0
    /\ pc' = "choose"
    /\ UNCHANGED <<gathered, sweep, parsed, next, probe, source, health, rejected>>

-----------------------------------------------------------------------------
(* choose_source, resolve_uri_flow *)

Sweep(w, l) == pc' = l /\ sweep' = w /\ next' = 1 /\ UNCHANGED source
Choose(s) == pc' = "chosen" /\ source' = s /\ UNCHANGED <<sweep, next>>
GiveUp == pc' = "failed" /\ UNCHANGED <<sweep, next, source>>

ResolveUri == IF uris # <<>> THEN Sweep("uri", "parse") ELSE Choose(Head(vpns))

ChooseSource ==
    /\ pc = "choose"
    /\ \/ json # <<>> /\ Sweep("json", "tcp")
       \/ json = <<>> /\ (uris # <<>> \/ vpns # <<>>) /\ ResolveUri
       \/ json = <<>> /\ uris = <<>> /\ vpns = <<>> /\ GiveUp
    /\ UNCHANGED <<gathered, parsed, probe, health, rejected>>

\* The sweep has found nobody: on to the URIs, to the first vpn:// entry, or
\* an error.
Exhausted ==
    /\ pc = "tcp" /\ next > Len(Candidates)
    /\ \/ sweep = "json" /\ (uris # <<>> \/ vpns # <<>>) /\ ResolveUri
       \/ sweep = "json" /\ uris = <<>> /\ vpns = <<>> /\ GiveUp
       \/ sweep = "uri" /\ vpns # <<>> /\ Choose(Head(vpns))
       \/ sweep = "uri" /\ vpns = <<>> /\ GiveUp
    /\ UNCHANGED <<gathered, parsed, probe, health, rejected>>

\* find_alive_server: one URI after another is parsed, or skipped, ...
ParseNext ==
    /\ pc = "parse" /\ next <= Len(uris)
    /\ parsed' = IF uris[next] \in Servers THEN Append(parsed, uris[next]) ELSE parsed
    /\ next' = next + 1
    /\ UNCHANGED <<gathered, pc, sweep, probe, source, health, rejected>>

\* ... and what is left is checked.
ParsingDone ==
    /\ pc = "parse" /\ next > Len(uris)
    /\ Sweep("uri", "tcp")
    /\ UNCHANGED <<gathered, parsed, probe, health, rejected>>

-----------------------------------------------------------------------------
(* find_alive_params: check_tcp, then check_tunnel *)

Candidate == Candidates[next]

\* The candidate is turned down, and whatever the check had made is gone:
\* the guard kills and reaps its xray, the file deletes itself.
FaultyNoGuard ==
    /\ pc' = "tcp" /\ next' = next + 1
    /\ rejected' = rejected \cup {<<sweep, next>>}
    /\ UNCHANGED probe

Reject ==
    /\ pc' = "tcp" /\ next' = next + 1
    /\ rejected' = rejected \cup {<<sweep, next>>}
    /\ file' = FALSE /\ child' = FALSE

Onward(l) == pc' = l /\ UNCHANGED <<next, rejected>>

CheckTcp ==
    /\ pc = "tcp" /\ next <= Len(Candidates)
    /\ \/ health[Candidate] # "down" /\ Onward("config") /\ UNCHANGED probe
       \/ health[Candidate] = "down" /\ Reject
    /\ UNCHANGED <<gathered, sweep, parsed, source, health>>

\* No free port, or no temporary file: an error like any other.
GenerateTempConfig ==
    /\ pc = "config"
    /\ \/ file' = TRUE /\ Onward("spawn") /\ UNCHANGED child
       \/ Reject
    /\ UNCHANGED <<gathered, sweep, parsed, source, health>>

SpawnProbe ==
    /\ pc = "spawn"
    /\ \/ child' = TRUE /\ Onward("ready") /\ UNCHANGED file
       \/ Reject
    /\ UNCHANGED <<gathered, sweep, parsed, source, health>>

\* Twenty polls, 50 ms apart: it listens, it has exited, or time is up.
FaultyPollForever ==
    /\ pc = "ready"
    /\ \/ child /\ Onward("request") /\ UNCHANGED probe
       \/ UNCHANGED <<pc, next, probe, rejected>>
    /\ UNCHANGED <<gathered, sweep, parsed, source, health>>

AwaitReady ==
    /\ pc = "ready"
    /\ \/ Onward("request") /\ UNCHANGED probe
       \/ Reject
    /\ UNCHANGED <<gathered, sweep, parsed, source, health>>

\* find_alive_server answers with the URI the checked parameters came from.
Found == Candidate

FaultyAnyLatency == {"slow"} \cup Acceptable
FastEnough == Acceptable

\* A request through the tunnel, at most ten seconds of it, timed.
Request ==
    /\ pc = "request"
    /\ \/ /\ health[Candidate] \in FastEnough /\ child
          /\ Choose(Found)
          /\ file' = FALSE /\ child' = FALSE
          /\ UNCHANGED rejected
       \/ Reject /\ UNCHANGED <<sweep, source>>
    /\ UNCHANGED <<gathered, parsed, health>>

-----------------------------------------------------------------------------
(* What else happens *)

\* The check's xray exits by itself; the request then fails.
ProbeExits ==
    /\ child /\ pc \in Probing
    /\ child' = FALSE
    /\ UNCHANGED <<gathered, pc, sweep, parsed, next, file, source, health, rejected>>

ServerChanges ==
    /\ Unsteady /\ pc \in Probing
    /\ \E s \in Servers, h \in Healths : health' = [health EXCEPT ![s] = h]
    /\ UNCHANGED <<gathered, pc, sweep, parsed, next, probe, source, rejected>>

\* Nothing of corvex runs after a signal: no guard, no deletion.
Kill ==
    /\ pc \notin Final
    /\ pc' = "killed"
    /\ UNCHANGED <<gathered, sweep, parsed, next, probe, source, health, rejected>>

Work ==
    \/ Download \/ DownloadsDone \/ ChooseSource \/ ParseNext \/ ParsingDone \/ Exhausted
    \/ CheckTcp \/ GenerateTempConfig \/ SpawnProbe \/ AwaitReady \/ Request

Next == Work \/ ProbeExits \/ ServerChanges \/ Kill

Spec == Init /\ [][Next]_vars

\* corvex is scheduled, and each of its waits has a timeout.
FairSpec == Spec /\ WF_vars(Work)

-----------------------------------------------------------------------------
(* Properties *)

JsonRejected == \A i \in DOMAIN json : <<"json", i>> \in rejected
UrisRejected ==
    \A i \in DOMAIN uris : uris[i] \in Servers =>
        \E n \in DOMAIN parsed : parsed[n] = uris[i] /\ <<"uri", n>> \in rejected

\* The order of preference: a URI is taken only after every JSON entry has
\* been turned down, a vpn:// entry (which nothing checks) only after every
\* parsable URI has been too.
Preference ==
    pc = "chosen" =>
        /\ sweep = "uri" \/ source \in Vpn => JsonRejected
        /\ source \in Vpn => UrisRejected

\* start gives up only when nothing is left to try, however the downloads,
\* the checks and the servers failed on the way.
GivesUpLast ==
    pc = "failed" => vpns = <<>> /\ JsonRejected /\ UrisRejected

\* The server that start goes on with is the one whose tunnel has just been
\* seen to work, through the check's own xray, and fast enough.
ChosenJustWorked ==
    [][source' # source /\ source' \in Servers =>
        health[source'] \in Acceptable /\ child]_vars

\* A check leaves no xray and no credentials behind, whichever of its steps
\* failed.
NothingLeft == pc \in {"tcp", "chosen", "failed"} => ~file /\ ~child

\* The preferred source that may work is the one taken, or found wanting; start
\* gives up only when none is left; and a check leaves neither its xray nor
\* its config.json behind, unless corvex was killed (main.rs:300, health.rs:195).
SelectionHolds == TypeOK /\ Preference /\ GivesUpLast /\ NothingLeft

\* start finds a source or says that there is none.
Resolves == <>(pc \in Final)

\* "auto-deletes on drop, preventing credential leakage if the process is
\* killed" (generate_temp_config).
CredentialsNeverPersist == pc \in Final => ~file
=============================================================================
