------------------------------ MODULE ConfigJson ------------------------------
(***************************************************************************)
(* xray's config.json from start to start (src/protocol.rs create_config,  *)
(* apply_to_config; src/main.rs write_xray_config, update_routing_rules,   *)
(* update_config_port; src/dns.rs sync_to_config).  A start writes the     *)
(* file in up to four steps, each of which reads it whole, changes a part  *)
(* and writes it whole, over what an earlier start, a start that was       *)
(* killed or whose write failed, or the user left there.                   *)
(***************************************************************************)
EXTENDS TrafficRules

CONSTANTS
  Ctraffic, Ptraffic,   \* the user's lists
  Choices,      \* [mode, protocol, name]: the servers a start may choose
  Mappings,     \* sets of <<domain, nameserver>>: the corporate DNS found
  Ports,        \* for the socks inbound
  Logs,         \* the log paths of corvex.json
  UserEdits,    \* what the user may do to the file
  MaxEdits,     \* bound: edits by the user
  MaxFaults,    \* bound: failed writes and killed starts
  User,         \* stands for a server the user configured himself
  None, Broken  \* there is no file; what is there is no JSON, or lists no outbounds

VARIABLES
  file,       \* config.json
  pc,         \* where the start is, or how the last one ended
  start,      \* what this start is to write: server, mappings, port, log
  before,     \* the file this start found
  faulted,    \* a write of this start failed
  edits, faults

vars == <<file, pc, start, before, faulted, edits, faults>>

Steps == {"idle", "write", "create", "rules", "dns", "port", "spawn", "up", "failed"}

(***************************************************************************)
(* The file: where xray logs (Nil: no log section), dns.servers, the ports *)
(* of the inbounds, the outbounds in order, the routing rules, and of them *)
(* the one for corporate DNS, which is last, by its domains (Nil: there is *)
(* none); and the parts that are there but are no objects.  What such a    *)
(* part holds nobody reads, so the field for it is empty.  "mixed" is no   *)
(* part of the file: it remembers that the user added an outbound for a    *)
(* proxy.                                                                  *)
(***************************************************************************)
PublicDns == [address |-> "8.8.8.8", domain |-> Nil]
Corporate(mapping) == [address |-> mapping[2], domain |-> mapping[1]]

Starts == [choice : Choices, mappings : Mappings, port : Ports, log : Logs]
Parts == {"log", "routing", "dns", "inbound"}   \* "inbound": the first one
\* Any text; corvex's own words are named.
Texts == STRING \cup {"8.8.8.8", "direct", "block", "proxy", "freedom", "blackhole"}
DnsServers == [address : Texts, domain : Words \cup {Nil}]
AnyRules == [outbound : Texts, domains : SUBSET Patterns, ips : SUBSET Words]
Outbounds == [protocol : Texts, tag : Texts, server : Choices \cup {Nil, User}]

Files ==
  [log : Logs \cup {Nil}, servers : SUBSET DnsServers, inbounds : Seq(Nat),
   outbounds : Seq(Outbounds), rules : Seq(AnyRules),
   corporate : {Nil} \cup SUBSET Words, scalars : SUBSET Parts, mixed : BOOLEAN]

\* What stands for no value is none, and no server that corvex reads from a link
\* or an entry is one of xray's own outbounds (protocol.rs: parse_uri,
\* params_from_outbound).
FileAssumption ==
  /\ None \notin Files /\ Broken \notin Files
  /\ Nil \notin Choices /\ Nil # User
  /\ Choices \subseteq [mode : {"xray", "awg"}, protocol : Texts, name : Names]
  /\ Names \subseteq Texts /\ Ports \subseteq Nat
  /\ \A choice \in Choices :
       choice.mode = "xray" => choice.protocol \notin {"freedom", "blackhole", "dns"}
  /\ Ctraffic \subseteq Patterns /\ Ptraffic \subseteq Patterns
  /\ \A mappings \in Mappings : mappings \subseteq Words \X Texts
  /\ UserEdits \subseteq
       [kind : {"delete", "remove"}] \cup [kind : {"log"}, log : Logs \cup {Nil}]
       \cup [kind : {"scalar"}, part : Parts]
       \cup [kind : {"inbounds"}, ports : Seq(Nat)]
       \cup [kind : {"server"}, server : DnsServers] \cup [kind : {"rule"}, rule : AnyRules]
       \cup [kind : {"append"}, outbound : [protocol : Texts, tag : Texts, server : {User}]]
  /\ MaxEdits \in Nat /\ MaxFaults \in Nat

Outbound(protocol, tag, server) == [protocol |-> protocol, tag |-> tag, server |-> server]
OwnOutbounds == <<Outbound("freedom", "direct", Nil), Outbound("blackhole", "block", Nil)>>

TagOf(choice) == IF choice.mode = "awg" THEN "proxy" ELSE ProxyTag(choice.name)

\* build_routing_rules as the starts call it, with nothing of a subscription.
RulesFor(choice) == BuildRoutingRules(Ctraffic, Ptraffic, TagOf(choice), {}, {})

ChosenOutbound(choice) == Outbound(choice.protocol, TagOf(choice), choice)

\* create_config and, with freedom for a server, create_config_awg_mode.
Created ==
  [log |-> start.log, servers |-> {PublicDns}, inbounds |-> <<start.port>>,
   outbounds |-> <<ChosenOutbound(start.choice)>> \o OwnOutbounds,
   rules |-> RulesFor(start.choice), corporate |-> Nil,
   scalars |-> {}, mixed |-> FALSE]

\* The outbounds apply_to_config chooses from: those of the server's protocol,
\* or else those that are a proxy's.
Replaceable(outbounds, protocol) ==
  LET same == {i \in DOMAIN outbounds : outbounds[i].protocol = protocol}
      proxies == {i \in DOMAIN outbounds :
                    outbounds[i].protocol \notin {"freedom", "blackhole", "dns"}}
  IN  IF same # {} THEN same ELSE proxies

Replaced(outbounds, protocol) ==
  CHOOSE i \in Replaceable(outbounds, protocol) :
    \A j \in Replaceable(outbounds, protocol) : i <= j

Applicable == file # Broken /\ Replaceable(file.outbounds, start.choice.protocol) # {}

\* The bug of keeping the tag of the outbound that is replaced.
FaultyApplied(choice) ==
  LET i == Replaced(file.outbounds, choice.protocol)
  IN  [file EXCEPT !.outbounds[i] = [ChosenOutbound(choice) EXCEPT
                                       !.tag = file.outbounds[i].tag],
                   !.log = start.log]

\* What apply_to_config writes.
Applied(choice) ==
  [file EXCEPT !.outbounds[Replaced(file.outbounds, choice.protocol)] = ChosenOutbound(choice),
               !.log = start.log]

\* What sync_to_config writes: a server for every mapping, those there were
\* but objects with the address of a mapping, and the corporate rule.
Synced(mappings) ==
  [file EXCEPT
     !.servers = {Corporate(m) : m \in mappings} \cup
                 {s \in @ : s.domain = Nil \/ \A m \in mappings : m[2] # s.address},
     !.corporate = {m[1] : m \in mappings}]

-----------------------------------------------------------------------------
NoStart == [choice |-> Nil, mappings |-> {}, port |-> 0, log |-> Nil]

Init ==
  /\ file = None /\ before = None /\ pc = "idle"
  /\ start = NoStart
  /\ faulted = FALSE /\ edits = 0 /\ faults = 0

\* cmd_start has its settings and its server.
Begin ==
  /\ pc \in {"idle", "up", "failed"}
  /\ \E choice \in Choices, mappings \in Mappings, port \in Ports, log \in Logs :
       start' = [choice |-> choice, mappings |-> mappings, port |-> port, log |-> log]
  /\ before' = file /\ faulted' = FALSE /\ pc' = "write"
  /\ UNCHANGED <<file, edits, faults>>

\* write_restricted: the file is cut before it is written, so a write that
\* fails leaves no JSON; what the caller does then is "otherwise".
Write(new, then, otherwise) ==
  \/ /\ file' = new /\ pc' = then
     /\ UNCHANGED <<faulted, faults>>
  \/ /\ faults < MaxFaults
     /\ file' = Broken /\ pc' = otherwise
     /\ faulted' = TRUE /\ faults' = faults + 1

\* write_xray_config: there is nothing to update, or it cannot be updated.
NotUpdated ==
  /\ pc = "write" /\ start.choice.mode = "xray"
  /\ IF file = None THEN TRUE ELSE ~Applicable
  /\ pc' = "create"
  /\ UNCHANGED <<file, start, before, faulted, edits, faults>>

\* Assigning into a part of the file that is there but is no object (nor null)
\* panics, which no caller handles: nothing is regenerated.
WriteInto(part, new, then, otherwise) ==
  IF part \in file.scalars
    THEN pc' = "failed" /\ UNCHANGED <<file, faulted, faults>>
    ELSE Write(new, then, otherwise)

\* apply_to_config
Apply ==
  /\ pc = "write" /\ start.choice.mode = "xray" /\ file # None /\ Applicable
  /\ WriteInto("log", Applied(start.choice), "rules", "create")
  /\ UNCHANGED <<start, before, edits>>

\* update_routing_rules: all rules are replaced, the corporate one is gone.
UpdateRoutingRules ==
  /\ pc = "rules"
  /\ WriteInto("routing", [file EXCEPT !.rules = RulesFor(start.choice), !.corporate = Nil],
               "dns", "create")
  /\ UNCHANGED <<start, before, edits>>

\* create_config where nothing could be updated; create_config_awg_mode.
Create ==
  /\ \/ pc = "create"
     \/ pc = "write" /\ start.choice.mode = "awg"
  /\ Write(Created, "dns", "failed")
  /\ UNCHANGED <<start, before, edits>>

\* sync_to_config, if there are mappings.
SyncToConfig ==
  /\ pc = "dns"
  /\ IF start.mappings = {}
       THEN pc' = "port" /\ UNCHANGED <<file, faulted, faults>>
       ELSE WriteInto("dns", Synced(start.mappings), "port", "failed")
  /\ UNCHANGED <<start, before, edits>>

\* update_config_port: the first inbound's.
UpdateConfigPort ==
  /\ pc = "port"
  /\ IF file.inbounds = <<>>
       THEN pc' = "failed" /\ UNCHANGED <<file, faulted, faults>>
       ELSE WriteInto("inbound", [file EXCEPT !.inbounds[1] = start.port], "spawn", "failed")
  /\ UNCHANGED <<start, before, edits>>

\* xray loads the file: it refuses two outbounds of one tag, and a part that is
\* no object.
TagsDiffer ==
  \A i, j \in DOMAIN file.outbounds :
    file.outbounds[i].tag = file.outbounds[j].tag => i = j
XrayAccepts == TagsDiffer /\ file.scalars = {}

Spawn ==
  /\ pc = "spawn"
  /\ pc' = IF XrayAccepts THEN "up" ELSE "failed"
  /\ UNCHANGED <<file, start, before, faulted, edits, faults>>

\* corvex is killed, between two writes or in one.
Killed ==
  /\ pc \notin {"idle", "up", "failed"} /\ faults < MaxFaults
  /\ faults' = faults + 1
  /\ pc' = "idle"
  /\ \/ file' = file
     \/ pc # "spawn" /\ file' = Broken
  /\ start' = NoStart /\ before' = None
  /\ UNCHANGED <<faulted, edits>>

\* The part becomes something other than an object: what it held is gone.
Scalar(part) ==
  CASE part = "log" -> [file EXCEPT !.scalars = @ \cup {part}, !.log = Nil]
    [] part = "dns" -> [file EXCEPT !.scalars = @ \cup {part}, !.servers = {}]
    [] part = "routing" -> [file EXCEPT !.scalars = @ \cup {part}, !.rules = <<>>, !.corporate = Nil]
    [] part = "inbound" -> [file EXCEPT !.scalars = @ \cup {part}]

\* Between two starts the user deletes the file, edits it, or removes ("remove")
\* every outbound from it but direct and block.
Edit ==
  /\ pc \in {"idle", "up", "failed"} /\ edits < MaxEdits
  /\ file # None /\ file # Broken
  /\ \E edit \in UserEdits :
       /\ edit.kind = "scalar" => edit.part # "inbound" \/ file.inbounds # <<>>
       /\ file' = CASE edit.kind = "delete" -> None
                    [] edit.kind = "scalar" -> Scalar(edit.part)
                    [] edit.kind = "log" -> [file EXCEPT !.log = edit.log, !.scalars = @ \ {"log"}]
                    [] edit.kind = "inbounds" -> [file EXCEPT !.inbounds = edit.ports,
                                                              !.scalars = @ \ {"inbound"}]
                    [] edit.kind = "server" -> [file EXCEPT !.servers = @ \cup {edit.server},
                                                            !.scalars = @ \ {"dns"}]
                    [] edit.kind = "rule" -> [file EXCEPT !.rules = <<edit.rule>> \o @,
                                                          !.scalars = @ \ {"routing"}]
                    [] edit.kind = "append" -> [file EXCEPT !.outbounds = Append(@, edit.outbound),
                                                       !.mixed = TRUE]
                    [] edit.kind = "remove" -> [file EXCEPT !.outbounds = OwnOutbounds]
  /\ pc' = "idle" /\ edits' = edits + 1
  /\ start' = NoStart /\ before' = None
  /\ UNCHANGED <<faulted, faults>>

Work == NotUpdated \/ Apply \/ UpdateRoutingRules \/ Create \/ SyncToConfig
          \/ UpdateConfigPort \/ Spawn
Next == Begin \/ Work \/ Killed \/ Edit
Spec == Init /\ [][Next]_vars

-----------------------------------------------------------------------------
\* The types; between the writes of one start the file is there and is JSON.
TypeOK ==
  /\ file \in {None, Broken} \cup Files /\ before \in {None, Broken} \cup Files
  /\ start \in IF pc = "idle" THEN {NoStart} ELSE Starts
  /\ pc \in Steps /\ faulted \in BOOLEAN
  /\ edits \in 0..MaxEdits /\ faults \in 0..MaxFaults
  /\ pc \in {"rules", "dns", "port", "spawn", "up"} => file \notin {None, Broken}

\* Every rule of a running xray sends to an outbound that is there, and the
\* rules for proxied traffic to the chosen server, whatever file the start
\* found (protocol.rs: the tag must match what the rules are built with).
RulesReach ==
  pc = "up" =>
    /\ \A r \in {file.rules[i] : i \in DOMAIN file.rules} :
         \E i \in DOMAIN file.outbounds : file.outbounds[i].tag = r.outbound
    /\ \A i \in DOMAIN file.outbounds :
         file.outbounds[i].tag = TagOf(start.choice) =>
           file.outbounds[i].server = start.choice

\* What no rule is for leaves through the chosen server too, unless the user
\* has added a proxy of his own: no server of an earlier start is left.
NoStaleServer ==
  pc = "up" => file.outbounds[1].server = start.choice \/ file.mixed

\* A running xray listens where the proxy will point, logs where the start
\* checked that it can, and has the corporate rule of the names found now, if
\* any were (main.rs: write config, sync_to_config, update_config_port).
AllWritten ==
  pc = "up" =>
    /\ file.inbounds[1] = start.port
    /\ file.log = start.log
    /\ file.corporate = IF start.mappings = {} THEN Nil ELSE {m[1] : m \in start.mappings}
    /\ \A m \in start.mappings : Corporate(m) \in file.servers

\* A start that updates a file keeps what the user put in it: his outbounds but
\* the one it replaces, his inbounds, his DNS servers but those at an address
\* found for corporate DNS.
UserKept ==
  [][pc' = "up" /\ ~faulted /\ before \notin {None, Broken} =>
       \/ start.choice.mode = "awg"
       \/ Replaceable(before.outbounds, start.choice.protocol) = {}
       \/ /\ Len(file.outbounds) = Len(before.outbounds)
          /\ \A i \in DOMAIN before.outbounds :
               \/ file.outbounds[i] = before.outbounds[i]
               \/ i = Replaced(before.outbounds, start.choice.protocol)
          /\ Len(file.inbounds) = Len(before.inbounds)
          /\ \A s \in before.servers :
               s \in file.servers \/ \E m \in start.mappings : m[2] = s.address]_vars

\* A start whose writes all succeed fails only over two outbounds of one tag, or
\* if it updates a file that has no inbound or a part that is no object: never
\* over a missing file, one that is no JSON, or one without a proxy outbound, and
\* in AWG mode over none.  (write_xray_config, main.rs:788, would create anew
\* whatever cannot be updated; a panic in an update is no error to it.)
FailsForAReason ==
  pc = "failed" =>
    \/ faulted
    \/ file \notin {None, Broken} /\ ~TagsDiffer
    \/ /\ before \notin {None, Broken} /\ start.choice.mode = "xray"
       /\ Replaceable(before.outbounds, start.choice.protocol) # {}
       /\ before.scalars # {} \/ before.inbounds = <<>>
=============================================================================
