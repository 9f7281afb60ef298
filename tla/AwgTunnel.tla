------------------------------- MODULE AwgTunnel -------------------------------
(***************************************************************************)
(* The AmneziaWG engine (src/src/engine/awg.rs): from the container of a   *)
(* vpn:// link to the .conf file, and from the file, by `sudo awg-quick`,  *)
(* to the tunnel; and what a later start or stop makes of both.  What xray *)
(* and the proxy do meanwhile is StartFlow's, how the directories of the   *)
(* file are judged TrustedPath's, how it is written RestrictedFile's.      *)
(***************************************************************************)
EXTENDS Naturals, Sequences, SequencesExt, FiniteSets

CONSTANTS
  Links,         \* what a vpn:// link may decode to: its containers
  Ids,           \* what tells one value from another
  Users,         \* those who run corvex: subset of {"root", "user"}
  MaxCommands,   \* bound: how many commands are run
  Nil

VARIABLES
  user, commands,
  pc,        \* "idle", "preStop", "parse", "write", "up", "stop"
  link,      \* of the start in progress; Nil for an engine without a tunnel
  awg,       \* the fields parsed from it
  conf,      \* the lines of the .conf file, Nil if there is none
  tunnel,    \* the lines the interface was brought up with, Nil if it is down
  from,      \* history: the link whose lines they are
  outcome    \* of the last command: "ok", "failed"; "unsaid" if it only warned

vars == <<user, commands, pc, link, awg, conf, tunnel, from, outcome>>

-----------------------------------------------------------------------------
(***************************************************************************)
(* A container has a name, of which only matters whether it holds "awg",   *)
(* and the fields of a link, or none.                                      *)
(***************************************************************************)
Fields == {"client_priv_key", "client_ip", "server_pub_key", "psk_key", "Jc", "Jmin", "Jmax",
           "S1", "S2", "H1", "H2", "H3", "H4"}
Values ==
  [kind : {"string", "natural", "negative", "other", "missing"}, id : Ids, newline : BOOLEAN]
Containers ==
  [name : {"awg", "openvpn"}, awg : [Fields \cup {"hostName", "port"} -> Values] \cup {Nil}]

Texts ==
  [id : Ids \cup (Ids \X Ids) \cup {"8.8.8.8", "0.0.0.0/0, ::/0", "25"}, newline : BOOLEAN]
Configs == [Fields \cup {"endpoint"} -> Texts]
Lines == [section : {"Interface", "Peer"}, key : {"PrivateKey", "Address", "Jc", "Jmin", "Jmax", "S1",
            "S2", "H1", "H2", "H3", "H4", "DNS", "PublicKey", "PresharedKey", "Endpoint", "AllowedIPs",
            "PersistentKeepalive", "other"}, value : Texts]

\* What the constants must be.
ConstantsTyped ==
  /\ Links \subseteq Seq(Containers) /\ Users \subseteq {"root", "user"} /\ MaxCommands \in Nat
  /\ Nil \notin Links \cup Texts \cup Configs \cup Seq(Lines)

Text(id, newline) == [id |-> id, newline |-> newline]

\* str_field: a string as it is, a number in digits.
StrField(v) == IF v.kind \in {"string", "natural", "negative"} THEN Text(v.id, v.newline) ELSE Nil

\* The endpoint is written from a string and a number.
Endpoint(values) ==
  IF values["hostName"].kind # "string" \/ values["port"].kind # "natural" THEN Nil
  ELSE Text(<<values["hostName"].id, values["port"].id>>, values["hostName"].newline)

\* parse_vpn_uri: of the first container of the engine's, Nil if it is an error.
OwnContainer(containers) == SelectInSeq(containers, LAMBDA c : c.name = "awg")
ParseVpnUri(containers) ==
  LET own == OwnContainer(containers)
      values == containers[own].awg
  IN  IF own = 0 THEN Nil
      ELSE IF \/ values = Nil \/ Endpoint(values) = Nil
              \/ \E f \in Fields : StrField(values[f]) = Nil THEN Nil
      ELSE [f \in Fields \cup {"endpoint"} |->
              IF f = "endpoint" THEN Endpoint(values) ELSE StrField(values[f])]

\* validate_no_newlines
ValidateNoNewlines(config) == \A f \in DOMAIN config : ~config[f].newline

Line(section, key, value) == [section |-> section, key |-> key, value |-> value]
Fixed(value) == Text(value, FALSE)

Keys == <<<<"PrivateKey", "client_priv_key">>, <<"Address", "client_ip">>, <<"Jc", "Jc">>,
          <<"Jmin", "Jmin">>, <<"Jmax", "Jmax">>, <<"S1", "S1">>, <<"S2", "S2">>, <<"H1", "H1">>,
          <<"H2", "H2">>, <<"H3", "H3">>, <<"H4", "H4">>>>
PeerKeys == <<<<"PublicKey", "server_pub_key">>, <<"PresharedKey", "psk_key">>,
              <<"Endpoint", "endpoint">>>>

\* generate_conf's text; the order of the lines of a section says nothing.
Format(config) ==
  [i \in DOMAIN Keys |-> Line("Interface", Keys[i][1], config[Keys[i][2]])]
    \o <<Line("Interface", "DNS", Fixed("8.8.8.8"))>>
    \o [i \in DOMAIN PeerKeys |-> Line("Peer", PeerKeys[i][1], config[PeerKeys[i][2]])]
    \o <<Line("Peer", "AllowedIPs", Fixed("0.0.0.0/0, ::/0")),
         Line("Peer", "PersistentKeepalive", Fixed("25"))>>

\* generate_conf, Nil if it is an error.
GenerateConf(config) == IF ValidateNoNewlines(config) THEN Format(config) ELSE Nil

\* awg-quick takes the file line by line: what follows a newline in a value is
\* a line of its own.
ReadConf(lines) ==
  FlattenSeq([i \in DOMAIN lines |->
    IF lines[i].value.newline
      THEN <<Line(lines[i].section, lines[i].key, Fixed(lines[i].value.id)),
             Line(lines[i].section, "other", Fixed(lines[i].value.id))>>
      ELSE <<lines[i]>>])

-----------------------------------------------------------------------------
Init ==
  /\ user \in Users /\ commands = 0 /\ pc = "idle" /\ link = Nil /\ awg = Nil
  /\ conf = Nil /\ tunnel = Nil /\ from = Nil /\ outcome = "ok"

Idle(o) == pc' = "idle" /\ link' = Nil /\ awg' = Nil /\ outcome' = o
Goto(l) == pc' = l /\ UNCHANGED <<link, awg, outcome>>

\* cmd_start with a link, or a source without a tunnel; cmd_stop.
Start ==
  /\ pc = "idle" /\ commands < MaxCommands /\ commands' = commands + 1
  /\ link' \in Links \cup {Nil} /\ pc' = "preStop" /\ awg' = Nil /\ outcome' = "ok"
  /\ UNCHANGED <<user, conf, tunnel, from>>
Stop ==
  /\ pc = "idle" /\ commands < MaxCommands /\ commands' = commands + 1
  /\ pc' = "stop" /\ outcome' = "ok"
  /\ UNCHANGED <<user, link, awg, conf, tunnel, from>>

\* is_tunnel_running: `awg show`, run without sudo, tells root; others it may
\* refuse, which is taken for an interface that is down.
AwgShow(answer) == IF user = "root" THEN answer = (tunnel # Nil) ELSE answer => tunnel # Nil

\* The bug of a tunnel that is taken down only if this start has a new one.
FaultyStopAwgIfRunning(l) ==
  /\ IF link = Nil \/ conf = Nil THEN outcome' = "ok" /\ UNCHANGED <<tunnel, from>>
     ELSE \E running \in BOOLEAN :
       /\ AwgShow(running)
       /\ \/ ~running /\ outcome' = "ok" /\ UNCHANGED <<tunnel, from>>
          \/ running /\ tunnel' = Nil /\ from' = Nil /\ outcome' = "ok"
          \/ running /\ outcome' = "unsaid" /\ UNCHANGED <<tunnel, from>>
  /\ pc' = l /\ UNCHANGED <<user, commands, link, awg, conf>>

\* stop_awg_if_running: without a file nothing is tried; a path that is not
\* trusted and an awg-quick that fails are warnings only.
StopAwgIfRunning(l) ==
  /\ IF conf = Nil THEN outcome' = "ok" /\ UNCHANGED <<tunnel, from>>
     ELSE \E running \in BOOLEAN :
       /\ AwgShow(running)
       /\ \/ ~running /\ outcome' = "ok" /\ UNCHANGED <<tunnel, from>>
          \/ running /\ tunnel' = Nil /\ from' = Nil /\ outcome' = "ok"
          \/ running /\ outcome' = "unsaid" /\ UNCHANGED <<tunnel, from>>
  /\ pc' = l /\ UNCHANGED <<user, commands, link, awg, conf>>

\* A start first, whatever its engine.
PreStop == pc = "preStop" /\ StopAwgIfRunning(IF link = Nil THEN "idle" ELSE "parse")
\* cmd_stop last.
StopTunnel == pc = "stop" /\ StopAwgIfRunning("idle")

Parse ==
  /\ pc = "parse"
  /\ IF ParseVpnUri(link) = Nil THEN Idle("failed")
     ELSE awg' = ParseVpnUri(link) /\ pc' = "write" /\ UNCHANGED <<link, outcome>>
  /\ UNCHANGED <<user, commands, conf, tunnel, from>>

\* write_conf: a text that is refused, or a path, leaves the file as it was; a
\* write that fails leaves it cut.
WriteConf ==
  /\ pc = "write"
  /\ IF GenerateConf(awg) = Nil THEN Idle("failed") /\ UNCHANGED conf
     ELSE \/ conf' = GenerateConf(awg) /\ Goto("up")
          \/ conf' \in {conf, <<>>} /\ Idle("failed")
  /\ UNCHANGED <<user, commands, tunnel, from>>

\* ensure_awg_installed, start_tunnel: awg-quick reads the file, and refuses
\* if the interface is up.
StartTunnel ==
  /\ pc = "up"
  /\ \/ tunnel = Nil /\ tunnel' = ReadConf(conf) /\ from' = link /\ Idle(outcome)
     \/ Idle("failed") /\ UNCHANGED <<tunnel, from>>
  /\ UNCHANGED <<user, commands, conf>>

\* A tunnel is gone after a reboot.
Reboot ==
  /\ pc = "idle" /\ tunnel # Nil /\ tunnel' = Nil /\ from' = Nil
  /\ UNCHANGED <<user, commands, pc, link, awg, conf, outcome>>

Done == pc = "idle" /\ commands = MaxCommands /\ UNCHANGED vars
Next ==
  \/ Start \/ Stop \/ PreStop \/ StopTunnel \/ Parse \/ WriteConf \/ StartTunnel \/ Reboot \/ Done
Spec == Init /\ [][Next]_vars

-----------------------------------------------------------------------------
\* What each step holds: a start that writes has fields, a file that exists has
\* whole lines or none, a tunnel has a link.
TypeOK ==
  /\ user \in Users /\ commands \in 0..MaxCommands
  /\ pc \in {"idle", "preStop", "parse", "write", "up", "stop"}
  /\ (awg # Nil) <=> pc \in {"write", "up"}
  /\ pc = "up" => conf = Format(awg)
  /\ conf # Nil => Len(conf) \in {0, 17}
  /\ (tunnel = Nil) <=> (from = Nil)
  /\ outcome \in {"ok", "failed", "unsaid"}

\* What the interface has for a key is what the link that is running has for
\* it, each key once: no field stands in another's place, a number is as good
\* as a string, and a value cannot bring a line of its own (awg.rs:101-131).
TunnelIsLinks ==
  tunnel # Nil =>
    LET of(key) == {tunnel[i].value : i \in {j \in DOMAIN tunnel : tunnel[j].key = key}}
        v == from[OwnContainer(from)].awg
    IN  /\ \A i \in 1..Len(Keys) : of(Keys[i][1]) = {Fixed(v[Keys[i][2]].id)}
        /\ of("PublicKey") = {Fixed(v["server_pub_key"].id)}
        /\ of("PresharedKey") = {Fixed(v["psk_key"].id)}
        /\ of("Endpoint") = {Fixed(<<v["hostName"].id, v["port"].id>>)}
        /\ Len(tunnel) = 17 /\ of("other") = {}

\* A link that is refused costs nothing: the .conf is still the one the tunnel
\* was brought up with, so that it can be brought down by it.
ConfOutlivesRefusal ==
  [][pc' = "idle" /\ pc \in {"parse", "write"} /\ conf # Nil /\ conf' # conf
       => conf' = <<>> /\ ParseVpnUri(link) # Nil /\ ValidateNoNewlines(awg)]_vars

\* For root, a command that ends well and warns of nothing leaves the tunnel of
\* its own link, and none if it has none (main.rs:657).
NoStaleTunnel ==
  [][user = "root" /\ pc # "idle" /\ pc' = "idle" /\ outcome' = "ok" =>
       from' = IF pc = "stop" THEN Nil ELSE link]_vars
=============================================================================
