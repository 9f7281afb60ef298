------------------------------- MODULE Outbound -------------------------------
(***************************************************************************)
(* A server's parameters and xray's JSON for it (src/protocol.rs):         *)
(* build_outbound_settings and build_stream_settings write it,             *)
(* params_from_outbound reads it from the entries of a JSON subscription.  *)
(* A server offered as JSON is read, and written again into config.json:   *)
(* what xray then does with it must be what the panel meant.               *)
(*                                                                         *)
(* A JSON object is a record in which an absent key is Absent; the objects *)
(* nested in settings and streamSettings are laid flat into those two.     *)
(***************************************************************************)
EXTENDS Naturals, Sequences

CONSTANTS
  Absent, Refused,
  Offers,       \* the outbounds considered for a subscription
  Shares,       \* the parameters considered for a share link
  AlterIds      \* how many values an alterId of corvex has: 2^32

VARIABLES
  offered,      \* the outbound a panel offers; Absent for a share link
  params,       \* the parameters corvex works with; Absent, Refused
  written       \* the outbound of config.json; Absent until written

vars == <<offered, params, written>>

Empty == ""
Protocols == {"vless", "vmess", "trojan", "shadowsocks"}
Networks == {"tcp", "grpc", "ws", "h2"}

\* What a key of that type gives: the value, or what absence stands for.
Get(value, default) == IF value = Absent THEN default ELSE value
\* A key that is written only if there is something to write.
Put(string) == IF string = Empty THEN Absent ELSE string

(***************************************************************************)
(* Writing.                                                                *)
(***************************************************************************)
\* build_outbound_settings: the keys of each protocol's user or server.
BuildOutboundSettings(p) ==
  LET none == [id |-> Absent, encryption |-> Absent, flow |-> Absent,
               alterId |-> Absent, security |-> Absent,
               method |-> Absent, password |-> Absent]
      keys ==
        CASE p.protocol = "vless" ->
               [none EXCEPT !.id = p.uuid, !.encryption = p.encryption, !.flow = Put(p.flow)]
          [] p.protocol = "vmess" ->
               [none EXCEPT !.id = p.uuid, !.alterId = p.alter_id, !.security = p.vmess_security]
          [] p.protocol = "trojan" -> [none EXCEPT !.password = p.password]
          [] p.protocol = "shadowsocks" ->
               [none EXCEPT !.method = p.method, !.password = p.password]
  IN  [address |-> p.host, port |-> p.port, keys |-> keys]

NoTransport == [path |-> Absent, host |-> Absent, serviceName |-> Absent,
                multiMode |-> Absent, headerType |-> Absent]

\* build_stream_settings, the part of the network.
Transport(p) ==
  CASE p.network = "grpc" ->
         [NoTransport EXCEPT !.serviceName = Put(p.service_name),
                             !.multiMode = IF p.mode = Empty THEN Absent ELSE p.mode = "multi"]
    [] p.network \in {"ws", "h2"} ->
         [NoTransport EXCEPT !.path = Put(p.path), !.host = Put(p.host_header)]
    [] p.network = "tcp" /\ p.header_type = "http" ->
         [NoTransport EXCEPT !.headerType = "http",
                             !.path = IF p.path = Empty THEN "/" ELSE p.path,
                             !.host = IF p.host_header = Empty THEN p.host ELSE p.host_header]
    [] OTHER -> NoTransport

\* The bug of writing the TLS settings only where there is a name.
FaultyBuildStreamSettings(p) ==
  [network |-> p.network, security |-> p.security, serverName |-> Put(p.sni),
   fingerprint |-> IF p.sni = Empty THEN Absent ELSE Put(p.fingerprint),
   alpn |-> IF p.sni = Empty \/ p.alpn = <<>> THEN Absent ELSE p.alpn,
   transport |-> Transport(p)]

\* build_stream_settings
BuildStreamSettings(p) ==
  [network |-> p.network, security |-> p.security,
   serverName |-> Put(p.sni), fingerprint |-> Put(p.fingerprint),
   alpn |-> IF p.alpn = <<>> THEN Absent ELSE p.alpn,
   transport |-> Transport(p)]

\* The outbound create_config and apply_to_config make of both.
Written(p) ==
  [protocol |-> p.protocol, settings |-> BuildOutboundSettings(p),
   stream |-> BuildStreamSettings(p)]

(***************************************************************************)
(* Reading.  A port is a number or a numeric string: [text, value].        *)
(***************************************************************************)
DefaultParams ==
  [protocol |-> Empty, host |-> Empty, port |-> 0, uuid |-> Empty, encryption |-> "none",
   flow |-> Empty, alter_id |-> 0, vmess_security |-> "auto", password |-> Empty,
   method |-> Empty, network |-> "tcp", security |-> Empty, sni |-> Empty, fingerprint |-> Empty,
   alpn |-> <<>>, path |-> Empty, host_header |-> Empty, service_name |-> Empty, mode |-> Empty,
   header_type |-> Empty]

\* extract_port: u16::MAX bounds a port.
MaxPort == 65535
ExtractPort(port) ==
  IF port = Absent THEN Refused ELSE IF port <= MaxPort THEN port ELSE Refused

\* alterId: a number is cut to its low bits, "as u32".
ExtractAlterId(number) == IF number = Absent THEN 0 ELSE number % (AlterIds)

\* What a protocol cannot be read without.
Needed(protocol) ==
  CASE protocol \in {"vless", "vmess"} -> {"id"}
    [] protocol = "trojan" -> {"password"}
    [] protocol = "shadowsocks" -> {"method", "password"}

\* params_from_outbound: the outbounds that are skipped.
Unreadable(o) ==
  \/ o.protocol \notin Protocols
  \/ o.settings.address = Absent \/ ExtractPort(o.settings.port) = Refused
  \/ \E key \in Needed(o.protocol) : o.settings.keys[key] = Absent
  \/ Get(o.stream.network, "tcp") \notin Networks
  \/ Get(o.stream.security, Empty) = "reality"

\* params_from_outbound, the part of the protocol.
ReadSettings(o) ==
  LET k == o.settings.keys
      p == [DefaultParams EXCEPT !.protocol = o.protocol,
              !.host = o.settings.address, !.port = ExtractPort(o.settings.port)]
  IN  CASE o.protocol = "vless" ->
             [p EXCEPT !.uuid = k.id, !.encryption = Get(k.encryption, "none"),
                       !.flow = Get(k.flow, Empty)]
        [] o.protocol = "vmess" ->
             [p EXCEPT !.uuid = k.id, !.alter_id = ExtractAlterId(k.alterId),
                       !.vmess_security = Get(k.security, "auto")]
        [] o.protocol = "trojan" -> [p EXCEPT !.password = k.password]
        [] o.protocol = "shadowsocks" -> [p EXCEPT !.method = k.method, !.password = k.password]

\* params_from_outbound, the part of streamSettings.
ReadStream(p, s) ==
  LET t == s.transport
      q == [p EXCEPT !.network = Get(s.network, "tcp"), !.security = Get(s.security, Empty),
                     !.sni = Get(s.serverName, Empty), !.fingerprint = Get(s.fingerprint, Empty),
                     !.alpn = Get(s.alpn, <<>>)]
  IN  CASE q.network = "grpc" ->
             [q EXCEPT !.service_name = Get(t.serviceName, Empty),
                       !.mode = IF t.multiMode = TRUE THEN "multi" ELSE Empty]
        [] q.network \in {"ws", "h2"} ->
             [q EXCEPT !.path = Get(t.path, Empty), !.host_header = Get(t.host, Empty)]
        [] q.network = "tcp" /\ t.headerType = "http" ->
             [q EXCEPT !.header_type = "http", !.path = Get(t.path, Empty),
                       !.host_header = Get(t.host, Empty)]
        [] OTHER -> q

\* params_from_outbound
ParamsFromOutbound(o) ==
  IF Unreadable(o) THEN Refused ELSE ReadStream(ReadSettings(o), o.stream)

-----------------------------------------------------------------------------
\* ProxyParams: what its integers hold, and no field without a value.
IsParams(p) ==
  /\ DOMAIN p = DOMAIN DefaultParams
  /\ \A field \in DOMAIN p : p[field] # Absent
  /\ p.protocol \in Protocols
  /\ p.port \in 0..MaxPort /\ p.alter_id \in 0..AlterIds - 1

ConstantsTyped ==
  /\ AlterIds \in Nat \ {0}
  /\ \A o \in Offers :
       o # Absent /\ {o.settings.port, o.settings.keys.alterId} \subseteq Nat \cup {Absent}
  /\ Absent \notin Shares /\ \A p \in Shares : IsParams(p)
  \* What stands for no value is none.
  /\ Absent # Refused /\ {Absent, Refused} \cap Nat = {}
  /\ \A field \in DOMAIN DefaultParams : Absent # DefaultParams[field]
  /\ Absent \notin BOOLEAN /\ Absent \notin Protocols \cup {"http", "multi", "/"}

\* A panel offers an outbound, or a share link was parsed.
Init ==
  /\ written = Absent
  /\ \/ offered \in Offers /\ params = Absent
     \/ offered = Absent /\ params \in Shares

\* parse_json_subscription: an entry is read, or skipped.
Read ==
  /\ params = Absent
  /\ params' = ParamsFromOutbound(offered)
  /\ UNCHANGED <<offered, written>>

\* create_config or apply_to_config writes the chosen server.
Write ==
  /\ params \notin {Absent, Refused} /\ written = Absent
  /\ written' = Written(params)
  /\ UNCHANGED <<offered, params>>

Next == Read \/ Write
Spec == Init /\ [][Next]_vars

-----------------------------------------------------------------------------
(***************************************************************************)
(* What an outbound means to xray: an absent key is its zero value.        *)
(***************************************************************************)
Meaning(o) ==
  LET k == o.settings.keys
      s == o.stream
      t == s.transport
      network == Get(s.network, "tcp")
      http == network = "tcp" /\ t.headerType = "http"
  IN  [protocol |-> o.protocol, address |-> o.settings.address, port |-> o.settings.port,
       account |->
         CASE o.protocol = "vless" -> <<k.id, Get(k.encryption, "none"), Get(k.flow, Empty)>>
           [] o.protocol = "vmess" -> <<k.id, Get(k.alterId, 0), Get(k.security, "auto")>>
           [] o.protocol = "trojan" -> <<k.password>>
           [] o.protocol = "shadowsocks" -> <<k.method, k.password>>,
       security |-> Get(s.security, Empty),
       network |-> network, tls |-> <<Get(s.serverName, Empty), Get(s.fingerprint, Empty),
                                      Get(s.alpn, <<>>)>>,
       path |-> IF network \in {"ws", "h2"} \/ http THEN Get(t.path, Empty) ELSE Empty,
       host |-> IF network \in {"ws", "h2"} \/ http THEN Get(t.host, Empty) ELSE Empty,
       service |-> IF network = "grpc" THEN <<Get(t.serviceName, Empty), t.multiMode = TRUE>>
                                       ELSE <<>>,
       http |-> http]

\* The outbounds ProxyParams can hold: protocol.rs refuses the others.
Representable(o) ==
  /\ o.protocol \in Protocols
  /\ o.settings.port # Absent /\ o.settings.port <= MaxPort
  /\ Get(o.stream.network, "tcp") \in Networks
  /\ Get(o.stream.security, Empty) # "reality"

\* A header of type http without a path or a host gets corvex's.
HeaderDefaults(o) ==
  /\ Get(o.stream.network, "tcp") = "tcp" /\ o.stream.transport.headerType = "http"
  /\ \/ Get(o.stream.transport.path, Empty) = Empty \/ Get(o.stream.transport.host, Empty) = Empty

\* The parameters are parameters; an alterId fits 32 bits, a port 16.
TypeOK ==
  /\ params \notin {Absent, Refused} => IsParams(params)
  /\ written # Absent => written.protocol = params.protocol

\* xray is told what the panel meant: reading an offered outbound and writing
\* it again changes nothing xray goes by, but for the defaults of an http
\* header and an alterId of more than 32 bits (protocol.rs:488-491).
MeansTheSame ==
  offered # Absent /\ written # Absent =>
    \/ Meaning(written) = Meaning(offered)
    \/ HeaderDefaults(offered)
    \/ offered.protocol = "vmess" /\ Get(offered.settings.keys.alterId, 0) >= AlterIds

\* What ProxyParams cannot hold is refused, never written as something else.
RefusesTheRest ==
  offered # Absent /\ params # Absent => (params # Refused => Representable(offered))

\* The fields in which two parameters of one protocol and network are alike.
SameStream(p, q) ==
  /\ \A field \in {"network", "security", "sni", "fingerprint", "alpn"} : p[field] = q[field]
  /\ p.network \in {"ws", "h2"} => p.path = q.path /\ p.host_header = q.host_header
  /\ p.network = "grpc" =>
       p.service_name = q.service_name /\ (p.mode = "multi" <=> q.mode = "multi")
  /\ p.network = "tcp" =>
       /\ p.header_type = "http" <=> q.header_type = "http"
       /\ p.header_type = "http" =>
            /\ q.path = (IF p.path = Empty THEN "/" ELSE p.path)
            /\ q.host_header = (IF p.host_header = Empty THEN p.host ELSE p.host_header)

\* What corvex wrote it reads as it was: reading is the inverse of writing, but
\* for a grpc mode that is not "multi" and the defaults of an http header
\* (protocol.rs:472-476, "the read-side inverse").
ReadsItsOwn ==
  written # Absent /\ Representable(written) =>
    LET again == ParamsFromOutbound(written)
    IN  /\ ~Unreadable(written)
        /\ SameStream(params, again)
        /\ Written(again).settings = written.settings
        /\ Meaning(Written(again)) = Meaning(written)
=============================================================================
