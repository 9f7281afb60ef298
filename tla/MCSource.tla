------------------------------ MODULE MCSource ------------------------------
(* Source on small instances, for TLC. *)
EXTENDS Source, SequencesExt

CONSTANTS
  Parts,   \* of "select", "download", "link", "outbound": those that run
  M, P, H, W

MCJsonBodies == SeqOf(Servers, 2)
MCUriBodies ==
  {b \in [uris : SeqOf(Servers \cup Unparsable, 2), vpns : SeqOf(Vpn, 2)] :
     Len(b.uris) + Len(b.vpns) <= 2}

\* A token in the path, one in the userinfo, a URL without a scheme, one that
\* parses without being fetchable.
MCUrls ==
  {[parses |-> TRUE, scheme |-> "https", host |-> "panel", secrets |-> {"token"}],
   [parses |-> TRUE, scheme |-> "http", host |-> "other", secrets |-> {}],
   [parses |-> FALSE, scheme |-> Nil, host |-> Nil, secrets |-> {"token", "user"}],
   [parses |-> TRUE, scheme |-> "mailto", host |-> Nil, secrets |-> {"user"}]}
NoHeaders == [h \in {} |-> ""]
MCHeaders == {NoHeaders, [h \in {"User-Agent", "user-agent"} |-> h], [h \in {"user-agent", "x"} |-> h]}
Item(kind) == [kind |-> kind, whole |-> TRUE]
MCBodies ==
  {[format |-> "json", items |-> <<Item("vless"), Item("freedom")>>],
   [format |-> "json", items |-> <<>>],
   [format |-> "base64", items |-> <<Item("ss"), Item("vpn")>>],
   [format |-> "base64", items |-> <<Item("vpn"), Item("vmess"), Item("trojan")>>],
   [format |-> "json", items |-> <<Item("vless"), Item("vless"), Item("vless")>>],
   [format |-> "other", items |-> <<>>]}

\* Passwords of up to two characters, separators among them; a host name and
\* an IPv6 address; what follows the address, and queries.
MCPasswords == SeqOf({P, Colon, At, Percent, Hash}, 2) \ {<<>>}
MCMethod == <<M>>
MCNames == {<<>>, <<P>>, <<Hash, P>>, <<P, At, Colon>>}
MCHosts == {<<H>>, <<Colon, Colon, H>>}
MCPlugins == {<<>>, <<Question, W>>, <<Question, W, Colon, W>>, <<Question, W, At, W>>}
MCQueries == {<<>>, <<<<"type", "ws">>>>, <<<<"security", "none">>>>,
              <<<<"security", "none">>, <<"security", "tls">>>>,
              <<<<"security", "tls">>, <<"type", "ws">>, <<"security", "none">>>>}
\* Small, so that a number may be too large.
MCAlterIds == 16

\* Outbound without what is considered for it: its names for what follows.
Plain == INSTANCE Outbound WITH Offers <- {}, Shares <- {}

Opt(S) == S \cup {Absent}
Keys(id, password, method, encryption, alterId) ==
  [id |-> id, password |-> password, method |-> method, encryption |-> encryption,
   flow |-> Absent, alterId |-> alterId, security |-> Absent]
\* Outbounds of panels, with keys missing and values too large.
MCOffers ==
  {[protocol |-> protocol,
    settings |-> [address |-> address, port |-> port, keys |-> keys],
    stream |-> [network |-> network, security |-> security, serverName |-> IF alpn = Absent THEN "s" ELSE Absent,
                fingerprint |-> "c", alpn |-> alpn, transport |->
                  [path |-> path, host |-> host, serviceName |-> path,
                   multiMode |-> multi, headerType |-> header]]] :
     protocol \in Plain!Protocols \cup {"wireguard"}, address \in Opt({"h"}),
     port \in {Absent, 443, 65536 + 443},
     keys \in {Keys("k", "k", "m", Absent, Absent), Keys("k", "k", Absent, "e", MCAlterIds + 2),
               Keys(Absent, "k", "m", "e", 7)},
     network \in {Absent, "tcp", "grpc", "ws", "xhttp"}, security \in {Absent, "tls", "reality"},
     alpn \in {Absent, <<"h2">>}, path \in Opt({"p"}), host \in Opt({"p"}),
     multi \in {Absent, TRUE, FALSE}, header \in Opt({"http"})}

\* Every share link: a field of one protocol stands for those of the others.
MCStrings == {"", "s"}
Shared(default) ==
  {[default EXCEPT !.protocol = protocol, !.host = "h", !.port = 443,
      !.uuid = "k", !.password = "k", !.method = "m", !.flow = flow, !.network = network,
      !.security = security, !.sni = sni, !.fingerprint = fp, !.alpn = alpn,
      !.path = path, !.host_header = host, !.service_name = path, !.mode = mode,
      !.header_type = header] :
     protocol \in Plain!Protocols, flow \in MCStrings, network \in {"tcp", "grpc", "ws", "h2", "xhttp"},
     security \in {"", "tls", "reality"}, sni \in MCStrings, fp \in MCStrings,
     alpn \in {<<>>, <<"h3", "h2">>}, path \in MCStrings, host \in MCStrings,
     mode \in {"", "gun", "multi"}, header \in {"none", "http"}}
MCShares == Shared(Plain!DefaultParams)

-----------------------------------------------------------------------------
MCInit == part \in Parts /\ SourceInit
MCSpec == MCInit /\ [][SourceNext]_everything
MCFairSpec == MCSpec /\ WF_everything(Select) /\ WF_everything(Fetch)
=============================================================================
