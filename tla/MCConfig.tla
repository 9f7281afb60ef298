------------------------------- MODULE MCConfig -------------------------------
(***************************************************************************)
(* What a start puts into xray's configuration, in one run: in each        *)
(* behaviour one of Routing, ConfigJson and Resolvers runs, and the others *)
(* rest in an initial state.                                               *)
(***************************************************************************)
EXTENDS Config

VARIABLES platform, system, own, pc, lines, listed, found, mappings  \* of Resolvers

resolverVars == <<platform, system, own, pc, lines, listed, found, mappings>>

-----------------------------------------------------------------------------
MCWords == {"a", "s.a", "pub", "lan", "corp"} \cup PrivateWords
MCHosts == {"a", "s.a", "b"}

\* xray: domain:w is w and what is under it, full:w is w alone, whatever the case.
MCMatches ==
  {<<"domain", "a", "a">>, <<"domain", "a", "s.a">>, <<"domain", "s.a", "s.a">>,
   <<"full", "a", "a">>, <<"full", "s.a", "s.a">>, <<"keyword", "a", "a">>,
   <<"keyword", "a", "s.a">>}

\* 10.0.0.1 is in the private networks and in the subscription's range "lan".
MCWithin ==
  {<<"127.0.0.0/8", "127.0.0.1">>, <<"geoip:private", "127.0.0.1">>,
   <<"geoip:private", "10.0.0.1">>, <<"lan", "10.0.0.1">>, <<"pub", "8.8.8.8">>}

P(kind, word, caps) == [kind |-> kind, word |-> word, caps |-> caps]
MCPatterns == {P("bare", "a", FALSE), P("domain", "a", FALSE), P("bare", "a", TRUE),
               P("full", "s.a", FALSE)}
MCLists == {{}} \cup {{x, y} : x, y \in MCPatterns}

\* One rule the subscription may use, and one that is not for direct lists.
Raw(type, outbound, protocol, domains, ips) ==
  [type |-> type, outbound |-> outbound, protocol |-> protocol, domains |-> domains, ips |-> ips]
Range(word, caps) == [word |-> word, caps |-> caps]
MCEntries ==
  {{}} \cup {{Raw("field", "direct", FALSE, domains, ips)} :
     domains \in MCLists,
     ips \in {{}, {Range("pub", FALSE)}, {Range("geoip:private", TRUE), Range("lan", FALSE)}}}
  \cup {{Raw(type, outbound, protocol, {P("bare", "a", FALSE)}, {Range("pub", FALSE)})} :
          type \in {"field", "other"}, outbound \in {"direct", "other"}, protocol \in BOOLEAN}

\* The same in lower case only, for a promise that fails without any caps.
Lower(list) == \A pattern \in list : ~pattern.caps
MCLowerLists == {list \in MCLists : Lower(list)}
MCLowerEntries == {entries \in MCEntries : \A raw \in entries : Lower(raw.domains)}

\* Servers of two protocols, without a name and with one that is a tag of
\* corvex's; a tunnel.
Xray(protocol, server) == [mode |-> "xray", protocol |-> protocol, name |-> server]
MCChoices == {Xray("vless", "nl"), Xray("trojan", ""), Xray("vless", "direct"),
              [mode |-> "awg", protocol |-> "freedom", name |-> ""]}
MCEdits ==
  {[kind |-> "delete"], [kind |-> "log", log |-> Nil], [kind |-> "inbounds", ports |-> <<>>],
   [kind |-> "inbounds", ports |-> <<1081>>],
   [kind |-> "server", server |-> [address |-> "10.0.0.53", domain |-> "a"]],
   [kind |-> "rule", rule |-> IpRule("user", {"127.0.0.0/8"})],
   [kind |-> "append", outbound |-> [protocol |-> "trojan", tag |-> "mine", server |-> User]],
   [kind |-> "remove"]} \cup [kind : {"scalar"}, part : {"log", "routing", "dns", "inbound"}]

MCNames == {"", "nl", "direct"}
MCCtraffic == {P("bare", "corp", FALSE)}
MCPtraffic == {P("bare", "a", FALSE)}
MCMappings == {{}, {<<"corp", "10.0.0.53">>}, {<<"corp", "10.9.9.53">>, <<"a", "10.9.9.53">>}}

-----------------------------------------------------------------------------
Server(class, id) == [class |-> class, id |-> id]
A1 == Server("v4", 1)
A2 == Server("v4", 2)
Public == Server("v4public", 3)
Zoned == Server("zoned", 5)
Sni == Server("sni", 6)
D1 == [label |-> "d1.corp", dots |-> TRUE]
D2 == [label |-> "d2.corp", dots |-> TRUE]
Single == [label |-> "corp", dots |-> FALSE]
Root == [label |-> "", dots |-> TRUE]
Seqs(S, n) == UNION {[1..k -> S] : k \in 0..n}

MacResolvers ==
  [domain : {Nil, D1, D2}, nameservers : Seqs({A1, Zoned, Sni}, 2), search : {Nil, D2},
   interface : {Nil, "en0"}]
\* The second section repeats what is scoped to an interface.
MCMacSystems ==
  [resolvers : Seqs({r \in MacResolvers : (r.search = Nil) <=> (r.domain # Nil)}, 2),
   scoped : {<<>>, <<[domain |-> Nil, nameservers |-> <<Public>>, search |-> D1,
                      interface |-> "en0"]>>}]
MCLinuxSystems ==
  Seqs([kind : {"Link ", "Global"}, current : {Nil, A1},
        servers : {<<>>, <<A2, A1>>, <<Sni, A2>>, <<Zoned>>},
        domains : {s \in Seqs({D1, D2, Single}, 2) : Len(s) = 2 => s[1] # s[2]}], 2)
MCWindowsSystems ==
  [adapters : Seqs([suffix : {Nil, D1, D2}, servers : Seqs({A1, Public, Server("v6local", 4)}, 2)], 2),
   nrpt : Seqs([domain : {D1, D2, Root}, servers : {<<>>, <<A2>>, <<A2, A1>>}], 1)]

Resolver == INSTANCE Resolvers WITH
  MacSystems <- MCMacSystems, LinuxSystems <- MCLinuxSystems, WindowsSystems <- MCWindowsSystems,
  OwnMappings <- {[d \in {} |-> Nil], [d \in {D1} |-> <<Public>>]}

-----------------------------------------------------------------------------
ResolverRests == platform = "linux" /\ system = <<>> /\ own = [d \in {} |-> Nil] /\ Resolver!Init

MCInit ==
  \/ ConfigInit /\ ResolverRests
  \/ part = "resolvers" /\ RoutingRests /\ File!Init /\ Resolver!Init
MCNext ==
  \/ ConfigNext /\ UNCHANGED resolverVars
  \/ part = "resolvers" /\ Resolver!Next /\ UNCHANGED <<part, vars, fileVars>>
MCSpec == MCInit /\ [][MCNext]_<<part, vars, fileVars, resolverVars>>

-----------------------------------------------------------------------------
\* A domain is mapped to a server the system has for it, and none is lost that
\* some section has a usable first server for; the macOS report is the
\* resolvers of the system, in order and whole, and covers every server that a
\* start may write (Resolvers, dns.rs:138).
MappingsFit ==
  /\ Resolver!TypeOK
  /\ Resolver!MapsOwn /\ Resolver!NoneMissed
  /\ Resolver!ListsAll /\ Resolver!ReportCoversStart
=============================================================================
