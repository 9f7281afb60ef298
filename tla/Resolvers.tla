------------------------------ MODULE Resolvers ------------------------------
(***************************************************************************)
(* What corvex makes of the system's DNS resolvers (src/src/dns.rs,        *)
(* src/src/platform): the list `corvex dns` walks, and the mapping of      *)
(* corporate domains to nameservers that a start writes into config.json.  *)
(* macOS and Linux are asked by commands whose text is parsed line by      *)
(* line; Windows is asked for its adapters and its policy table.  The      *)
(* system, and how it prints what it has, are external.                    *)
(***************************************************************************)
EXTENDS Sequences, SequencesExt, FiniteSets

CONSTANTS
  MacSystems, LinuxSystems, WindowsSystems,  \* what the system may have
  OwnMappings,   \* corporate-dns of corvex.json: functions from domains to servers
  Nil

VARIABLES
  platform, system, own,
  pc,         \* "ask", "parse", "merge", "done"
  lines,      \* what the command printed
  listed,     \* list_system_resolvers: the resolvers of the report
  found,      \* discover_corporate_dns: a function, Nil if it is an error
  mappings    \* what the start syncs into config.json

vars == <<platform, system, own, pc, lines, listed, found, mappings>>

(***************************************************************************)
(* A server is [class, id]: an IPv4 address, private or not, an IPv6       *)
(* address of the local network, one with a zone id, an address with a     *)
(* name after it (9.9.9.9#dns), or no address.  A domain is [label, dots]: *)
(* the root has dots and no label.                                         *)
(***************************************************************************)
\* is_ip_literal, which cuts the zone off first, and IpAddr's own parse.
IsIpLiteral(s) == s.class \in {"v4", "v4public", "v6local", "zoned"}
Parses(s) == s.class \in {"v4", "v4public", "v6local"}
\* windows.rs is_private_ip: of IPv6, the loopback only.
IsPrivateIp(s) == s.class = "v4"

Root == [label |-> "", dots |-> TRUE]

\* BTreeMap::entry(domain).or_insert(server), on mappings as functions.
OrInsert(map, domain, server) ==
  IF domain \in DOMAIN map THEN map
  ELSE [d \in DOMAIN map \cup {domain} |-> IF d = domain THEN server ELSE map[d]]

NoMappings == [d \in {} |-> Nil]
Line(key, value) == [key |-> key, value |-> value]

-----------------------------------------------------------------------------
(***************************************************************************)
(* macOS: resolvers [domain, nameservers, search, interface]; those of the *)
(* scoped queries are printed a second time, after a header of their own.  *)
(***************************************************************************)
MacBlock(r) ==
  <<Line("resolver #", Nil)>>
    \o (IF r.domain = Nil THEN <<>> ELSE <<Line("domain", r.domain)>>)
    \o (IF r.search = Nil THEN <<>> ELSE <<Line("search domain[0]", r.search)>>)
    \o [i \in DOMAIN r.nameservers |-> Line("nameserver[", r.nameservers[i])]
    \o <<Line("if_index", r.interface), Line("flags", Nil)>>

ScutilDns(s) ==
  <<Line("DNS configuration", Nil)>> \o FlattenSeq([i \in DOMAIN s.resolvers |-> MacBlock(s.resolvers[i])])
    \o (IF s.scoped = <<>> THEN <<>>
        ELSE <<Line("DNS configuration (", Nil)>>
               \o FlattenSeq([i \in DOMAIN s.scoped |-> MacBlock(s.scoped[i])]))

Entry(domain, nameservers, interface) ==
  [domain |-> domain, nameservers |-> nameservers, interface |-> interface]

\* flush: a resolver is kept once it has somewhere to send a query.
Flush(resolvers, entry) ==
  IF entry = Nil THEN resolvers
  ELSE IF entry.nameservers = <<>> THEN resolvers ELSE Append(resolvers, entry)

\* One line of parse_scutil_dns.
ScutilLine(state, line) ==
  IF state.stopped THEN state
  ELSE IF line.key = "DNS configuration (" THEN [state EXCEPT !.stopped = TRUE]
  ELSE IF line.key = "resolver #"
    THEN [state EXCEPT !.resolvers = Flush(@, state.current), !.current = Entry(Nil, <<>>, Nil)]
  ELSE IF state.current = Nil THEN state
  ELSE CASE line.key = "domain" -> [state EXCEPT !.current.domain = line.value]
         [] line.key = "nameserver[" /\ IsIpLiteral(line.value) ->
              [state EXCEPT !.current.nameservers = Append(@, line.value)]
         [] line.key = "if_index" /\ line.value # Nil ->
              [state EXCEPT !.current.interface = line.value]
         [] OTHER -> state

\* parse_scutil_dns
ParseScutilDns(text) ==
  LET end == FoldLeft(ScutilLine, [stopped |-> FALSE, current |-> Nil, resolvers |-> <<>>], text)
  IN  Flush(end.resolvers, end.current)

Usable(entry) == {i \in DOMAIN entry.nameservers : entry.nameservers[i].class # "zoned"}
FirstOf(indices) == CHOOSE i \in indices : \A j \in indices : i <= j

\* The bug of giving a resolver up for its first nameserver.
FaultyProject(map, entry) ==
  IF entry.domain = Nil \/ entry.nameservers[1].class = "zoned" THEN map
  ELSE OrInsert(map, entry.domain, <<entry.nameservers[1]>>)

\* One resolver of corporate_mappings_first.
Project(map, entry) ==
  IF entry.domain = Nil \/ Usable(entry) = {} THEN map
  ELSE OrInsert(map, entry.domain, <<entry.nameservers[FirstOf(Usable(entry))]>>)

CorporateMappingsFirst(resolvers) == FoldLeft(Project, NoMappings, resolvers)

-----------------------------------------------------------------------------
(***************************************************************************)
(* Linux: sections [kind, current, servers, domains], of which a long list *)
(* of domains goes on, one each, on lines of its own.                      *)
(***************************************************************************)
LinuxBlock(s) ==
  <<Line(s.kind, Nil), Line("Protocols:", Nil)>>
    \o (IF s.current = Nil THEN <<>> ELSE <<Line("Current DNS Server:", s.current)>>)
    \o (IF s.servers = <<>> THEN <<>> ELSE <<Line("DNS Servers:", s.servers)>>)
    \o [i \in DOMAIN s.domains |->
          Line(IF i = 1 THEN "DNS Domain:" ELSE "continuation", s.domains[i])]
    \o <<Line("Default Route:", Nil), Line("", Nil)>>

ResolvectlStatus(s) == FlattenSeq([i \in DOMAIN s |-> LinuxBlock(s[i])])

\* collect_domains
CollectDomain(state, domain) ==
  IF state.dns = Nil \/ ~domain.dots THEN state
  ELSE [state EXCEPT !.result = OrInsert(@, domain, <<state.dns>>)]

\* One line of parse_resolvectl_status.
ResolvectlLine(state, line) ==
  CASE line.key \in {"Link ", "Global"} ->
         [state EXCEPT !.dns = Nil, !.in_domain_section = FALSE]
    [] line.key = "DNS Servers:" ->
         [state EXCEPT !.in_domain_section = FALSE,
                       !.dns = IF Parses(line.value[1]) THEN line.value[1] ELSE @]
    [] line.key = "Current DNS Server:" ->
         [state EXCEPT !.in_domain_section = FALSE,
                       !.dns = IF @ = Nil /\ Parses(line.value) THEN line.value ELSE @]
    [] line.key = "DNS Domain:" ->
         CollectDomain([state EXCEPT !.in_domain_section = TRUE], line.value)
    [] line.key = "continuation" ->
         IF state.in_domain_section THEN CollectDomain(state, line.value) ELSE state
    [] OTHER -> [state EXCEPT !.in_domain_section = FALSE]

ParseResolvectlStatus(text) ==
  FoldLeft(ResolvectlLine, [dns |-> Nil, in_domain_section |-> FALSE, result |-> NoMappings],
           text).result

\* resolver_entries: by domain, in an order that nothing here is about.
ResolverEntries(map) == SetToSeq({Entry(d, map[d], Nil) : d \in DOMAIN map})

-----------------------------------------------------------------------------
(***************************************************************************)
(* Windows: adapters [suffix, servers], and policy rules [domain, servers] *)
(* whose servers are one text, however many they are.                      *)
(***************************************************************************)
\* One adapter of get_adapter_dns_mappings: its first private server.
Adapter(map, a) ==
  LET private == {i \in DOMAIN a.servers : IsPrivateIp(a.servers[i])}
  IN  IF a.suffix = Nil \/ private = {} THEN map
      ELSE OrInsert(map, a.suffix, <<a.servers[FirstOf(private)]>>)

\* One rule of get_nrpt_dns_mappings; the dot before its namespace is dropped.
NrptRule(map, r) ==
  IF r.domain = Root \/ r.servers = <<>> THEN map ELSE OrInsert(map, r.domain, r.servers)

\* merge_dns_maps; a start merges what it found into the user's own likewise.
MergeDnsMaps(primary, secondary) ==
  [d \in DOMAIN primary \cup DOMAIN secondary |->
     IF d \in DOMAIN primary THEN primary[d] ELSE secondary[d]]

WindowsMappings(s) ==
  MergeDnsMaps(FoldLeft(Adapter, NoMappings, s.adapters),
               FoldLeft(NrptRule, NoMappings, s.nrpt))

-----------------------------------------------------------------------------
Init ==
  /\ \/ platform = "macos" /\ system \in MacSystems
     \/ platform = "linux" /\ system \in LinuxSystems
     \/ platform = "windows" /\ system \in WindowsSystems
  /\ own \in OwnMappings
  /\ pc = "ask" /\ lines = <<>> /\ listed = <<>> /\ found = Nil /\ mappings = NoMappings

\* The command runs, or does not, or fails; Windows is asked without one.
Ask ==
  /\ pc = "ask"
  /\ \/ pc' = "parse"
        /\ lines' = CASE platform = "macos" -> ScutilDns(system)
                      [] platform = "linux" -> ResolvectlStatus(system)
                      [] OTHER -> <<>>
     \/ platform # "windows" /\ pc' = "merge" /\ UNCHANGED lines
  /\ UNCHANGED <<platform, system, own, listed, found, mappings>>

\* discover_corporate_dns: to find no mapping is an error.
Discovered(map) == IF DOMAIN map = {} THEN Nil ELSE map

\* discover_corporate_dns and list_system_resolvers of each platform.
Parse ==
  /\ pc = "parse" /\ pc' = "merge"
  /\ LET resolvers == IF platform = "macos" THEN ParseScutilDns(lines) ELSE <<>>
         map == CASE platform = "macos" -> CorporateMappingsFirst(resolvers)
                  [] platform = "linux" -> ParseResolvectlStatus(lines)
                  [] OTHER -> WindowsMappings(system)
     IN  /\ found' = Discovered(map)
         /\ listed' = CASE platform = "macos" -> resolvers
                        [] platform = "linux" -> ResolverEntries(map)
                        [] OTHER -> <<>>
  /\ UNCHANGED <<platform, system, own, lines, mappings>>

\* start_xray_engine: an error of discovery is no error of the start.
Merge ==
  /\ pc = "merge" /\ pc' = "done"
  /\ mappings' = IF found = Nil THEN own ELSE MergeDnsMaps(own, found)
  /\ UNCHANGED <<platform, system, own, lines, listed, found>>

Done == pc = "done" /\ UNCHANGED vars
Next == Ask \/ Parse \/ Merge \/ Done
Spec == Init /\ [][Next]_vars

-----------------------------------------------------------------------------
\* What the parsers find: mappings are never to nothing, entries never without
\* a nameserver, and a report there is only where there is a command.
TypeOK ==
  /\ pc \in {"ask", "parse", "merge", "done"}
  /\ found # Nil => DOMAIN found # {} /\ \A d \in DOMAIN found : found[d] # <<>>
  /\ \A e \in ToSet(listed) : e.nameservers # <<>> /\ platform # "windows"
  /\ \A d \in DOMAIN mappings : d.label # "" \/ d = Root

\* Whom the system has for a domain: the sections that may answer for it, each
\* as the sequence of its servers.
ServersFor(d) ==
  CASE platform = "macos" ->
         {system.resolvers[i].nameservers : i \in {j \in DOMAIN system.resolvers :
                                                     system.resolvers[j].domain = d}}
    [] platform = "linux" ->
         {<<system[i].current>> \o system[i].servers :
            i \in {j \in DOMAIN system : d \in ToSet(system[j].domains)}}
    [] OTHER ->
         {system.adapters[i].servers : i \in {j \in DOMAIN system.adapters :
                                               system.adapters[j].suffix = d}}
         \cup {system.nrpt[i].servers : i \in {j \in DOMAIN system.nrpt : system.nrpt[j].domain = d}}

\* A domain is mapped to a server the system has for that very domain, and, but
\* on Windows, where a policy rule's servers are taken as one text, never to one
\* xray would take for a name (dns.rs:138-141).
MapsOwn ==
  found # Nil => \A d \in DOMAIN found :
    /\ \E servers \in ServersFor(d) : ToSet(found[d]) \subseteq ToSet(servers)
    /\ platform # "windows" => \A s \in ToSet(found[d]) : s.class \notin {"zoned", "sni", "junk"}

\* The macOS report is the resolvers of the system that have a nameserver, in
\* their order, each once and with all its nameservers, its domain and its
\* interface, whatever else is printed (dns.rs:9-12, 31-38).
ListsAll ==
  platform = "macos" /\ pc = "merge" /\ lines # <<>> =>
    LET literal(r) == SelectSeq(r.nameservers, IsIpLiteral)
        kept == SelectSeq(system.resolvers, LAMBDA r : literal(r) # <<>>)
    IN  listed = [i \in DOMAIN kept |-> Entry(kept[i].domain, literal(kept[i]), kept[i].interface)]

\* Every server a start may write for a domain it found can be diagnosed: the
\* report lists it under that domain.
ReportCoversStart ==
  platform # "windows" /\ pc = "merge" /\ found # Nil =>
    \A d \in DOMAIN found : \E e \in ToSet(listed) :
      e.domain = d /\ ToSet(found[d]) \subseteq ToSet(e.nameservers)

\* No domain is lost that some section has a usable first server for.
NoneMissed ==
  platform # "windows" /\ pc = "merge" /\ lines # <<>> =>
    /\ platform = "macos" =>
         \A i \in DOMAIN system.resolvers :
           LET r == system.resolvers[i]
           IN  r.domain # Nil /\ (\E s \in ToSet(r.nameservers) : Parses(s)) =>
                 found # Nil /\ r.domain \in DOMAIN found
    /\ platform = "linux" =>
         \A i \in DOMAIN system : \A d \in ToSet(system[i].domains) :
           d.dots /\ system[i].servers # <<>> /\ Parses(system[i].servers[1]) =>
             found # Nil /\ d \in DOMAIN found
=============================================================================
