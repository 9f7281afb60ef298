----------------------------- MODULE TrafficRules -----------------------------
(***************************************************************************)
(* The routing rules corvex writes for xray (src/traffic.rs), what it      *)
(* takes from a JSON subscription for them (src/jsonsubs.rs), and how xray *)
(* reads them: a connection leaves through the outbound of the first rule  *)
(* it matches, and through the first outbound when it matches none.        *)
(*                                                                         *)
(* A list of patterns is a set: within one rule the order of the patterns  *)
(* and their repetition change nothing.  A pattern keeps the way it is     *)
(* spelled ("caps"), because the code compares the spelling of domains and *)
(* xray does not.                                                          *)
(***************************************************************************)
EXTENDS Naturals, Sequences

CONSTANTS
  Words,      \* what a pattern names: a domain, a category, a range of addresses
  Hosts,      \* the domains of connections
  Addrs,      \* the addresses of connections
  Nil,        \* no domain, or no address, is known of a connection
  Names,      \* of servers: the tag of their outbound
  Matches,    \* <<kind, word, host>>: the domain patterns of xray that match
  Within      \* <<word, address>>: the address patterns of xray that match

Kinds == {"bare", "domain", "regexp", "full", "keyword", "geosite", "ext"}
Patterns == [kind : Kinds, word : Words, caps : BOOLEAN]
Ranges == [word : Words, caps : BOOLEAN]
PrivateWords == {"127.0.0.0/8", "::1/128", "geoip:private"}

ASSUME RulesAssumption ==
  /\ PrivateWords \subseteq Words
  /\ Nil \notin Hosts \cup Addrs
  /\ Matches \subseteq Kinds \X Words \X Hosts
  /\ Within \subseteq Words \X Addrs

(***************************************************************************)
(* The rules.                                                              *)
(***************************************************************************)
\* KNOWN_PREFIXES, normalize_entry: what has no known prefix is a domain.
NormalizeEntry(entry) ==
  IF entry.kind = "bare" THEN [entry EXCEPT !.kind = "domain"] ELSE entry

Normalized(list) == {NormalizeEntry(entry) : entry \in list}

\* merge_direct_domains: the user's list whole, the subscription's without
\* what proxy-traffic names in the same words.
MergeDirectDomains(ctraffic, subs, ptraffic) ==
  Normalized(ctraffic) \cup (Normalized(subs) \ Normalized(ptraffic))

\* dedup_subs_direct_ips.  Of the spellings of a range one is kept, whichever;
\* what rule 0 covers is dropped.
DedupSubsDirectIps(subs) == {range.word : range \in subs} \ {"geoip:private"}

\* A rule: the outbound, the domains or the ranges it is for.
DomainRule(tag, domains) == [outbound |-> tag, domains |-> domains, ips |-> {}]
IpRule(tag, ips) == [outbound |-> tag, domains |-> {}, ips |-> ips]
If(condition, rule) == IF condition THEN <<rule>> ELSE <<>>

\* The bug of asking proxy-traffic before the direct domains.
FaultyProxyFirst(ctraffic, ptraffic, tag, domains, ips) ==
  LET merged == MergeDirectDomains(ctraffic, domains, ptraffic)
      ranges == DedupSubsDirectIps(ips)
  IN  <<IpRule("direct", PrivateWords)>>
        \o If(ptraffic # {}, DomainRule(tag, Normalized(ptraffic)))
        \o If(ranges # {}, IpRule("direct", ranges))
        \o If(merged # {}, DomainRule("direct", merged))

\* build_routing_rules
BuildRoutingRules(ctraffic, ptraffic, tag, domains, ips) ==
  LET merged == MergeDirectDomains(ctraffic, domains, ptraffic)
      ranges == DedupSubsDirectIps(ips)
  IN  <<IpRule("direct", PrivateWords)>>
        \o If(ranges # {}, IpRule("direct", ranges))
        \o If(merged # {}, DomainRule("direct", merged))
        \o If(ptraffic # {}, DomainRule(tag, Normalized(ptraffic)))

\* start_xray_engine, create_config: the tag of the server's outbound.
ProxyTag(name) == IF name = "" THEN "proxy" ELSE name

(***************************************************************************)
(* A JSON subscription's own rules: records of the rule's type, the        *)
(* outbound it is for, whether it has a protocol key, and its lists.       *)
(***************************************************************************)
RawRules == [type : {"field", "other"}, outbound : {"direct", "other"},
             protocol : BOOLEAN, domains : SUBSET Patterns, ips : SUBSET Ranges]

\* harvest_direct_rules
HarvestDirectRules(entry) ==
  LET kept == {rule \in entry : /\ rule.type = "field"
                                /\ rule.outbound = "direct"
                                /\ ~rule.protocol}
  IN  [domains |-> UNION {rule.domains : rule \in kept},
       ips |-> UNION {rule.ips : rule \in kept}]

Nothing == [domains |-> {}, ips |-> {}]

\* subs_direct_slices: the user has to opt in.
SubsDirectSlices(merge_subs, harvested) ==
  IF merge_subs THEN harvested ELSE Nothing

(***************************************************************************)
(* xray's reading of the rules.  Sniffing is on with routeOnly, so the     *)
(* domain and the address of a connection may both be known.               *)
(***************************************************************************)
Connections ==
  [host : Hosts \cup {Nil}, addr : Addrs \cup {Nil}] \ {[host |-> Nil, addr |-> Nil]}

HostIn(connection, domains) ==
  \E pattern \in domains : <<pattern.kind, pattern.word, connection.host>> \in Matches

AddrIn(connection, ips) == \E word \in ips : <<word, connection.addr>> \in Within

MatchesRule(rule, connection) ==
  /\ rule.domains # {} => HostIn(connection, rule.domains)
  /\ rule.ips # {} => AddrIn(connection, rule.ips)

\* The outbound a connection leaves through; "default" is xray's first one.
Route(rules, connection) ==
  LET hits == {i \in DOMAIN rules : MatchesRule(rules[i], connection)}
  IN  IF hits = {} THEN "default"
      ELSE rules[CHOOSE i \in hits : \A j \in hits : i <= j].outbound

IsPrivate(connection) == AddrIn(connection, PrivateWords)
=============================================================================
