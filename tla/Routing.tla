-------------------------------- MODULE Routing --------------------------------
(***************************************************************************)
(* From the user's settings and the chosen server to the routes of         *)
(* connections: cmd_start reads corporate-traffic, proxy-traffic and       *)
(* merge-subs from corvex.json, and the direct rules the subscription gave *)
(* the chosen entry, and writes the rules xray then goes by.               *)
(***************************************************************************)
EXTENDS TrafficRules

CONSTANTS Lists,      \* the pattern lists considered for corvex.json
          Entries     \* the rules considered for a subscription's entry

VARIABLES
  ctraffic, ptraffic, merge_subs,   \* corvex.json: routes, merge-subs
  name, entry,                      \* the chosen server and its entry's rules
  rules                             \* of xray's configuration, once written

vars == <<ctraffic, ptraffic, merge_subs, name, entry, rules>>

RoutingAssumption ==
  /\ Lists \subseteq SUBSET Patterns
  /\ Entries \subseteq SUBSET RawRules
  /\ Names \cap {"direct", "block"} = {}   \* those would take the tag of another outbound

ASSUME RoutingAssumption

\* What xray understands: rules for a tag, of patterns with a prefix.
Rules == [outbound : (Names \ {""}) \cup {"proxy", "direct"},
          domains : SUBSET {p \in Patterns : p.kind # "bare"}, ips : SUBSET Words]

\* Whatever the user wrote and the subscription sent; nothing is written yet.
Init ==
  /\ ctraffic \in Lists /\ ptraffic \in Lists /\ merge_subs \in BOOLEAN
  /\ name \in Names /\ entry \in Entries
  /\ rules = <<>>

SubsDirect == SubsDirectSlices(merge_subs, HarvestDirectRules(entry))

\* start_xray_engine for a JSON subscription's entry: the rules it writes.
StartEntry ==
  /\ rules = <<>>
  /\ rules' = BuildRoutingRules(ctraffic, ptraffic, ProxyTag(name),
                                SubsDirect.domains, SubsDirect.ips)
  /\ UNCHANGED <<ctraffic, ptraffic, merge_subs, name, entry>>

\* xray is stopped; merge-subs may be edited before the next start.
Stop ==
  /\ rules # <<>>
  /\ rules' = <<>>
  /\ merge_subs' \in BOOLEAN
  /\ UNCHANGED <<ctraffic, ptraffic, name, entry>>

Next == StartEntry \/ Stop
Spec == Init /\ [][Next]_vars

-----------------------------------------------------------------------------
\* The types of the settings, and that a written configuration has rules.
TypeOK ==
  /\ ctraffic \in SUBSET Patterns /\ ptraffic \in SUBSET Patterns
  /\ merge_subs \in BOOLEAN /\ name \in Names /\ entry \in SUBSET RawRules
  /\ rules \in Seq(Rules)

\* The rules written for a subscription that says nothing.
Unmerged == BuildRoutingRules(ctraffic, ptraffic, ProxyTag(name), {}, {})

\* The loopback and private networks are never tunnelled, whatever the user's
\* lists and the subscription say (traffic.rs: rule 0 comes first).
PrivateDirect ==
  rules # <<>> =>
    \A c \in Connections : IsPrivate(c) => Route(rules, c) = "direct"

\* What corporate-traffic names leaves directly, also when proxy-traffic or
\* the subscription names it too (traffic.rs: the user's own direct entries
\* are never excluded and come before proxy-traffic).
OwnDirect ==
  rules # <<>> =>
    \A c \in Connections : HostIn(c, Normalized(ctraffic)) => Route(rules, c) = "direct"

\* Unless the user opted in, a subscription changes no route; if he did, it can
\* only send connections out directly, never into another outbound
\* (main.rs: subs_direct_slices; traffic.rs: direct rules only).
SubsOnlyWiden ==
  rules # <<>> =>
    \A c \in Connections :
      \/ Route(rules, c) = Route(Unmerged, c)
      \/ merge_subs /\ Route(rules, c) = "direct"

\* A connection is tunnelled by name only if proxy-traffic names its domain; it
\* is left alone by the subscription unless a rule for "direct" of its entry
\* covers it by address, or by a domain that proxy-traffic does not spell alike
\* (traffic.rs:31; that this is less than is promised, ProxyTrafficWins says).
DirectHasReason ==
  rules # <<>> =>
    \A c \in Connections :
      /\ Route(rules, c) \notin {"direct", "default"} =>
           HostIn(c, Normalized(ptraffic)) /\ Route(rules, c) = ProxyTag(name)
      /\ Route(rules, c) = "direct" =>
           \/ IsPrivate(c) \/ HostIn(c, Normalized(ctraffic))
           \/ \E raw \in entry :
                /\ merge_subs /\ raw.outbound = "direct"
                /\ \/ AddrIn(c, {range.word : range \in raw.ips})
                   \/ HostIn(c, Normalized(raw.domains) \ Normalized(ptraffic))

\* The rules written for a subscription that sends addresses directly, if any,
\* but no domain.
NoDomainMerged ==
  BuildRoutingRules(ctraffic, ptraffic, ProxyTag(name), {}, SubsDirect.ips)

\* What src/README.md:235 promises: "Local `proxy-traffic` entries always win over
\* subscription domains", so what proxy-traffic names goes where it went without
\* the domains, whatever the subscription names and in whichever words.  (The code
\* asks the direct domains first, and spares proxy-traffic's own spellings only.)
ProxyTrafficWins ==
  rules # <<>> =>
    \A c \in Connections :
      HostIn(c, Normalized(ptraffic)) => Route(rules, c) = Route(NoDomainMerged, c)

\* What the code delivers of where connections go: the private networks and the
\* user's own direct list first, nothing of a subscription that was not let in,
\* and no other way out without a reason in corvex.json or the entry
\* (traffic.rs, main.rs:738).
RoutesAsAsked == TypeOK /\ PrivateDirect /\ OwnDirect /\ SubsOnlyWiden /\ DirectHasReason
=============================================================================
