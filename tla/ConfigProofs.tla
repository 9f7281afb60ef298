----------------------------- MODULE ConfigProofs -----------------------------
(***************************************************************************)
(* The route of every connection under the rules corvex writes, whatever   *)
(* the lists, the subscription and xray's matching of patterns are; and    *)
(* what starts make of config.json, whatever they find there.              *)
(***************************************************************************)
EXTENDS Config, Integers, WellFoundedInduction, TLAPS

\* The rules have a first match; they have no match.
First(s, c, i) == /\ i \in DOMAIN s
                  /\ MatchesRule(s[i], c)
                  /\ \A j \in DOMAIN s : j < i => ~MatchesRule(s[j], c)
Settled(s, c) == \E i \in DOMAIN s : First(s, c, i)
Clear(s, c) == \A i \in DOMAIN s : ~MatchesRule(s[i], c)

\* The route is the outbound of the first rule that matches.
LEMMA FirstMatch ==
  ASSUME NEW S, NEW s \in Seq(S), NEW c, NEW i, First(s, c, i)
  PROVE  Route(s, c) = s[i].outbound
<1> DEFINE hits == {j \in DOMAIN s : MatchesRule(s[j], c)}
<1>1. i \in hits
  BY DEF First
<1>2. DOMAIN s \subseteq Int
  OBVIOUS
<1>3. \A j \in hits : i <= j
  BY <1>2, <1>1 DEF First
<1>4. \A k \in hits : (\A j \in hits : k <= j) => k = i
  BY <1>1, <1>2, <1>3
<1> HIDE DEF hits
<1>5. (CHOOSE k \in hits : \A j \in hits : k <= j) = i
  BY <1>1, <1>3, <1>4
<1> QED BY <1>1, <1>5 DEF Route, hits

\* Without a match the route is xray's first outbound.
LEMMA NoMatch ==
  ASSUME NEW s, NEW c, Clear(s, c)
  PROVE  Route(s, c) = "default"
  BY DEF Route, Clear

\* t is s and one more rule, which matters only where s says nothing.
Continues(S, s, t, r, b, c) ==
  /\ t \in Seq(S)
  /\ Settled(s, c) => Settled(t, c) /\ Route(t, c) = Route(s, c)
  /\ Clear(s, c) /\ b /\ MatchesRule(r, c) =>
       Settled(t, c) /\ Route(t, c) = r.outbound
  /\ Clear(s, c) /\ ~(b /\ MatchesRule(r, c)) => Clear(t, c)

\* Appending a rule, or nothing, is that.
LEMMA OneMore ==
  ASSUME NEW S, NEW s \in Seq(S), NEW r \in S, NEW b \in BOOLEAN, NEW c
  PROVE  Continues(S, s, s \o If(b, r), r, b, c)
<1>1. CASE ~b
  <2>1. s \o If(b, r) = s
    BY <1>1 DEF If
  <2> QED BY <1>1, <2>1 DEF Continues
<1>2. CASE b
  <2> DEFINE t == s \o <<r>>
  <2>1. s \o If(b, r) = t
    BY <1>2 DEF If
  <2>2. /\ t \in Seq(S)
        /\ DOMAIN t = 1..(Len(s) + 1) /\ DOMAIN s = 1..Len(s) /\ Len(s) \in Nat
        /\ \A i \in DOMAIN s : t[i] = s[i]
        /\ t[Len(s) + 1] = r
    OBVIOUS
  <2> HIDE DEF t
  <2>3. ASSUME Settled(s, c)
        PROVE  Settled(t, c) /\ Route(t, c) = Route(s, c)
    <3>1. PICK i \in DOMAIN s : First(s, c, i)
      BY <2>3 DEF Settled
    <3>2. First(t, c, i)
      BY <2>2, <3>1 DEF First
    <3>3. Route(s, c) = s[i].outbound
      BY <3>1, FirstMatch
    <3>4. Route(t, c) = t[i].outbound
      BY <2>2, <3>2, FirstMatch
    <3> QED BY <2>2, <3>1, <3>2, <3>3, <3>4 DEF Settled, First
  <2>4. ASSUME Clear(s, c), MatchesRule(r, c)
        PROVE  Settled(t, c) /\ Route(t, c) = r.outbound
    <3>1. First(t, c, Len(s) + 1)
      BY <2>2, <2>4 DEF First, Clear
    <3>2. Route(t, c) = t[Len(s) + 1].outbound
      BY <2>2, <3>1, FirstMatch
    <3> QED BY <2>2, <3>1, <3>2 DEF Settled, First
  <2>5. ASSUME Clear(s, c), ~MatchesRule(r, c)
        PROVE  Clear(t, c)
    BY <2>2, <2>5 DEF Clear
  <2> QED BY <1>2, <2>1, <2>2, <2>3, <2>4, <2>5 DEF Continues
<1> QED BY <1>1, <1>2

\* Patterns that cover a connection are some; ranges too.
LEMMA CoveringIsSome ==
  ASSUME NEW c
  PROVE  /\ \A domains : HostIn(c, domains) => domains # {}
         /\ \A ips : AddrIn(c, ips) => ips # {}
  BY DEF HostIn, AddrIn

\* The route under the rules of build_routing_rules: direct for the private
\* ranges, the subscription's ranges and the direct domains, the server for
\* proxy-traffic's domains, xray's first outbound for the rest.
LEMMA RouteOfRules ==
  ASSUME NEW ctraffic_, NEW ptraffic_, NEW tag, NEW domains_, NEW ips_, NEW c
  PROVE  Route(BuildRoutingRules(ctraffic_, ptraffic_, tag, domains_, ips_), c) =
           IF \/ AddrIn(c, PrivateWords)
              \/ AddrIn(c, DedupSubsDirectIps(ips_))
              \/ HostIn(c, MergeDirectDomains(ctraffic_, domains_, ptraffic_))
           THEN "direct"
           ELSE IF HostIn(c, Normalized(ptraffic_)) THEN tag ELSE "default"
<1> DEFINE merged == MergeDirectDomains(ctraffic_, domains_, ptraffic_)
           ranges == DedupSubsDirectIps(ips_)
           proxied == Normalized(ptraffic_)
           r1 == IpRule("direct", PrivateWords)
           r2 == IpRule("direct", ranges)
           r3 == DomainRule("direct", merged)
           r4 == DomainRule(tag, proxied)
           S == {r1, r2, r3, r4}
           s1 == <<>> \o If(TRUE, r1)
           s2 == s1 \o If(ranges # {}, r2)
           s3 == s2 \o If(merged # {}, r3)
           s4 == s3 \o If(ptraffic_ # {}, r4)
<1>1. BuildRoutingRules(ctraffic_, ptraffic_, tag, domains_, ips_) = s4
  BY DEF BuildRoutingRules, If
<1>2. /\ MatchesRule(r1, c) <=> AddrIn(c, PrivateWords)
      /\ (ranges # {} /\ MatchesRule(r2, c)) <=> AddrIn(c, ranges)
      /\ (merged # {} /\ MatchesRule(r3, c)) <=> HostIn(c, merged)
      /\ (ptraffic_ # {} /\ MatchesRule(r4, c)) <=> HostIn(c, proxied)
  <2>1. PrivateWords # {}
    BY DEF PrivateWords
  <2>2. proxied # {} <=> ptraffic_ # {}
    BY DEF Normalized
  <2>3. /\ r1.domains = {} /\ r1.ips = PrivateWords
        /\ r2.domains = {} /\ r2.ips = ranges
        /\ r3.domains = merged /\ r3.ips = {}
        /\ r4.domains = proxied /\ r4.ips = {}
    BY DEF IpRule, DomainRule
  <2> HIDE DEF r1, r2, r3, r4, merged, ranges, proxied
  <2> QED BY <2>1, <2>2, <2>3, CoveringIsSome DEF MatchesRule
<1>3. /\ r1.outbound = "direct" /\ r2.outbound = "direct"
      /\ r3.outbound = "direct" /\ r4.outbound = tag
  BY DEF IpRule, DomainRule
<1>4. /\ r1 \in S /\ r2 \in S /\ r3 \in S /\ r4 \in S
      /\ <<>> \in Seq(S) /\ Clear(<<>>, c)
  BY DEF Clear
<1> HIDE DEF r1, r2, r3, r4, merged, ranges, proxied, S
<1>5. /\ s1 \in Seq(S)
      /\ AddrIn(c, PrivateWords) => Settled(s1, c) /\ Route(s1, c) = "direct"
      /\ ~AddrIn(c, PrivateWords) => Clear(s1, c)
  <2>1. Continues(S, <<>>, s1, r1, TRUE, c)
    BY <1>4, OneMore
  <2> HIDE DEF s1
  <2> QED BY <1>2, <1>3, <1>4, <2>1 DEF Continues
<1>6. /\ s2 \in Seq(S)
      /\ AddrIn(c, PrivateWords) \/ AddrIn(c, ranges) =>
           Settled(s2, c) /\ Route(s2, c) = "direct"
      /\ ~(AddrIn(c, PrivateWords) \/ AddrIn(c, ranges)) => Clear(s2, c)
  <2> HIDE DEF s1
  <2>1. Continues(S, s1, s2, r2, ranges # {}, c)
    BY <1>4, <1>5, OneMore
  <2> HIDE DEF s2
  <2> QED BY <1>2, <1>3, <1>5, <2>1 DEF Continues
<1>7. /\ s3 \in Seq(S)
      /\ AddrIn(c, PrivateWords) \/ AddrIn(c, ranges) \/ HostIn(c, merged) =>
           Settled(s3, c) /\ Route(s3, c) = "direct"
      /\ ~(AddrIn(c, PrivateWords) \/ AddrIn(c, ranges) \/ HostIn(c, merged)) =>
           Clear(s3, c)
  <2> HIDE DEF s2
  <2>1. Continues(S, s2, s3, r3, merged # {}, c)
    BY <1>4, <1>6, OneMore
  <2> HIDE DEF s3
  <2> QED BY <1>2, <1>3, <1>6, <2>1 DEF Continues
<1>8. /\ s4 \in Seq(S)
      /\ AddrIn(c, PrivateWords) \/ AddrIn(c, ranges) \/ HostIn(c, merged) =>
           Route(s4, c) = "direct"
      /\ ~(AddrIn(c, PrivateWords) \/ AddrIn(c, ranges) \/ HostIn(c, merged)) =>
           Route(s4, c) = IF HostIn(c, proxied) THEN tag ELSE "default"
  <2> HIDE DEF s3
  <2>1. Continues(S, s3, s4, r4, ptraffic_ # {}, c)
    BY <1>4, <1>7, OneMore
  <2> HIDE DEF s4
  <2> QED BY <1>2, <1>3, <1>7, <2>1, NoMatch DEF Continues
<1> QED BY <1>1, <1>8 DEF merged, ranges, proxied

-----------------------------------------------------------------------------
(***************************************************************************)
(* The types.                                                              *)
(***************************************************************************)
Prefixed == {p \in Patterns : p.kind # "bare"}

\* What is normalised has a prefix.
LEMMA NormalizedIsPrefixed ==
  ASSUME NEW list \in SUBSET Patterns
  PROVE  Normalized(list) \in SUBSET Prefixed
<1>1. ASSUME NEW p \in Patterns PROVE NormalizeEntry(p) \in Prefixed
  <2>1. CASE p.kind = "bare"
    <3>1. "domain" \in Kinds /\ "domain" # "bare"
      BY DEF Kinds
    <3> QED BY <2>1, <3>1 DEF NormalizeEntry, Patterns, Prefixed
  <2>2. CASE p.kind # "bare"
    BY <2>2 DEF NormalizeEntry, Prefixed
  <2> QED BY <2>1, <2>2
<1> QED BY <1>1 DEF Normalized

\* What is harvested are patterns and ranges.
LEMMA HarvestedType ==
  ASSUME entry \in SUBSET RawRules
  PROVE  SubsDirect.domains \in SUBSET Patterns /\ SubsDirect.ips \in SUBSET Ranges
<1>1. CASE ~merge_subs
  BY <1>1 DEF SubsDirect, SubsDirectSlices, Nothing
<1>2. CASE merge_subs
  <2>1. \A raw \in entry : raw.domains \in SUBSET Patterns /\ raw.ips \in SUBSET Ranges
    BY DEF RawRules
  <2> QED BY <1>2, <2>1 DEF SubsDirect, SubsDirectSlices, HarvestDirectRules
<1> QED BY <1>1, <1>2

\* The tag of a server's outbound is never that of corvex's own outbounds.
LEMMA TagType ==
  ASSUME name \in Names
  PROVE  /\ ProxyTag(name) \in (Names \ {""}) \cup {"proxy", "direct"}
         /\ ProxyTag(name) # "direct"
  BY RoutingAssumption DEF ProxyTag, RoutingAssumption

\* A sequence stays one of its kind when a rule is appended, or nothing.
LEMMA AppendType ==
  ASSUME NEW S, NEW s \in Seq(S), NEW r \in S, NEW b \in BOOLEAN
  PROVE  s \o If(b, r) \in Seq(S)
  BY OneMore DEF Continues

\* The empty sequence is of every kind.
LEMMA EmptyType == ASSUME NEW S PROVE <<>> \in Seq(S)
  OBVIOUS

\* The first rule alone.
LEMMA OneAlone == ASSUME NEW r PROVE <<>> \o If(TRUE, r) = <<r>>
<1>1. <<>> \o <<r>> = <<r>>
  OBVIOUS
<1> QED BY <1>1 DEF If

\* The written rules are those build_routing_rules may append.
LEMMA RulesIn ==
  ASSUME NEW S, NEW ct, NEW pt, NEW domains, NEW ips, NEW tag,
         IpRule("direct", PrivateWords) \in S,
         IpRule("direct", DedupSubsDirectIps(ips)) \in S,
         DomainRule("direct", MergeDirectDomains(ct, domains, pt)) \in S,
         DomainRule(tag, Normalized(pt)) \in S
  PROVE  BuildRoutingRules(ct, pt, tag, domains, ips) \in Seq(S)
<1> DEFINE merged == MergeDirectDomains(ct, domains, pt)
           ranges == DedupSubsDirectIps(ips)
<1> HIDE DEF merged, ranges
<1>3. /\ IpRule("direct", PrivateWords) \in S
      /\ IpRule("direct", ranges) \in S
      /\ DomainRule("direct", merged) \in S
      /\ DomainRule(tag, Normalized(pt)) \in S
  BY DEF merged, ranges
<1>4. <<>> \o If(TRUE, IpRule("direct", PrivateWords)) \in Seq(S)
  BY <1>3, EmptyType, AppendType
<1>5. <<>> \o If(TRUE, IpRule("direct", PrivateWords))
        \o If(ranges # {}, IpRule("direct", ranges)) \in Seq(S)
  BY <1>3, <1>4, AppendType
<1>6. <<>> \o If(TRUE, IpRule("direct", PrivateWords))
        \o If(ranges # {}, IpRule("direct", ranges))
        \o If(merged # {}, DomainRule("direct", merged)) \in Seq(S)
  BY <1>3, <1>5, AppendType
<1>7. <<>> \o If(TRUE, IpRule("direct", PrivateWords))
        \o If(ranges # {}, IpRule("direct", ranges))
        \o If(merged # {}, DomainRule("direct", merged))
        \o If(pt # {}, DomainRule(tag, Normalized(pt))) \in Seq(S)
  BY <1>3, <1>6, AppendType
<1>8. <<>> \o If(TRUE, IpRule("direct", PrivateWords))
        = <<IpRule("direct", PrivateWords)>>
  BY OneAlone
<1> QED BY <1>7, <1>8 DEF BuildRoutingRules, merged, ranges

\* The written rules are rules xray understands.
LEMMA RulesType ==
  ASSUME NEW ct \in SUBSET Patterns, NEW pt \in SUBSET Patterns,
         NEW domains \in SUBSET Patterns, NEW ips \in SUBSET Ranges,
         NEW tags, NEW tag \in tags, "direct" \in tags
  PROVE  BuildRoutingRules(ct, pt, tag, domains, ips)
           \in Seq([outbound : tags, domains : SUBSET Prefixed, ips : SUBSET Words])
<1> DEFINE merged == MergeDirectDomains(ct, domains, pt)
           ranges == DedupSubsDirectIps(ips)
           S == [outbound : tags, domains : SUBSET Prefixed, ips : SUBSET Words]
<1>1. /\ merged \in SUBSET Prefixed
      /\ Normalized(pt) \in SUBSET Prefixed
  BY NormalizedIsPrefixed DEF MergeDirectDomains
<1>2. ranges \in SUBSET Words
  BY DEF DedupSubsDirectIps, Ranges
<1>3. /\ IpRule("direct", PrivateWords) \in S
      /\ IpRule("direct", ranges) \in S
      /\ DomainRule("direct", merged) \in S
      /\ DomainRule(tag, Normalized(pt)) \in S
  <2> HIDE DEF merged, ranges
  <2> QED BY <1>1, <1>2, RulesAssumption DEF IpRule, DomainRule
<1> HIDE DEF S
<1>4. BuildRoutingRules(ct, pt, tag, domains, ips) \in Seq(S)
  BY <1>3, RulesIn DEF merged, ranges
<1> QED BY <1>4 DEF S

\* The settings keep their types, and what is written are rules.
THEOREM TypeCorrect == Spec => []TypeOK
<1>1. Init => TypeOK
  <2>1. <<>> \in Seq(Rules)
    OBVIOUS
  <2> QED BY <2>1, RoutingAssumption DEF Init, TypeOK, RoutingAssumption
<1>2. TypeOK /\ [Next]_vars => TypeOK'
  <2> SUFFICES ASSUME TypeOK, [Next]_vars PROVE TypeOK'
    OBVIOUS
  <2>1. CASE StartEntry
    <3> DEFINE tags == (Names \ {""}) \cup {"proxy", "direct"}
    <3>1. rules' \in Seq(Rules)
      <4>1. Rules = [outbound : tags, domains : SUBSET Prefixed, ips : SUBSET Words]
        BY DEF Rules, Prefixed
      <4>2. ProxyTag(name) \in tags /\ "direct" \in tags
        BY TagType DEF TypeOK
      <4> HIDE DEF tags
      <4> QED BY <2>1, <4>1, <4>2, RulesType, HarvestedType DEF StartEntry, TypeOK
    <3> QED BY <2>1, <3>1 DEF StartEntry, TypeOK
  <2>2. CASE Stop
    <3>1. <<>> \in Seq(Rules)
      OBVIOUS
    <3> QED BY <2>2, <3>1 DEF Stop, TypeOK
  <2>3. CASE UNCHANGED vars
    BY <2>3 DEF vars, TypeOK
  <2> QED BY <2>1, <2>2, <2>3 DEF Next
<1> QED BY <1>1, <1>2, PTL DEF Spec

-----------------------------------------------------------------------------
(***************************************************************************)
(* The state machine: what is written is what the settings say.            *)
(***************************************************************************)
Written ==
  rules # <<>> => rules = BuildRoutingRules(ctraffic, ptraffic, ProxyTag(name),
                                            SubsDirect.domains, SubsDirect.ips)

\* The written rules are those of the settings they were written for: start
\* writes them whole, and nothing is edited while they are in force.
THEOREM WrittenAlways == Spec => []Written
<1>1. Init => Written
  BY DEF Init, Written
<1>2. Written /\ [Next]_vars => Written'
  <2> SUFFICES ASSUME Written, [Next]_vars PROVE Written'
    OBVIOUS
  <2>1. CASE StartEntry
    <3>1. SubsDirect' = SubsDirect
      BY <2>1 DEF StartEntry, SubsDirect
    <3>2. rules' = BuildRoutingRules(ctraffic', ptraffic', ProxyTag(name'),
                                     SubsDirect.domains, SubsDirect.ips)
      BY <2>1 DEF StartEntry
    <3> QED BY <3>1, <3>2 DEF Written
  <2>2. CASE Stop
    BY <2>2 DEF Stop, Written
  <2>3. CASE UNCHANGED vars
    <3>1. SubsDirect' = SubsDirect
      BY <2>3 DEF vars, SubsDirect
    <3> QED BY <2>3, <3>1 DEF vars, Written
  <2> QED BY <2>1, <2>2, <2>3 DEF Next
<1> QED BY <1>1, <1>2, PTL DEF Spec

\* What is harvested is in rules for "direct", and nothing unless opted in.
LEMMA HarvestedIsDirect ==
  /\ ~merge_subs => SubsDirect.domains = {} /\ SubsDirect.ips = {}
  /\ \A p \in SubsDirect.domains :
       \E raw \in entry : merge_subs /\ raw.outbound = "direct" /\ p \in raw.domains
  /\ \A range \in SubsDirect.ips :
       \E raw \in entry : merge_subs /\ raw.outbound = "direct" /\ range \in raw.ips
<1>1. CASE ~merge_subs
  BY <1>1 DEF SubsDirect, SubsDirectSlices, Nothing
<1>2. CASE merge_subs
  BY <1>2 DEF SubsDirect, SubsDirectSlices, HarvestDirectRules
<1> QED BY <1>1, <1>2

\* A connection one of two lists covers is covered by both together.
LEMMA HostInUnion ==
  ASSUME NEW c, NEW A, NEW B
  PROVE  HostIn(c, A \cup B) <=> HostIn(c, A) \/ HostIn(c, B)
  BY DEF HostIn

\* The loopback and private networks always leave directly.
THEOREM PrivateAlwaysDirect == Spec => []PrivateDirect
<1>1. Written => PrivateDirect
  <2> SUFFICES ASSUME Written, rules # <<>>, NEW c \in Connections, IsPrivate(c)
               PROVE  Route(rules, c) = "direct"
    BY DEF PrivateDirect
  <2> QED BY RouteOfRules DEF Written, IsPrivate
<1> QED BY <1>1, WrittenAlways, PTL

\* What corporate-traffic names always leaves directly.
THEOREM OwnAlwaysDirect == Spec => []OwnDirect
<1>1. Written => OwnDirect
  <2> SUFFICES ASSUME Written, rules # <<>>, NEW c \in Connections,
                      HostIn(c, Normalized(ctraffic))
               PROVE  Route(rules, c) = "direct"
    BY DEF OwnDirect
  <2>1. HostIn(c, MergeDirectDomains(ctraffic, SubsDirect.domains, ptraffic))
    BY HostInUnion DEF MergeDirectDomains
  <2> QED BY <2>1, RouteOfRules DEF Written
<1> QED BY <1>1, WrittenAlways, PTL

\* A subscription changes no route unless the user opted in, and then only to
\* direct.
THEOREM SubscriptionOnlyWidens == Spec => []SubsOnlyWiden
<1>1. Written => SubsOnlyWiden
  <2> SUFFICES ASSUME Written, rules # <<>>, NEW c \in Connections
               PROVE  \/ Route(rules, c) = Route(Unmerged, c)
                      \/ merge_subs /\ Route(rules, c) = "direct"
    BY DEF SubsOnlyWiden
  <2> DEFINE Covered(domains, ips) ==
        \/ AddrIn(c, PrivateWords)
        \/ AddrIn(c, DedupSubsDirectIps(ips))
        \/ HostIn(c, MergeDirectDomains(ctraffic, domains, ptraffic))
      otherwise == IF HostIn(c, Normalized(ptraffic)) THEN ProxyTag(name) ELSE "default"
  <2>1. /\ Route(rules, c) = IF Covered(SubsDirect.domains, SubsDirect.ips)
                            THEN "direct" ELSE otherwise
        /\ Route(Unmerged, c) = IF Covered({}, {}) THEN "direct" ELSE otherwise
    BY RouteOfRules DEF Written, Unmerged
  <2>2. Covered({}, {}) => Covered(SubsDirect.domains, SubsDirect.ips)
    <3>1. AddrIn(c, DedupSubsDirectIps({})) = FALSE
      BY DEF AddrIn, DedupSubsDirectIps
    <3>2. HostIn(c, MergeDirectDomains(ctraffic, {}, ptraffic)) =>
            HostIn(c, MergeDirectDomains(ctraffic, SubsDirect.domains, ptraffic))
      BY DEF HostIn, MergeDirectDomains, Normalized
    <3> QED BY <3>1, <3>2
  <2>3. ~merge_subs => (Covered(SubsDirect.domains, SubsDirect.ips) <=> Covered({}, {}))
    BY HarvestedIsDirect
  <2> HIDE DEF Covered, otherwise
  <2> QED BY <2>1, <2>2, <2>3
<1> QED BY <1>1, WrittenAlways, PTL

\* Every direct or tunnelled connection is so for a reason in the lists.
THEOREM DirectHasReasonAlways == Spec => []DirectHasReason
<1>1. Written /\ TypeOK => DirectHasReason
  <2> SUFFICES ASSUME Written, TypeOK, rules # <<>>, NEW c \in Connections
               PROVE
      /\ Route(rules, c) \notin {"direct", "default"} =>
           HostIn(c, Normalized(ptraffic)) /\ Route(rules, c) = ProxyTag(name)
      /\ Route(rules, c) = "direct" =>
           \/ IsPrivate(c) \/ HostIn(c, Normalized(ctraffic))
           \/ \E raw \in entry :
                /\ merge_subs /\ raw.outbound = "direct"
                /\ \/ AddrIn(c, {range.word : range \in raw.ips})
                   \/ HostIn(c, Normalized(raw.domains) \ Normalized(ptraffic))
    BY DEF DirectHasReason
  <2>1. CASE AddrIn(c, PrivateWords)
    BY <2>1, RouteOfRules DEF Written, IsPrivate
  <2>2. CASE AddrIn(c, DedupSubsDirectIps(SubsDirect.ips))
    <3>1. PICK range \in SubsDirect.ips : <<range.word, c.addr>> \in Within
      BY <2>2 DEF AddrIn, DedupSubsDirectIps
    <3>2. PICK raw \in entry : merge_subs /\ raw.outbound = "direct" /\ range \in raw.ips
      BY HarvestedIsDirect
    <3>3. AddrIn(c, {r.word : r \in raw.ips})
      BY <3>1, <3>2 DEF AddrIn
    <3>4. Route(rules, c) = "direct"
      BY <2>2, RouteOfRules DEF Written
    <3> QED BY <3>2, <3>3, <3>4
  <2>3. CASE HostIn(c, MergeDirectDomains(ctraffic, SubsDirect.domains, ptraffic))
    <3>1. Route(rules, c) = "direct"
      BY <2>3, RouteOfRules DEF Written
    <3>2. CASE HostIn(c, Normalized(ctraffic))
      BY <3>1, <3>2
    <3>3. CASE HostIn(c, Normalized(SubsDirect.domains) \ Normalized(ptraffic))
      <4>1. PICK p \in SubsDirect.domains :
              /\ NormalizeEntry(p) \notin Normalized(ptraffic)
              /\ <<NormalizeEntry(p).kind, NormalizeEntry(p).word, c.host>> \in Matches
        BY <3>3 DEF HostIn, Normalized
      <4>2. PICK raw \in entry : merge_subs /\ raw.outbound = "direct" /\ p \in raw.domains
        BY HarvestedIsDirect
      <4>3. HostIn(c, Normalized(raw.domains) \ Normalized(ptraffic))
        BY <4>1, <4>2 DEF HostIn, Normalized
      <4> QED BY <3>1, <4>2, <4>3
    <3> QED BY <2>3, <3>2, <3>3, HostInUnion DEF MergeDirectDomains
  <2>4. CASE ~(\/ AddrIn(c, PrivateWords)
               \/ AddrIn(c, DedupSubsDirectIps(SubsDirect.ips))
               \/ HostIn(c, MergeDirectDomains(ctraffic, SubsDirect.domains, ptraffic)))
    <3>1. Route(rules, c) = IF HostIn(c, Normalized(ptraffic)) THEN ProxyTag(name)
                            ELSE "default"
      BY <2>4, RouteOfRules DEF Written
    <3>2. CASE HostIn(c, Normalized(ptraffic))
      <4>1. Route(rules, c) = ProxyTag(name)
        BY <3>1, <3>2
      <4>2. ProxyTag(name) # "direct"
        BY TagType DEF TypeOK
      <4> QED BY <3>2, <4>1, <4>2
    <3>3. CASE ~HostIn(c, Normalized(ptraffic))
      BY <3>1, <3>3
    <3> QED BY <3>2, <3>3
  <2> QED BY <2>1, <2>2, <2>3, <2>4
<1> QED BY <1>1, WrittenAlways, TypeCorrect, PTL

\* Connections go where corvex.json and, if it was let in, the subscription ask.
THEOREM RoutesCorrect == Spec => []RoutesAsAsked
BY TypeCorrect, PrivateAlwaysDirect, OwnAlwaysDirect, SubscriptionOnlyWidens,
   DirectHasReasonAlways, PTL DEF RoutesAsAsked

-----------------------------------------------------------------------------
(***************************************************************************)
(* config.json.  What its readers and writers rely on is said of the file  *)
(* at each step of a start.                                                *)
(***************************************************************************)
Readable(f) == f \notin {None, Broken}

\* corvex's own outbounds: "direct" is always there, and where the user has
\* added no proxy there is at most one outbound before the two.
OwnThere(f) ==
  /\ \E i \in DOMAIN f.outbounds :
       f.outbounds[i].tag = "direct" /\ f.outbounds[i].protocol = "freedom"
  /\ ~f.mixed => \/ f.outbounds = File!OwnOutbounds
                 \/ /\ Len(f.outbounds) = 3
                    /\ f.outbounds[2] = File!OwnOutbounds[1]
                    /\ f.outbounds[3] = File!OwnOutbounds[2]

\* The chosen server has its outbound, which comes first where there is one proxy.
Sends(f, choice) ==
  /\ \E i \in DOMAIN f.outbounds : f.outbounds[i] = File!ChosenOutbound(choice)
  /\ ~f.mixed => f.outbounds[1] = File!ChosenOutbound(choice)

\* The start does not update the file it found: a write of it failed, there was
\* none to update, or the engine is AmneziaWG's.
NoUpdate ==
  \/ faulted
  \/ ~Readable(before)
  \/ start.choice.mode = "awg"
  \/ File!Replaceable(before.outbounds, start.choice.protocol) = {}

\* What the user had in the file is in it still.
Saves(f) ==
  /\ Len(f.outbounds) = Len(before.outbounds)
  /\ \A i \in DOMAIN before.outbounds :
       \/ f.outbounds[i] = before.outbounds[i]
       \/ i = File!Replaced(before.outbounds, start.choice.protocol)
  /\ Len(f.inbounds) = Len(before.inbounds)
  /\ \A s \in before.servers :
       s \in f.servers \/ \E m \in start.mappings : m[2] = s.address

DnsWritten(f) ==
  /\ f.corporate = IF start.mappings = {} THEN Nil ELSE {m[1] : m \in start.mappings}
  /\ \A m \in start.mappings : File!Corporate(m) \in f.servers

\* The start updates a file that has no inbound, or a part that is no object.
Flawed ==
  /\ Readable(before) /\ start.choice.mode = "xray"
  /\ File!Replaceable(before.outbounds, start.choice.protocol) # {}
  /\ before.scalars # {} \/ before.inbounds = <<>>

\* Only what was flawed before is flawed.
Whole(f) == (f.scalars = {} /\ f.inbounds # <<>>) \/ Flawed

FileInv ==
  /\ File!TypeOK
  /\ Readable(file) => OwnThere(file)
  /\ Readable(before) => OwnThere(before)
  /\ filePc = "write" => file = before
  /\ filePc = "create" => NoUpdate
  /\ filePc \in {"rules", "dns", "port", "spawn", "up"} =>
       /\ Sends(file, start.choice)
       /\ file.log = start.log
       /\ NoUpdate \/ Saves(file)
  /\ filePc \in {"dns", "port", "spawn", "up"} => file.rules = File!RulesFor(start.choice)
  /\ filePc = "dns" => file.corporate = Nil
  /\ filePc \in {"port", "spawn", "up"} => DnsWritten(file)
  /\ filePc \in {"rules", "dns", "port", "spawn"} => Whole(file)
  /\ filePc \in {"spawn", "up"} => file.inbounds # <<>> /\ file.inbounds[1] = start.port
  /\ filePc = "up" => File!XrayAccepts
  /\ File!FailsForAReason

\* A set of naturals has a least member.
LEMMA LeastOf == ASSUME NEW T, T \subseteq Nat, T # {} PROVE \E x \in T : \A y \in T : x <= y
<1>1. \E x \in T : \A y \in T : <<y, x>> \notin OpToRel(<, Nat)
  BY NatLessThanWellFounded, WFMin
<1>2. PICK x \in T : \A y \in T : <<y, x>> \notin OpToRel(<, Nat)
  BY <1>1
<1>3. ASSUME NEW y \in T PROVE x <= y
  <2>1. <<y, x>> \notin {pair \in Nat \X Nat : pair[1] < pair[2]}
    BY <1>2 DEF OpToRel
  <2> QED BY <2>1
<1> QED BY <1>2, <1>3

\* One element of a sequence is replaced.
LEMMA OneReplaced ==
  ASSUME NEW S, NEW s \in Seq(S), NEW i \in DOMAIN s, NEW x \in S,
         NEW t, t = [s EXCEPT ![i] = x]
  PROVE  /\ t \in Seq(S) /\ Len(t) = Len(s) /\ DOMAIN t = DOMAIN s
         /\ t[i] = x
         /\ \A j \in DOMAIN s : j # i => t[j] = s[j]
  OBVIOUS

\* One element is appended to a sequence.
LEMMA OneAppended ==
  ASSUME NEW S, NEW s \in Seq(S), NEW x \in S, NEW t, t = Append(s, x)
  PROVE  /\ t \in Seq(S) /\ Len(t) = Len(s) + 1
         /\ \A j \in DOMAIN s : j \in DOMAIN t /\ t[j] = s[j]
  OBVIOUS

\* A sequence of two outbounds.
LEMMA Two ==
  ASSUME NEW S, NEW x \in S, NEW y \in S, NEW t, t = <<x, y>>
  PROVE  /\ t \in Seq(S) /\ Len(t) = 2 /\ DOMAIN t = 1..2 /\ t[1] = x /\ t[2] = y
  OBVIOUS

\* What joining two sequences gives.
LEMMA Joined ==
  ASSUME NEW S, NEW s \in Seq(S), NEW t \in Seq(S)
  PROVE  /\ s \o t \in Seq(S) /\ Len(s \o t) = Len(s) + Len(t)
         /\ \A i \in 1..Len(s) : (s \o t)[i] = s[i]
         /\ \A i \in 1..Len(t) : (s \o t)[Len(s) + i] = t[i]
  OBVIOUS

\* Two outbounds after another are three.
LEMMA Before ==
  ASSUME NEW S, NEW o \in S, NEW s \in Seq(S), Len(s) = 2, NEW t, t = <<o>> \o s
  PROVE  /\ t \in Seq(S) /\ Len(t) = 3 /\ DOMAIN t = 1..3
         /\ t[1] = o /\ t[2] = s[1] /\ t[3] = s[2]
<1>1. <<o>> \in Seq(S) /\ Len(<<o>>) = 1 /\ <<o>>[1] = o
  OBVIOUS
<1> DEFINE h == <<o>>
<1> HIDE DEF h
<1>0. /\ h \in Seq(S) /\ Len(h) = 1 /\ h[1] = o
      /\ t = h \o s
  BY <1>1 DEF h
<1>2. /\ t \in Seq(S) /\ Len(t) = 3
      /\ t[1] = h[1]
      /\ \A i \in 1..2 : t[1 + i] = s[i]
  BY <1>0, Joined
<1>3. DOMAIN t = 1..3
  BY <1>2
<1>4. t[1] = o /\ t[1 + 1] = s[1] /\ t[1 + 2] = s[2]
  BY <1>0, <1>2
<1> QED BY <1>2, <1>3, <1>4

\* corvex's own outbounds, and the one of the chosen server, are outbounds.
LEMMA OwnAre ==
  LET own == File!OwnOutbounds
  IN  /\ own \in Seq(File!Outbounds) /\ Len(own) = 2 /\ DOMAIN own = 1..2
      /\ own[1].tag = "direct" /\ own[1].protocol = "freedom"
      /\ own[2].protocol = "blackhole"
<1> DEFINE x == File!Outbound("freedom", "direct", Nil)
           y == File!Outbound("blackhole", "block", Nil)
<1>1. /\ x \in File!Outbounds /\ y \in File!Outbounds
      /\ x.tag = "direct" /\ x.protocol = "freedom" /\ y.protocol = "blackhole"
  BY DEF File!Outbound, File!Outbounds, File!Texts
<1>2. File!OwnOutbounds = <<x, y>>
  BY DEF File!OwnOutbounds
<1> HIDE DEF x, y
<1> QED BY <1>1, <1>2, Two

\* The outbound of a server carries its tag.
LEMMA ChosenIs ==
  ASSUME NEW choice \in Choices
  PROVE  /\ File!ChosenOutbound(choice) \in File!Outbounds
         /\ File!ChosenOutbound(choice).tag = File!TagOf(choice)
         /\ File!ChosenOutbound(choice).server = choice
         /\ File!TagOf(choice) \in File!Texts
<1>1. /\ choice.protocol \in File!Texts /\ choice.name \in File!Texts
  BY FileAssumption DEF File!FileAssumption
<1>2. File!TagOf(choice) \in File!Texts
  BY <1>1 DEF File!TagOf, File!ProxyTag, File!Texts
<1> QED BY <1>1, <1>2 DEF File!ChosenOutbound, File!Outbound, File!Outbounds

\* The instance writes the rules of build_routing_rules.
LEMMA SameRules ==
  ASSUME NEW ct, NEW pt, NEW tag, NEW domains, NEW ips
  PROVE  File!BuildRoutingRules(ct, pt, tag, domains, ips)
           = BuildRoutingRules(ct, pt, tag, domains, ips)
  BY DEF BuildRoutingRules, File!BuildRoutingRules, If, File!If, IpRule, File!IpRule,
         DomainRule, File!DomainRule, MergeDirectDomains, File!MergeDirectDomains,
         DedupSubsDirectIps, File!DedupSubsDirectIps, Normalized, File!Normalized,
         NormalizeEntry, File!NormalizeEntry, PrivateWords, File!PrivateWords

\* The rules for a server are rules, and send to it or out directly.
LEMMA RulesForIs ==
  ASSUME NEW choice \in Choices
  PROVE  /\ File!RulesFor(choice) \in Seq(File!AnyRules)
         /\ \A i \in DOMAIN File!RulesFor(choice) :
              File!RulesFor(choice)[i].outbound \in {"direct", File!TagOf(choice)}
<1> DEFINE tag == File!TagOf(choice)
           S == [outbound : {"direct", tag}, domains : SUBSET Prefixed, ips : SUBSET Words]
<1>1. Ctraffic \in SUBSET Patterns /\ Ptraffic \in SUBSET Patterns
  <2>1. File!Patterns = Patterns
    BY DEF File!Patterns, Patterns, File!Kinds, Kinds
  <2> QED BY <2>1, FileAssumption DEF File!FileAssumption
<1>2. tag \in File!Texts
  BY ChosenIs
<1> HIDE DEF tag
<1>3. File!RulesFor(choice) \in Seq(S)
  <2>1. BuildRoutingRules(Ctraffic, Ptraffic, tag, {}, {}) \in Seq(S)
    BY <1>1, RulesType
  <2> QED BY <2>1, SameRules DEF File!RulesFor, tag
<1>4. S \subseteq File!AnyRules
  <2>1. Prefixed \subseteq File!Patterns
    BY DEF Prefixed, File!Patterns, Patterns, File!Kinds, Kinds
  <2>2. {"direct", tag} \subseteq File!Texts
    BY <1>2 DEF File!Texts
  <2> QED BY <2>1, <2>2 DEF File!AnyRules
<1>5. \A r \in S : r.outbound \in {"direct", tag}
  OBVIOUS
<1> HIDE DEF S
<1> QED BY <1>3, <1>4, <1>5 DEF tag

\* The outbound that is replaced is one of those that may be, and none of xray's own.
LEMMA ReplacedIs ==
  ASSUME NEW outbounds \in Seq(File!Outbounds), NEW choice \in Choices, choice.mode = "xray",
         File!Replaceable(outbounds, choice.protocol) # {}
  PROVE  /\ File!Replaced(outbounds, choice.protocol) \in DOMAIN outbounds
         /\ outbounds[File!Replaced(outbounds, choice.protocol)].protocol
              \notin {"freedom", "blackhole", "dns"}
<1> DEFINE T == File!Replaceable(outbounds, choice.protocol)
<1>1. choice.protocol \notin {"freedom", "blackhole", "dns"}
  BY FileAssumption DEF File!FileAssumption
<1>2. \A i \in T : i \in DOMAIN outbounds
                   /\ outbounds[i].protocol \notin {"freedom", "blackhole", "dns"}
  BY <1>1 DEF File!Replaceable
<1>3. T \subseteq Nat
  BY <1>2
<1> HIDE DEF T
<1>4. File!Replaced(outbounds, choice.protocol) = CHOOSE i \in T : \A j \in T : i <= j
  BY DEF File!Replaced, T
<1>5. File!Replaced(outbounds, choice.protocol) \in T
  BY <1>3, <1>4, LeastOf DEF T
<1> QED BY <1>2, <1>5

\* What is a file is there and is JSON.
LEMMA FilesReadable == \A f \in File!Files : Readable(f)
  BY FileAssumption DEF File!FileAssumption, Readable

\* What apply_to_config writes: the outbound of the chosen server in the place
\* of one of a proxy, which is the first one where there is no other.
LEMMA AppliedIs ==
  ASSUME file \in File!Files, OwnThere(file),
         NEW choice \in Choices, choice.mode = "xray", start.log \in Logs,
         File!Replaceable(file.outbounds, choice.protocol) # {}
  PROVE  LET g == File!Applied(choice)
             i == File!Replaced(file.outbounds, choice.protocol)
         IN  /\ g \in File!Files /\ g.log = start.log
             /\ g.servers = file.servers /\ g.inbounds = file.inbounds
             /\ g.scalars = file.scalars
             /\ Len(g.outbounds) = Len(file.outbounds)
             /\ \A j \in DOMAIN file.outbounds : j # i => g.outbounds[j] = file.outbounds[j]
             /\ OwnThere(g) /\ Sends(g, choice)
<1> DEFINE i == File!Replaced(file.outbounds, choice.protocol)
           x == File!ChosenOutbound(choice)
           s == file.outbounds
           t == [s EXCEPT ![i] = x]
           g == [file EXCEPT !.outbounds = t, !.log = start.log]
           own == File!OwnOutbounds
<1>1. /\ s \in Seq(File!Outbounds) /\ x \in File!Outbounds
      /\ start.log \in Logs
  BY ChosenIs DEF File!Files
<1>2. /\ i \in DOMAIN s
      /\ s[i].protocol \notin {"freedom", "blackhole", "dns"}
  BY <1>1, ReplacedIs
<1>3. File!Applied(choice) = g
  BY DEF File!Applied, File!Files
<1> HIDE DEF i, x, t, own
<1>4. /\ t \in Seq(File!Outbounds) /\ Len(t) = Len(s) /\ DOMAIN t = DOMAIN s
      /\ t[i] = x
      /\ \A j \in DOMAIN s : j # i => t[j] = s[j]
  BY <1>1, <1>2, OneReplaced DEF t
<1>5. /\ g \in File!Files /\ g.log = start.log
      /\ g.servers = file.servers /\ g.inbounds = file.inbounds
      /\ g.scalars = file.scalars
      /\ g.outbounds = t /\ g.mixed = file.mixed
  <2>1. g \in File!Files
    BY <1>1, <1>4 DEF File!Files
  <2> QED BY <2>1 DEF File!Files
<1>6. \E d \in DOMAIN t : t[d].tag = "direct" /\ t[d].protocol = "freedom"
  <2>1. PICK d \in DOMAIN s : s[d].tag = "direct" /\ s[d].protocol = "freedom"
    BY DEF OwnThere
  <2>2. d # i
    BY <1>2, <2>1
  <2> QED BY <1>4, <2>1, <2>2
<1>7. ASSUME ~file.mixed
      PROVE  Len(t) = 3 /\ t[1] = x /\ t[2] = own[1] /\ t[3] = own[2]
  <2>1. /\ own[1].protocol = "freedom" /\ own[2].protocol = "blackhole"
        /\ DOMAIN own = 1..2
    BY OwnAre DEF own
  <2>2. s # own
    BY <1>2, <2>1
  <2>3. Len(s) = 3 /\ s[2] = own[1] /\ s[3] = own[2]
    BY <1>7, <2>2 DEF OwnThere, own
  <2>4. DOMAIN s = 1..3
    BY <1>1, <2>3
  <2>5. i # 2 /\ i # 3
    BY <1>2, <2>1, <2>3
  <2>6. i = 1
    BY <1>2, <2>4, <2>5
  <2> QED BY <1>4, <2>3, <2>4, <2>6
<1> HIDE DEF g
<1>8. OwnThere(g)
  BY <1>5, <1>6, <1>7 DEF OwnThere, own
<1>9. Sends(g, choice)
  BY <1>2, <1>4, <1>5, <1>7 DEF Sends, x
<1> QED BY <1>3, <1>4, <1>5, <1>8, <1>9 DEF i

\* What create_config writes.
LEMMA CreatedIs ==
  ASSUME start \in File!Starts
  PROVE  LET g == File!Created
         IN  /\ g \in File!Files /\ g.log = start.log /\ g.inbounds = <<start.port>>
             /\ g.scalars = {}
             /\ g.rules = File!RulesFor(start.choice) /\ g.corporate = Nil
             /\ OwnThere(g) /\ Sends(g, start.choice)
<1> DEFINE x == File!ChosenOutbound(start.choice)
           own == File!OwnOutbounds
           t == <<x>> \o own
           g == [log |-> start.log, servers |-> {File!PublicDns}, inbounds |-> <<start.port>>,
                 outbounds |-> t, rules |-> File!RulesFor(start.choice), corporate |-> Nil,
                 scalars |-> {}, mixed |-> FALSE]
<1>1. start.choice \in Choices /\ start.port \in Nat /\ start.log \in Logs
  BY FileAssumption DEF File!FileAssumption, File!Starts
<1>2. File!Created = g
  BY DEF File!Created
<1>3. x \in File!Outbounds
  BY <1>1, ChosenIs
<1>4. /\ own \in Seq(File!Outbounds) /\ Len(own) = 2
      /\ own[1].tag = "direct" /\ own[1].protocol = "freedom"
  BY OwnAre
<1>x. t = <<x>> \o own
  OBVIOUS
<1> HIDE DEF x, own, t
<1>5. /\ t \in Seq(File!Outbounds) /\ Len(t) = 3 /\ DOMAIN t = 1..3
      /\ t[1] = x /\ t[2] = own[1] /\ t[3] = own[2]
  BY <1>3, <1>4, <1>x, Before
<1>6. g \in File!Files
  <2>1. {File!PublicDns} \in SUBSET File!DnsServers
    BY DEF File!PublicDns, File!DnsServers, File!Texts
  <2>2. <<start.port>> \in Seq(Nat)
    BY <1>1
  <2>3. File!RulesFor(start.choice) \in Seq(File!AnyRules)
    BY <1>1, RulesForIs
  <2> QED BY <1>1, <1>5, <2>1, <2>2, <2>3 DEF File!Files
<1>7. OwnThere(g)
  BY <1>4, <1>5 DEF OwnThere, own
<1>8. Sends(g, start.choice)
  BY <1>5 DEF Sends, x
<1> QED BY <1>2, <1>6, <1>7, <1>8

\* What sync_to_config writes.
LEMMA SyncedIs ==
  ASSUME file \in File!Files, start \in File!Starts, start.mappings # {}
  PROVE  LET g == File!Synced(start.mappings)
         IN  /\ g \in File!Files /\ g.log = file.log /\ g.inbounds = file.inbounds
             /\ g.outbounds = file.outbounds /\ g.rules = file.rules /\ g.mixed = file.mixed
             /\ g.scalars = file.scalars
             /\ DnsWritten(g)
             /\ \A s \in file.servers :
                  s \in g.servers \/ \E m \in start.mappings : m[2] = s.address
<1> DEFINE found == start.mappings
           servers == {File!Corporate(m) : m \in found} \cup
                      {s \in file.servers : s.domain = Nil \/ \A m \in found : m[2] # s.address}
           domains == {m[1] : m \in found}
           g == [file EXCEPT !.servers = servers, !.corporate = domains]
<1>1. \A m \in found : m[1] \in Words /\ m[2] \in File!Texts
  BY FileAssumption DEF File!FileAssumption, File!Starts
<1>2. servers \in SUBSET File!DnsServers /\ domains \in SUBSET Words
  <2>1. \A m \in found : File!Corporate(m) \in File!DnsServers
    BY <1>1 DEF File!Corporate, File!DnsServers
  <2>2. file.servers \in SUBSET File!DnsServers
    BY DEF File!Files
  <2> QED BY <1>1, <2>1, <2>2
<1>3. File!Synced(found) = g
  BY DEF File!Synced, File!Files
<1>4. /\ \A m \in found : File!Corporate(m) \in servers
      /\ \A s \in file.servers : s \in servers \/ \E m \in found : m[2] = s.address
  OBVIOUS
<1>5. domains = {m[1] : m \in start.mappings}
  OBVIOUS
<1> HIDE DEF servers, domains
<1>6. /\ g \in File!Files /\ g.log = file.log /\ g.inbounds = file.inbounds
      /\ g.outbounds = file.outbounds /\ g.rules = file.rules /\ g.mixed = file.mixed
      /\ g.servers = servers /\ g.corporate = domains /\ g.scalars = file.scalars
  BY <1>2 DEF File!Files
<1> HIDE DEF g
<1> QED BY <1>3, <1>4, <1>5, <1>6 DEF DnsWritten

-----------------------------------------------------------------------------
(***************************************************************************)
(* Every step keeps the invariant of the file.                             *)
(***************************************************************************)
\* Where there is no start there is nothing to write.
LEMMA FileInit == File!Init => FileInv
<1>1. File!Init => File!TypeOK
  <2> SUFFICES ASSUME File!Init PROVE File!TypeOK
    OBVIOUS
  <2>1. 0 \in 0..MaxEdits /\ 0 \in 0..MaxFaults
    BY FileAssumption DEF File!FileAssumption
  <2>2. start \in IF filePc = "idle" THEN {File!NoStart} ELSE File!Starts
    BY DEF File!Init
  <2> QED BY <2>1, <2>2 DEF File!Init, File!TypeOK, File!Steps
<1> QED BY <1>1 DEF File!Init, FileInv, File!FailsForAReason, Readable

\* A step that writes nothing and leaves the start as it was.
LEMMA FileStutter == FileInv /\ UNCHANGED fileVars => FileInv'
<1> SUFFICES ASSUME FileInv, UNCHANGED fileVars PROVE FileInv'
  OBVIOUS
<1>1. /\ file' = file /\ filePc' = filePc /\ start' = start /\ before' = before
      /\ faulted' = faulted /\ edits' = edits /\ faults' = faults
  BY DEF fileVars
<1> QED BY <1>1 DEF FileInv, File!TypeOK, NoUpdate, Saves, DnsWritten, Whole, Flawed,
                    File!XrayAccepts, File!TagsDiffer, File!FailsForAReason, Sends, OwnThere, Readable

\* A write that fails leaves no JSON, and either nothing is left to update or
\* the start fails.
LEMMA WriteFails ==
  ASSUME FileInv, filePc # "idle", faults < MaxFaults,
         file' = Broken, filePc' \in {"create", "failed"}, start' = start, before' = before,
         faulted' = TRUE, faults' = faults + 1, edits' = edits
  PROVE  FileInv'
<1>1. File!TypeOK'
  BY FileAssumption DEF FileInv, File!TypeOK, File!Steps, File!FileAssumption
<1>2. ~Readable(file')
  BY DEF Readable
<1>3. Readable(before') => OwnThere(before')
  BY DEF FileInv
<1>4. NoUpdate' /\ File!FailsForAReason'
  BY DEF NoUpdate, File!FailsForAReason
<1> QED BY <1>1, <1>2, <1>3, <1>4 DEF FileInv

\* A start that cannot assign into a part of the file, or whose file xray
\* refuses for it, fails over what was flawed in the file it found.
LEMMA FlawFails ==
  ASSUME FileInv, Flawed, filePc # "idle", filePc' = "failed", UNCHANGED <<file, start, before, faulted, edits, faults>>
  PROVE  FileInv'
<1>1. File!TypeOK'
  BY DEF FileInv, File!TypeOK, File!Steps
<1>2. File!FailsForAReason'
  BY DEF Flawed, File!FailsForAReason, Readable
<1> QED BY <1>1, <1>2 DEF FileInv, Readable, OwnThere

\* A start begins with the file that is there.
LEMMA BeginStep == FileInv /\ File!Begin => FileInv'
<1> SUFFICES ASSUME FileInv, File!Begin PROVE FileInv'
  OBVIOUS
<1>1. start' \in File!Starts
  BY DEF File!Begin, File!Starts
<1>2. /\ before' = file /\ file' = file /\ faulted' = FALSE /\ filePc' = "write"
      /\ edits' = edits /\ faults' = faults
  BY DEF File!Begin
<1>3. File!TypeOK'
  BY <1>1, <1>2 DEF FileInv, File!TypeOK, File!Steps
<1> QED BY <1>2, <1>3 DEF FileInv, File!FailsForAReason, Readable, OwnThere

\* What cannot be updated is created: there is no update then.
LEMMA NotUpdatedStep == FileInv /\ File!NotUpdated => FileInv'
<1> SUFFICES ASSUME FileInv, File!NotUpdated PROVE FileInv'
  OBVIOUS
<1>1. /\ filePc = "write" /\ file = before /\ filePc' = "create"
      /\ file' = file /\ start' = start /\ before' = before /\ faulted' = faulted
      /\ edits' = edits /\ faults' = faults
  BY DEF FileInv, File!NotUpdated
<1>2. NoUpdate'
  BY <1>1 DEF File!NotUpdated, File!Applicable, NoUpdate, Readable
<1>3. File!TypeOK'
  BY <1>1 DEF FileInv, File!TypeOK, File!Steps
<1> QED BY <1>1, <1>2, <1>3 DEF FileInv, File!FailsForAReason, Readable, OwnThere

\* apply_to_config replaces one outbound and the log section.
LEMMA ApplyStep == FileInv /\ File!Apply => FileInv'
<1> SUFFICES ASSUME FileInv, File!Apply PROVE FileInv'
  OBVIOUS
<1>1. /\ filePc = "write" /\ file = before /\ start' = start /\ before' = before
      /\ edits' = edits /\ start.choice.mode = "xray" /\ Readable(file)
      /\ File!Replaceable(file.outbounds, start.choice.protocol) # {}
  BY DEF FileInv, File!Apply, File!Applicable, Readable
<1>2. /\ file \in File!Files /\ OwnThere(file) /\ start \in File!Starts
  BY <1>1 DEF FileInv, File!TypeOK, Readable
<1>3. CASE "log" \in file.scalars
  <2>1. filePc' = "failed" /\ UNCHANGED <<file, faulted, faults>>
    BY <1>3 DEF File!Apply, File!WriteInto
  <2>2. Flawed
    BY <1>1, <1>3 DEF Flawed
  <2> QED BY <1>1, <2>1, <2>2, FlawFails
<1>4. CASE faulted' = TRUE /\ file' = Broken /\ filePc' = "create"
           /\ faults < MaxFaults /\ faults' = faults + 1
  BY <1>1, <1>4, WriteFails
<1>5. CASE /\ file' = File!Applied(start.choice) /\ filePc' = "rules"
           /\ faulted' = faulted /\ faults' = faults
  <2> DEFINE g == File!Applied(start.choice)
             i == File!Replaced(file.outbounds, start.choice.protocol)
  <2>1. /\ g \in File!Files /\ g.log = start.log
        /\ g.servers = file.servers /\ g.inbounds = file.inbounds
        /\ g.scalars = file.scalars
        /\ Len(g.outbounds) = Len(file.outbounds)
        /\ \A j \in DOMAIN file.outbounds : j # i => g.outbounds[j] = file.outbounds[j]
        /\ OwnThere(g) /\ Sends(g, start.choice)
    BY <1>1, <1>2, AppliedIs DEF File!Starts
  <2>2. file' = g
    BY <1>5
  <2> HIDE DEF g
  <2>3. File!TypeOK'
    BY <1>1, <1>2, <1>5, <2>1, <2>2, FilesReadable DEF FileInv, File!TypeOK, File!Steps, Readable
  <2>4. Saves(file)'
    BY <1>1, <2>1, <2>2 DEF Saves
  <2>5. Whole(file)'
    BY <1>1, <2>1, <2>2 DEF Whole, Flawed, Readable
  <2> QED BY <1>1, <1>5, <2>1, <2>2, <2>3, <2>4, <2>5 DEF FileInv, File!FailsForAReason
<1> QED BY <1>3, <1>4, <1>5 DEF File!Apply, File!WriteInto, File!Write

\* update_routing_rules replaces the rules, and leaves the rest as it is.
LEMMA UpdateRoutingRulesStep == FileInv /\ File!UpdateRoutingRules => FileInv'
<1> SUFFICES ASSUME FileInv, File!UpdateRoutingRules PROVE FileInv'
  OBVIOUS
<1>1. /\ filePc = "rules" /\ start' = start /\ before' = before /\ edits' = edits
  BY DEF File!UpdateRoutingRules
<1>2. /\ file \in File!Files /\ OwnThere(file) /\ start \in File!Starts
      /\ Sends(file, start.choice) /\ file.log = start.log /\ (NoUpdate \/ Saves(file))
      /\ Whole(file)
  BY <1>1 DEF FileInv, File!TypeOK, Readable
<1>0. CASE "routing" \in file.scalars
  <2>1. filePc' = "failed" /\ UNCHANGED <<file, faulted, faults>>
    BY <1>0 DEF File!UpdateRoutingRules, File!WriteInto
  <2>2. Flawed
    BY <1>0, <1>2 DEF Whole
  <2> QED BY <1>1, <2>1, <2>2, FlawFails
<1>3. CASE faulted' = TRUE /\ file' = Broken /\ filePc' = "create"
           /\ faults < MaxFaults /\ faults' = faults + 1
  BY <1>1, <1>3, WriteFails
<1>4. CASE /\ file' = [file EXCEPT !.rules = File!RulesFor(start.choice), !.corporate = Nil]
           /\ filePc' = "dns" /\ faulted' = faulted /\ faults' = faults
  <2>1. File!RulesFor(start.choice) \in Seq(File!AnyRules)
    BY <1>2, RulesForIs DEF File!Starts
  <2>2. /\ file' \in File!Files
        /\ file'.outbounds = file.outbounds /\ file'.mixed = file.mixed /\ file'.log = file.log
        /\ file'.scalars = file.scalars /\ file'.inbounds = file.inbounds /\ file'.servers = file.servers
        /\ file'.rules = File!RulesFor(start.choice) /\ file'.corporate = Nil
    BY <1>2, <1>4, <2>1 DEF File!Files
  <2>3. File!TypeOK'
    BY <1>1, <1>2, <1>4, <2>2, FilesReadable DEF FileInv, File!TypeOK, File!Steps, Readable
  <2>4. OwnThere(file)' /\ Sends(file, start.choice)'
    BY <1>1, <1>2, <2>2 DEF OwnThere, Sends
  <2>5. (NoUpdate \/ Saves(file))'
    BY <1>1, <1>2, <1>4, <2>2 DEF NoUpdate, Saves
  <2>6. Whole(file)' /\ (Readable(before) => OwnThere(before))'
    BY <1>1, <1>2, <2>2 DEF FileInv, Whole, Flawed, Readable
  <2> QED BY <1>1, <1>2, <1>4, <2>2, <2>3, <2>4, <2>5, <2>6 DEF FileInv, File!FailsForAReason
<1> QED BY <1>0, <1>3, <1>4 DEF File!UpdateRoutingRules, File!WriteInto, File!Write

\* create_config writes a file of its own.
LEMMA CreateStep == FileInv /\ File!Create => FileInv'
<1> SUFFICES ASSUME FileInv, File!Create PROVE FileInv'
  OBVIOUS
<1>1. /\ filePc \in {"create", "write"} /\ start' = start /\ before' = before /\ edits' = edits
      /\ start \in File!Starts
  BY DEF File!Create, FileInv, File!TypeOK
<1>2. NoUpdate
  BY DEF FileInv, File!Create, NoUpdate
<1>3. CASE faulted' = TRUE /\ file' = Broken /\ filePc' = "failed"
           /\ faults < MaxFaults /\ faults' = faults + 1
  BY <1>1, <1>3, WriteFails
<1>4. CASE /\ file' = File!Created
           /\ filePc' = "dns" /\ faulted' = faulted /\ faults' = faults
  <2>1. /\ file' \in File!Files /\ file'.log = start.log /\ file'.inbounds = <<start.port>>
        /\ file'.scalars = {}
        /\ file'.rules = File!RulesFor(start.choice) /\ file'.corporate = Nil
        /\ OwnThere(file') /\ Sends(file', start.choice)
    BY <1>1, <1>4, CreatedIs
  <2>2. File!TypeOK'
    BY <1>1, <1>4, <2>1, FilesReadable DEF FileInv, File!TypeOK, File!Steps, Readable
  <2>3. NoUpdate'
    BY <1>1, <1>2, <1>4 DEF NoUpdate
  <2>4. Whole(file)'
    <3>1. <<start.port>> # <<>>
      OBVIOUS
    <3> QED BY <2>1, <3>1 DEF Whole
  <2>5. (Readable(before) => OwnThere(before))'
    BY <1>1 DEF FileInv
  <2> QED BY <1>1, <1>4, <2>1, <2>2, <2>3, <2>4, <2>5 DEF FileInv, File!FailsForAReason
<1> QED BY <1>3, <1>4 DEF File!Create, File!Write

\* sync_to_config writes the servers of the mappings and the corporate rule.
LEMMA SyncToConfigStep == FileInv /\ File!SyncToConfig => FileInv'
<1> SUFFICES ASSUME FileInv, File!SyncToConfig PROVE FileInv'
  OBVIOUS
<1>1. /\ filePc = "dns" /\ start' = start /\ before' = before /\ edits' = edits
  BY DEF File!SyncToConfig
<1>2. /\ file \in File!Files /\ OwnThere(file) /\ start \in File!Starts
      /\ Sends(file, start.choice) /\ file.log = start.log /\ (NoUpdate \/ Saves(file))
      /\ file.rules = File!RulesFor(start.choice) /\ file.corporate = Nil
      /\ Whole(file)
  BY <1>1 DEF FileInv, File!TypeOK, Readable
<1>0. CASE "dns" \in file.scalars /\ start.mappings # {}
  <2>1. filePc' = "failed" /\ UNCHANGED <<file, faulted, faults>>
    BY <1>0 DEF File!SyncToConfig, File!WriteInto
  <2>2. Flawed
    BY <1>0, <1>2 DEF Whole
  <2> QED BY <1>1, <2>1, <2>2, FlawFails
<1>3. CASE faulted' = TRUE /\ file' = Broken /\ filePc' = "failed"
           /\ faults < MaxFaults /\ faults' = faults + 1
  BY <1>1, <1>3, WriteFails
<1>4. CASE /\ file' = IF start.mappings = {} THEN file ELSE File!Synced(start.mappings)
           /\ filePc' = "port" /\ faulted' = faulted /\ faults' = faults
  <2>1. /\ file' \in File!Files /\ file'.log = file.log /\ file'.inbounds = file.inbounds
        /\ file'.outbounds = file.outbounds /\ file'.rules = file.rules
        /\ file'.mixed = file.mixed /\ file'.scalars = file.scalars
        /\ DnsWritten(file')
        /\ \A s \in file.servers :
             s \in file'.servers \/ \E m \in start.mappings : m[2] = s.address
    <3>1. CASE start.mappings = {}
      BY <1>2, <1>4, <3>1 DEF DnsWritten
    <3>2. CASE start.mappings # {}
      BY <1>2, <1>4, <3>2, SyncedIs
    <3> QED BY <3>1, <3>2
  <2>2. File!TypeOK'
    BY <1>1, <1>2, <1>4, <2>1, FilesReadable DEF FileInv, File!TypeOK, File!Steps, Readable
  <2>3. OwnThere(file)' /\ Sends(file, start.choice)'
    BY <1>1, <1>2, <2>1 DEF OwnThere, Sends
  <2>4. (NoUpdate \/ Saves(file))'
    <3>1. CASE NoUpdate
      BY <1>1, <1>4, <3>1 DEF NoUpdate
    <3>2. CASE Saves(file)
      BY <1>1, <2>1, <3>2 DEF Saves
    <3> QED BY <1>2, <3>1, <3>2
  <2>5. DnsWritten(file)'
    BY <1>1, <2>1 DEF DnsWritten
  <2>6. Whole(file)' /\ (Readable(before) => OwnThere(before))'
    BY <1>1, <1>2, <2>1 DEF FileInv, Whole, Flawed, Readable
  <2> QED BY <1>1, <1>2, <1>4, <2>1, <2>2, <2>3, <2>4, <2>5, <2>6
          DEF FileInv, File!FailsForAReason
<1> QED BY <1>0, <1>3, <1>4 DEF File!SyncToConfig, File!WriteInto, File!Write

\* update_config_port needs an inbound, and changes the port of the first.
LEMMA UpdateConfigPortStep == FileInv /\ File!UpdateConfigPort => FileInv'
<1> SUFFICES ASSUME FileInv, File!UpdateConfigPort PROVE FileInv'
  OBVIOUS
<1>1. /\ filePc = "port" /\ start' = start /\ before' = before /\ edits' = edits
  BY DEF File!UpdateConfigPort
<1>2. /\ file \in File!Files /\ OwnThere(file) /\ start \in File!Starts
      /\ Sends(file, start.choice) /\ file.log = start.log /\ (NoUpdate \/ Saves(file))
      /\ file.rules = File!RulesFor(start.choice) /\ DnsWritten(file) /\ Whole(file)
      /\ Readable(before) => OwnThere(before)
  BY <1>1 DEF FileInv, File!TypeOK, Readable
<1>0. CASE "inbound" \in file.scalars /\ file.inbounds # <<>>
  <2>1. filePc' = "failed" /\ UNCHANGED <<file, faulted, faults>>
    BY <1>0 DEF File!UpdateConfigPort, File!WriteInto
  <2>2. Flawed
    BY <1>0, <1>2 DEF Whole
  <2> QED BY <1>1, <2>1, <2>2, FlawFails
<1>3. CASE faulted' = TRUE /\ file' = Broken /\ filePc' = "failed"
           /\ faults < MaxFaults /\ faults' = faults + 1
  BY <1>1, <1>3, WriteFails
<1>4. CASE file.inbounds = <<>>
  <2>1. filePc' = "failed" /\ UNCHANGED <<file, faulted, faults>>
    BY <1>4 DEF File!UpdateConfigPort
  <2>2. Flawed
    BY <1>2, <1>4 DEF Whole
  <2> QED BY <1>1, <2>1, <2>2, FlawFails
<1>5. CASE /\ file.inbounds # <<>> /\ file' = [file EXCEPT !.inbounds[1] = start.port]
           /\ filePc' = "spawn" /\ faulted' = faulted /\ faults' = faults
  <2> DEFINE ports == [file.inbounds EXCEPT ![1] = start.port]
  <2>1. file.inbounds \in Seq(Nat) /\ start.port \in Nat /\ 1 \in DOMAIN file.inbounds
    BY <1>2, <1>5, FileAssumption DEF File!Files, File!Starts, File!FileAssumption
  <2>2. file' = [file EXCEPT !.inbounds = ports]
    BY <1>2, <1>5 DEF File!Files
  <2> HIDE DEF ports
  <2>3. ports \in Seq(Nat) /\ Len(ports) = Len(file.inbounds) /\ ports[1] = start.port
        /\ DOMAIN ports = DOMAIN file.inbounds
    BY <2>1, OneReplaced DEF ports
  <2>4. /\ file' \in File!Files
        /\ file'.outbounds = file.outbounds /\ file'.mixed = file.mixed /\ file'.log = file.log
        /\ file'.scalars = file.scalars /\ file'.inbounds = ports /\ file'.servers = file.servers
        /\ file'.rules = file.rules /\ file'.corporate = file.corporate
    BY <1>2, <2>2, <2>3 DEF File!Files
  <2>5. File!TypeOK'
    BY <1>1, <1>2, <1>5, <2>4, FilesReadable DEF FileInv, File!TypeOK, File!Steps, Readable
  <2>6. OwnThere(file)' /\ Sends(file, start.choice)' /\ DnsWritten(file)'
    BY <1>1, <1>2, <2>4 DEF OwnThere, Sends, DnsWritten
  <2>7. (NoUpdate \/ Saves(file))'
    BY <1>1, <1>2, <1>5, <2>3, <2>4 DEF NoUpdate, Saves
  <2>8. file'.inbounds # <<>> /\ file'.inbounds[1] = start'.port
    BY <1>1, <2>1, <2>3, <2>4
  <2>10. Whole(file)'
    BY <1>1, <1>2, <2>4, <2>8 DEF Whole, Flawed, Readable
  <2>9. (Readable(before) => OwnThere(before))'
    BY <1>1, <1>2
  <2> QED BY <1>1, <1>2, <1>5, <2>4, <2>5, <2>6, <2>7, <2>8, <2>9, <2>10 DEF FileInv, File!FailsForAReason
<1> QED BY <1>0, <1>3, <1>4, <1>5 DEF File!UpdateConfigPort, File!WriteInto, File!Write

\* xray loads the file, or refuses it for its tags or for a part that is no object.
LEMMA SpawnStep == FileInv /\ File!Spawn => FileInv'
<1> SUFFICES ASSUME FileInv, File!Spawn PROVE FileInv'
  OBVIOUS
<1>1. /\ filePc = "spawn" /\ file' = file /\ start' = start /\ before' = before
      /\ faulted' = faulted /\ edits' = edits /\ faults' = faults
      /\ filePc' = IF File!XrayAccepts THEN "up" ELSE "failed"
  BY DEF File!Spawn
<1>2. File!TypeOK'
  BY <1>1 DEF FileInv, File!TypeOK, File!Steps
<1>3. File!XrayAccepts' <=> File!XrayAccepts
  BY <1>1 DEF File!XrayAccepts, File!TagsDiffer
<1>4. Readable(file)
  BY <1>1 DEF FileInv, File!TypeOK, Readable
<1>5. CASE File!XrayAccepts
  BY <1>1, <1>2, <1>3, <1>5
     DEF FileInv, File!FailsForAReason, Readable, OwnThere, Sends, NoUpdate, Saves, DnsWritten
<1>6. CASE ~File!TagsDiffer /\ ~File!XrayAccepts
  <2>1. File!FailsForAReason'
    BY <1>1, <1>4, <1>6 DEF File!FailsForAReason, File!TagsDiffer, Readable
  <2> QED BY <1>1, <1>2, <1>6, <2>1 DEF FileInv, Readable, OwnThere
<1>7. CASE file.scalars # {} /\ ~File!XrayAccepts
  <2>1. Flawed
    BY <1>1, <1>7 DEF FileInv, Whole
  <2> QED BY <1>1, <1>7, <2>1, FlawFails
<1> QED BY <1>5, <1>6, <1>7 DEF File!XrayAccepts

\* corvex is killed: what is there is there, or is no JSON.
LEMMA KilledStep == FileInv /\ File!Killed => FileInv'
<1> SUFFICES ASSUME FileInv, File!Killed PROVE FileInv'
  OBVIOUS
<1>1. /\ filePc' = "idle" /\ start' = File!NoStart /\ before' = None
      /\ file' \in {file, Broken} /\ faults < MaxFaults /\ faults' = faults + 1
      /\ faulted' = faulted /\ edits' = edits
  BY DEF File!Killed
<1>2. File!TypeOK'
  BY <1>1, FileAssumption DEF FileInv, File!TypeOK, File!Steps, File!FileAssumption
<1> QED BY <1>1, <1>2 DEF FileInv, File!FailsForAReason, Readable, OwnThere

\* What the user leaves behind an edit is no file, or one with corvex's outbounds.
LEMMA EditedIs ==
  ASSUME FileInv, File!Edit
  PROVE  file' = None \/ (file' \in File!Files /\ OwnThere(file'))
<1> SUFFICES ASSUME file' # None PROVE file' \in File!Files /\ OwnThere(file')
  OBVIOUS
<1>1. /\ file \in File!Files /\ OwnThere(file)
  BY DEF File!Edit, FileInv, File!TypeOK, Readable
<1>2. PICK edit \in UserEdits :
        file' = CASE edit.kind = "delete" -> None
                  [] edit.kind = "scalar" -> File!Scalar(edit.part)
                  [] edit.kind = "log" -> [file EXCEPT !.log = edit.log, !.scalars = @ \ {"log"}]
                  [] edit.kind = "inbounds" -> [file EXCEPT !.inbounds = edit.ports,
                                                            !.scalars = @ \ {"inbound"}]
                  [] edit.kind = "server" -> [file EXCEPT !.servers = @ \cup {edit.server},
                                                          !.scalars = @ \ {"dns"}]
                  [] edit.kind = "rule" -> [file EXCEPT !.rules = <<edit.rule>> \o @,
                                                        !.scalars = @ \ {"routing"}]
                  [] edit.kind = "append" -> [file EXCEPT !.outbounds = Append(@, edit.outbound),
                                                     !.mixed = TRUE]
                  [] edit.kind = "remove" -> [file EXCEPT !.outbounds = File!OwnOutbounds]
  BY DEF File!Edit
<1>3. edit \in
        [kind : {"delete", "remove"}] \cup [kind : {"log"}, log : Logs \cup {Nil}]
        \cup [kind : {"scalar"}, part : File!Parts]
        \cup [kind : {"inbounds"}, ports : Seq(Nat)]
        \cup [kind : {"server"}, server : File!DnsServers]
        \cup [kind : {"rule"}, rule : File!AnyRules]
        \cup [kind : {"append"}, outbound : [protocol : File!Texts, tag : File!Texts, server : {User}]]
  BY FileAssumption DEF File!FileAssumption
<1>4. CASE edit \in [kind : {"delete"}]
  BY <1>2, <1>4
<1>5. CASE edit \in [kind : {"remove"}]
  <2>1. file' = [file EXCEPT !.outbounds = File!OwnOutbounds]
    BY <1>2, <1>5
  <2>2. file' \in File!Files /\ file'.outbounds = File!OwnOutbounds
    BY <1>1, <2>1, OwnAre DEF File!Files
  <2> QED BY <2>2, OwnAre DEF OwnThere
<1>6. CASE edit \in [kind : {"log"}, log : Logs \cup {Nil}]
  <2>1. file' = [file EXCEPT !.log = edit.log, !.scalars = file.scalars \ {"log"}]
        /\ edit.log \in Logs \cup {Nil}
    BY <1>2, <1>6
  <2> QED BY <1>1, <2>1 DEF File!Files, OwnThere
<1>7. CASE edit \in [kind : {"inbounds"}, ports : Seq(Nat)]
  <2>1. file' = [file EXCEPT !.inbounds = edit.ports, !.scalars = file.scalars \ {"inbound"}]
        /\ edit.ports \in Seq(Nat)
    BY <1>2, <1>7
  <2> QED BY <1>1, <2>1 DEF File!Files, OwnThere
<1>8. CASE edit \in [kind : {"server"}, server : File!DnsServers]
  <2>1. file' = [file EXCEPT !.servers = file.servers \cup {edit.server},
                              !.scalars = file.scalars \ {"dns"}]
        /\ edit.server \in File!DnsServers
    BY <1>2, <1>8
  <2> QED BY <1>1, <2>1 DEF File!Files, OwnThere
<1>9. CASE edit \in [kind : {"rule"}, rule : File!AnyRules]
  <2>1. file' = [file EXCEPT !.rules = <<edit.rule>> \o file.rules,
                              !.scalars = file.scalars \ {"routing"}]
        /\ edit.rule \in File!AnyRules
    BY <1>2, <1>9
  <2>2. <<edit.rule>> \in Seq(File!AnyRules) /\ file.rules \in Seq(File!AnyRules)
    BY <1>1, <2>1 DEF File!Files
  <2>3. <<edit.rule>> \o file.rules \in Seq(File!AnyRules)
    BY <2>2, Joined
  <2> QED BY <1>1, <2>1, <2>3 DEF File!Files, OwnThere
<1>10. CASE edit \in [kind : {"append"},
                      outbound : [protocol : File!Texts, tag : File!Texts, server : {User}]]
  <2>1. /\ file' = [file EXCEPT !.outbounds = Append(file.outbounds, edit.outbound),
                                !.mixed = TRUE]
        /\ edit.outbound \in [protocol : File!Texts, tag : File!Texts, server : {User}]
    BY <1>2, <1>10
  <2>2. edit.outbound \in File!Outbounds /\ file.outbounds \in Seq(File!Outbounds)
    BY <1>1, <2>1 DEF File!Outbounds, File!Files
  <2> DEFINE t == Append(file.outbounds, edit.outbound)
  <2>3. /\ t \in Seq(File!Outbounds)
        /\ \A j \in DOMAIN file.outbounds : j \in DOMAIN t /\ t[j] = file.outbounds[j]
    BY <2>2, OneAppended
  <2>4. file' = [file EXCEPT !.outbounds = t, !.mixed = TRUE]
    BY <2>1
  <2> HIDE DEF t
  <2>5. file' \in File!Files /\ file'.outbounds = t /\ file'.mixed = TRUE
    BY <1>1, <2>3, <2>4 DEF File!Files
  <2> QED BY <1>1, <2>3, <2>5 DEF OwnThere
<1>11. CASE edit \in [kind : {"scalar"}, part : File!Parts]
  <2>1. file' = File!Scalar(edit.part) /\ edit.part \in {"log", "routing", "dns", "inbound"}
    BY <1>2, <1>11 DEF File!Parts
  <2>2. file.scalars \cup {edit.part} \in SUBSET File!Parts
    BY <1>1, <2>1 DEF File!Files, File!Parts
  <2>3. file' \in File!Files /\ file'.outbounds = file.outbounds /\ file'.mixed = file.mixed
    <3>1. CASE edit.part = "log"
      BY <1>1, <2>1, <2>2, <3>1 DEF File!Scalar, File!Files
    <3>2. CASE edit.part = "dns"
      <4>1. file' = [file EXCEPT !.scalars = file.scalars \cup {edit.part}, !.servers = {}]
        BY <2>1, <3>2 DEF File!Scalar
      <4> QED BY <1>1, <2>2, <4>1 DEF File!Files
    <3>3. CASE edit.part = "routing"
      <4>1. file' = [file EXCEPT !.scalars = file.scalars \cup {edit.part}, !.rules = <<>>,
                                 !.corporate = Nil]
        BY <2>1, <3>3 DEF File!Scalar
      <4>2. <<>> \in Seq(File!AnyRules)
        OBVIOUS
      <4> QED BY <1>1, <2>2, <4>1, <4>2 DEF File!Files
    <3>4. CASE edit.part = "inbound"
      <4>1. file' = [file EXCEPT !.scalars = file.scalars \cup {edit.part}]
        BY <2>1, <3>4 DEF File!Scalar
      <4> QED BY <1>1, <2>2, <4>1 DEF File!Files
    <3> QED BY <2>1, <3>1, <3>2, <3>3, <3>4
  <2> QED BY <1>1, <2>3 DEF OwnThere
<1> QED BY <1>3, <1>4, <1>5, <1>6, <1>7, <1>8, <1>9, <1>10, <1>11

\* The user edits the file.
LEMMA EditStep == FileInv /\ File!Edit => FileInv'
<1> SUFFICES ASSUME FileInv, File!Edit PROVE FileInv'
  OBVIOUS
<1>1. /\ filePc' = "idle" /\ start' = File!NoStart /\ before' = None
      /\ faults' = faults /\ edits < MaxEdits /\ edits' = edits + 1 /\ faulted' = faulted
  BY DEF File!Edit
<1>2. File!TypeOK'
  BY <1>1, EditedIs, FileAssumption DEF FileInv, File!TypeOK, File!Steps, File!FileAssumption
<1> QED BY <1>1, <1>2, EditedIs DEF FileInv, File!FailsForAReason, Readable

\* The invariant is inductive.
LEMMA FileInductive == FileInv /\ [File!Next]_(File!vars) => FileInv'
<1> SUFFICES ASSUME FileInv, [File!Next]_(File!vars) PROVE FileInv'
  OBVIOUS
<1>1. CASE UNCHANGED File!vars
  BY <1>1, FileStutter DEF File!vars, fileVars
<1>2. CASE File!Next
  BY <1>2, BeginStep, NotUpdatedStep, ApplyStep, UpdateRoutingRulesStep, CreateStep,
     SyncToConfigStep, UpdateConfigPortStep, SpawnStep, KilledStep, EditStep
     DEF File!Next, File!Work
<1> QED BY <1>1, <1>2

\* The file of a running xray is what the start was asked for.
LEMMA FileHeld ==
  ASSUME FileInv
  PROVE  File!TypeOK /\ File!RulesReach /\ File!NoStaleServer /\ File!AllWritten
         /\ File!FailsForAReason
<1>1. ASSUME filePc = "up"
      PROVE  /\ start.choice \in Choices
             /\ Readable(file) /\ OwnThere(file) /\ Sends(file, start.choice)
             /\ File!XrayAccepts /\ DnsWritten(file)
             /\ file.rules = File!RulesFor(start.choice)
  BY <1>1 DEF FileInv, File!TypeOK, File!Starts, Readable
<1>2. File!RulesReach
  <2> SUFFICES ASSUME filePc = "up"
               PROVE
      /\ \A r \in {file.rules[i] : i \in DOMAIN file.rules} :
           \E i \in DOMAIN file.outbounds : file.outbounds[i].tag = r.outbound
      /\ \A i \in DOMAIN file.outbounds :
           file.outbounds[i].tag = File!TagOf(start.choice) =>
             file.outbounds[i].server = start.choice
    BY DEF File!RulesReach
  <2>1. PICK c \in DOMAIN file.outbounds : file.outbounds[c] = File!ChosenOutbound(start.choice)
    BY <1>1 DEF Sends
  <2>2. /\ file.outbounds[c].tag = File!TagOf(start.choice)
        /\ file.outbounds[c].server = start.choice
    BY <1>1, <2>1, ChosenIs
  <2>3. PICK d \in DOMAIN file.outbounds : file.outbounds[d].tag = "direct"
    BY <1>1 DEF OwnThere
  <2>4. ASSUME NEW k \in DOMAIN file.rules
        PROVE  file.rules[k].outbound \in {"direct", File!TagOf(start.choice)}
    BY <1>1, <2>4, RulesForIs
  <2>5. ASSUME NEW i \in DOMAIN file.outbounds,
               file.outbounds[i].tag = File!TagOf(start.choice)
        PROVE  file.outbounds[i].server = start.choice
    BY <1>1, <2>1, <2>2, <2>5 DEF File!XrayAccepts, File!TagsDiffer
  <2> QED BY <2>2, <2>3, <2>4, <2>5
<1>3. File!NoStaleServer
  BY <1>1, ChosenIs DEF File!NoStaleServer, Sends, FileInv, File!TypeOK, File!Files
<1>4. File!AllWritten
  BY <1>1 DEF FileInv, File!AllWritten, DnsWritten
<1> QED BY <1>2, <1>3, <1>4 DEF FileInv

\* A start that comes up, and did not create the file, has kept the user's part.
LEMMA SavedAtSpawn ==
  ASSUME FileInv, [File!Next]_(File!vars)
  PROVE  filePc' = "up" /\ ~faulted /\ before \notin {None, Broken} =>
           \/ UNCHANGED File!vars
           \/ NoUpdate \/ Saves(file)
<1>1. CASE File!Spawn
  BY <1>1 DEF File!Spawn, FileInv
<1>2. CASE File!Begin \/ File!NotUpdated \/ File!Apply \/ File!UpdateRoutingRules \/ File!Create
           \/ File!SyncToConfig \/ File!UpdateConfigPort \/ File!Killed \/ File!Edit
  BY <1>2 DEF File!Begin, File!NotUpdated, File!Apply, File!UpdateRoutingRules, File!Create,
              File!SyncToConfig, File!UpdateConfigPort, File!Killed, File!Edit,
              File!WriteInto, File!Write
<1> QED BY <1>1, <1>2 DEF File!Next, File!Work

fileAll == <<part, vars, fileVars>>

\* In the composition each of the two is what it is alone.
LEMMA PartsRun == ConfigSpec => Spec /\ File!Spec
<1>1. ConfigInit => Init /\ File!Init
  BY DEF ConfigInit, RoutingRests
<1>2. [ConfigNext]_fileAll => [Next]_vars
  BY DEF ConfigNext, fileAll
<1>3. [ConfigNext]_fileAll => [File!Next]_(File!vars)
  BY DEF ConfigNext, fileAll, fileVars, File!vars
<1> QED BY <1>1, <1>2, <1>3, PTL DEF ConfigSpec, fileAll, Spec, File!Spec

\* Whatever file a start finds, whatever the user does to it between two starts,
\* whichever write fails and wherever corvex is killed (protocol.rs:786,
\* main.rs write_xray_config, dns.rs sync_to_config): the invariant holds.
THEOREM FileAlways == ConfigSpec => []FileInv
<1>1. File!Spec => []FileInv
  BY FileInit, FileInductive, PTL DEF File!Spec
<1> QED BY <1>1, PartsRun, PTL

\* So a running xray has the rules, the server, the port, the log and the DNS
\* servers of this start, a start that updates a file keeps what the user put
\* in it, and one fails only for what it cannot update.
THEOREM FileIsAsAsked == ConfigSpec => FileAsAsked
<1>1. FileInv /\ [File!Next]_(File!vars) =>
        [filePc' = "up" /\ ~faulted /\ before \notin {None, Broken} =>
           \/ start.choice.mode = "awg"
           \/ File!Replaceable(before.outbounds, start.choice.protocol) = {}
           \/ /\ Len(file.outbounds) = Len(before.outbounds)
              /\ \A i \in DOMAIN before.outbounds :
                   \/ file.outbounds[i] = before.outbounds[i]
                   \/ i = File!Replaced(before.outbounds, start.choice.protocol)
              /\ Len(file.inbounds) = Len(before.inbounds)
              /\ \A s \in before.servers :
                   s \in file.servers \/ \E m \in start.mappings : m[2] = s.address]_(File!vars)
  BY SavedAtSpawn DEF NoUpdate, Saves, Readable
<1>2. File!Spec => []FileInv
  BY FileInit, FileInductive, PTL DEF File!Spec
<1>3. File!Spec => File!UserKept
  BY <1>1, <1>2, PTL DEF File!Spec, File!UserKept
<1> QED BY <1>2, <1>3, PartsRun, FileHeld, PTL DEF FileAsAsked

\* The rules and the file they go into, in the specification that the run checks.
THEOREM ConfigIsRight == ConfigSpec => []RoutesAsAsked /\ FileAsAsked
BY PartsRun, RoutesCorrect, FileIsAsAsked, PTL
=============================================================================
