---------------------------- MODULE DnsReportProofs ----------------------------
(***************************************************************************)
(* What `corvex dns` says of a nameserver, whatever the system lists, the  *)
(* kernel routes and the network answers, and however often it is run.     *)
(***************************************************************************)
EXTENDS DnsReport, FiniteSetTheorems, WellFoundedInduction, TLAPS

-----------------------------------------------------------------------------
(***************************************************************************)
(* What is read of an interface and of a route.                            *)
(***************************************************************************)
\* The interface addresses there may be.
Inets == [class : {"v4", "v6"}, bits : SUBSET Bits, length : 0..Width, peer : Addresses \cup {Nil}]

\* What one of them is read as.
Readable(a) == a.class = "v4" /\ (a.peer = Nil \/ platform = "macos")
InetLine(a) == IF platform = "macos" THEN IfconfigInet(InetText(a)) ELSE IpAddrInet(InetText(a))

\* A word that comes once is found with what follows it.
Once(tokens, k, keyword) ==
  /\ k \in DOMAIN tokens /\ tokens[k].text = keyword
  /\ \A j \in DOMAIN tokens : tokens[j].text = keyword => j = k
LEMMA AfterOnce ==
  ASSUME NEW tokens, NEW keyword, NEW k, Once(tokens, k, keyword), k \in Int, k # Len(tokens)
  PROVE  After(tokens, keyword) = tokens[k + 1]
<1>1. Positions(tokens, keyword) = {k}
  BY DEF Once, Positions
<1>2. (CHOOSE i \in Positions(tokens, keyword) : \A j \in Positions(tokens, keyword) : i <= j) = k
  BY <1>1
<1>3. QED
  BY <1>1, <1>2 DEF After

\* A token is none of what stands for none.
LEMMA TokenIs ==
  /\ \A length \in 0..Width : Mask(length) # Nil /\ Mask(length).length = length
  /\ \A length \in 0..Width : NetmaskFromPrefix(length) # Nil
  /\ \A length \in 0..Width : NetmaskFromPrefix(length) = 1..length
  /\ \A length \in 0..Width : (1..length = Bits) <=> length = Width
  /\ Width \in Nat \ {0}
<1>1. Width \in Nat \ {0} /\ Nil \notin Tokens /\ Nil \in Addresses \cup {Nil}
      /\ \A mask \in SUBSET Bits : mask # Nil
  BY DnsTyped DEF ConstantsTyped
<1>2. ASSUME NEW length \in 0..Width PROVE Mask(length) \in Tokens /\ Mask(length).length = length
  <2>1. Mask(length) = [text |-> "mask", address |-> Nil, length |-> length]
    BY DEF Mask, Word
  <2>2. "mask" \in STRING \cup Texts
    BY DEF Texts
  <2>3. QED
    BY <1>1, <2>1, <2>2 DEF Tokens
<1>3. ASSUME NEW length \in 0..Width
      PROVE  NetmaskFromPrefix(length) = 1..length /\ 1..length \in SUBSET Bits
             /\ ((1..length = Bits) <=> length = Width)
  <2>1. length \in Int /\ 0 <= length /\ length <= Width
    BY <1>1
  <2>2. NetmaskFromPrefix(length) = 1..length
    <3>1. length = 0 => 1..length = {}
      BY <2>1
    <3>2. QED
      BY <2>1, <3>1 DEF NetmaskFromPrefix
  <2>3. 1..length \in SUBSET Bits
    BY <1>1, <2>1 DEF Bits
  <2>4. length # Width => Width \in Bits /\ Width \notin 1..length
    BY <1>1, <2>1 DEF Bits
  <2>5. QED
    BY <2>2, <2>3, <2>4 DEF Bits
<1>4. QED
  BY <1>1, <1>2, <1>3

\* What is read of an address: it and its mask, if it has one on its line.
LEMMA InetIs ==
  ASSUME NEW a \in Inets
  PROVE  InetLine(a) = IF Readable(a) THEN {InetAddr(Address("v4", a.bits), 1..a.length)} ELSE {}
<1>1. a.length \in 0..Width /\ a.class \in {"v4", "v6"}
  BY DEF Inets
<1> DEFINE own == Literal(Address("v4", a.bits))
<1>2. /\ own.text = "address" /\ own.address = Address("v4", a.bits) /\ own.address.class = "v4"
      /\ Word("inet").text = "inet" /\ Word("netmask").text = "netmask" /\ Word("-->").text = "-->"
      /\ Word("peer").text = "peer" /\ Mask(a.length).text = "mask"
  BY DEF Literal, Word, Address, Mask
<1> HIDE DEF own
<1>3. CASE a.class = "v6"
  <2>1. InetText(a) = <<Word("inet6"), WithPrefix(Address("v6", a.bits), a.length)>>
    BY <1>3 DEF InetText
  <2>2. InetText(a)[1].text = "inet6"
    BY <2>1 DEF Word
  <2>3. QED
    BY <1>3, <2>2 DEF InetLine, IfconfigInet, IpAddrInet, Readable
<1>4. CASE a.class = "v4" /\ platform = "macos"
  <2>1. PICK t : t = InetText(a)
    OBVIOUS
  <2>2. \E k \in Int : /\ Once(t, k, "netmask") /\ k # Len(t) /\ t[k + 1] = Mask(a.length)
                     /\ t[1] = Word("inet") /\ t[2] = own
    <3>1. CASE a.peer = Nil
      <4>1. t = <<Word("inet"), own, Word("netmask"), Mask(a.length)>>
        BY <1>4, <2>1, <3>1 DEF InetText, own
      <4>2. Len(t) = 4 /\ DOMAIN t = 1..4 /\ t[1] = Word("inet") /\ t[2] = own
            /\ t[3] = Word("netmask") /\ t[4] = Mask(a.length)
        BY <4>1
      <4>3. Once(t, 3, "netmask")
        BY <1>2, <4>2 DEF Once
      <4>4. 3 \in Int /\ 3 # Len(t) /\ t[3 + 1] = Mask(a.length)
        BY <4>2
      <4>5. QED
        BY <4>2, <4>3, <4>4
    <3>2. CASE a.peer # Nil
      <4>1. t = <<Word("inet"), own, Word("-->"), Literal(a.peer), Word("netmask"), Mask(a.length)>>
        BY <1>4, <2>1, <3>2 DEF InetText, own
      <4>2. Len(t) = 6 /\ DOMAIN t = 1..6 /\ t[1] = Word("inet") /\ t[2] = own
            /\ t[3] = Word("-->") /\ t[4] = Literal(a.peer)
            /\ t[5] = Word("netmask") /\ t[6] = Mask(a.length)
        BY <4>1
      <4>3. Literal(a.peer).text = "address"
        BY DEF Literal, Word
      <4>4. Once(t, 5, "netmask")
        BY <1>2, <4>2, <4>3 DEF Once
      <4>5. 5 \in Int /\ 5 # Len(t) /\ t[5 + 1] = Mask(a.length)
        BY <4>2
      <4>6. QED
        BY <4>2, <4>4, <4>5
    <3>3. QED
      BY <3>1, <3>2
  <2>3. After(t, "netmask") = Mask(a.length) /\ t[1] = Word("inet") /\ t[2] = own
    BY <2>2, AfterOnce
  <2>4. IfconfigInet(t) = {InetAddr(Address("v4", a.bits), NetmaskFromPrefix(a.length))}
    BY <1>1, <1>2, <2>3, TokenIs DEF IfconfigInet
  <2>5. QED
    BY <1>1, <1>4, <2>1, <2>4, TokenIs DEF InetLine, Readable
<1>5. CASE a.class = "v4" /\ platform # "macos"
  <2>1. PICK t : t = InetText(a)
    OBVIOUS
  <2>2. CASE a.peer = Nil
    <3>1. PICK prefix : prefix = WithPrefix(Address("v4", a.bits), a.length)
      OBVIOUS
    <3>2. t = <<Word("inet"), prefix>>
      BY <1>5, <2>1, <2>2, <3>1 DEF InetText
    <3>3. t[1] = Word("inet") /\ t[2] = prefix
      BY <3>2
    <3>4. prefix.text = "a/n" /\ prefix.address = Address("v4", a.bits) /\ prefix.length = a.length
          /\ prefix.address.class = "v4"
      BY <3>1 DEF WithPrefix, Address
    <3>5. IpAddrInet(t) = {InetAddr(Address("v4", a.bits), NetmaskFromPrefix(a.length))}
      BY <1>1, <1>2, <3>3, <3>4, TokenIs DEF IpAddrInet
    <3>6. QED
      BY <1>1, <1>5, <2>1, <2>2, <3>5, TokenIs DEF InetLine, Readable
  <2>3. CASE a.peer # Nil
    <3>1. t = <<Word("inet"), own, Word("peer"), WithPrefix(a.peer, a.length)>>
      BY <1>5, <2>1, <2>3 DEF InetText, own
    <3>2. t[2].text = "address"
      BY <1>2, <3>1
    <3>3. QED
      BY <1>5, <2>1, <2>3, <3>2 DEF InetLine, Readable, IpAddrInet
  <2>4. QED
    BY <2>2, <2>3
<1>6. QED
  BY <1>1, <1>3, <1>4, <1>5

\* Of the bits of a route's gateway those of the mask tell whether it is in the subnet.
LEMMA SubnetIs ==
  ASSUME NEW a \in Inets, NEW bits \in SUBSET Bits
  PROVE  bits \in Subnet(a) <=> bits \cap (1..a.length) = a.bits \cap (1..a.length)
BY DEF Subnet, Inets

\* The faults there are, ...
FaultOf(r, i) ==
  /\ r # Nil /\ i # Nil /\ r.gateway # Nil /\ r.gateway.class = "v4" /\ Judged(i) # {}
  /\ \A a \in Judged(i) : r.gateway.bits \notin Subnet(a)

\* ... are those that are found.
LEMMA FaultFound ==
  ASSUME NEW r, r # Nil, r.gateway \in Addresses \cup {Nil}, NEW i \in Interfaces \cup {Nil},
         NEW next, next = FromRoute(r, ParseInets(InterfaceText(i)))
  PROVE  next.on_link <=> ~FaultOf(r, i)
<1> DEFINE inetsRead == ParseInets(InterfaceText(i))
           judged == {a \in inetsRead : a.netmask # HostNetmask}
<1>1. CASE i = Nil
  <2>1. inetsRead = {}
    BY <1>1 DEF ParseInets, InterfaceText
  <2>2. QED
    BY <1>1, <2>1 DEF FromRoute, RouteIsOnLink, FaultOf
<1>2. CASE i # Nil
  <2>1. i \in Seq(Inets) /\ DOMAIN i = 1..Len(i) /\ \A k \in DOMAIN i : i[k] \in Inets
    <3>1. Interfaces \subseteq Seq(Inets)
      BY DnsTyped DEF ConstantsTyped, Inets
    <3>2. i \in Seq(Inets)
      BY <1>2, <3>1
    <3>3. QED
      BY <3>2
  <2>2. inetsRead = UNION {InetLine(i[k]) : k \in DOMAIN i}
    BY <1>2 DEF ParseInets, InterfaceText, InetLine
  <2>3. ToSet(i) = {i[k] : k \in DOMAIN i}
    BY DEF ToSet
  <2>4. Judged(i) = {a \in ToSet(i) : Readable(a) /\ a.length < Width}
    BY <1>2 DEF Judged, Readable
  <2> HIDE DEF inetsRead
  <2>5. ASSUME NEW a \in Judged(i)
        PROVE  /\ a \in Inets
               /\ InetAddr(Address("v4", a.bits), 1..a.length) \in judged
    <3>1. PICK k \in DOMAIN i : a = i[k]
      BY <2>3, <2>4, <2>5
    <3>2. a \in Inets /\ Readable(a) /\ a.length < Width /\ a.length \in 0..Width
      BY <2>1, <2>4, <2>5, <3>1 DEF Inets
    <3>3. InetAddr(Address("v4", a.bits), 1..a.length) \in InetLine(i[k])
      BY <3>1, <3>2, InetIs
    <3>4. InetAddr(Address("v4", a.bits), 1..a.length) \in inetsRead
      BY <2>2, <3>3
    <3>5. 1..a.length # HostNetmask
      BY <3>2, TokenIs DEF HostNetmask
    <3>6. InetAddr(Address("v4", a.bits), 1..a.length).netmask = 1..a.length
      BY DEF InetAddr
    <3>7. QED
      BY <3>2, <3>4, <3>5, <3>6
  <2>6. ASSUME NEW x \in judged
        PROVE  \E a \in Judged(i) : x = InetAddr(Address("v4", a.bits), 1..a.length)
    <3>1. PICK k \in DOMAIN i : x \in InetLine(i[k])
      BY <2>2, <2>6
    <3>2. PICK a : a = i[k]
      OBVIOUS
    <3>3. a \in Inets /\ Readable(a) /\ x = InetAddr(Address("v4", a.bits), 1..a.length)
      BY <2>1, <3>1, <3>2, InetIs
    <3>4. x.netmask = 1..a.length /\ x.netmask # HostNetmask /\ a.length \in 0..Width
      BY <2>6, <3>3 DEF InetAddr, Inets
    <3>5. a.length < Width
      BY <3>4, TokenIs DEF HostNetmask
    <3>6. a \in Judged(i)
      BY <2>3, <2>4, <3>2, <3>3, <3>5
    <3>7. QED
      BY <3>3, <3>6
  <2> HIDE DEF judged
  <2>7. ASSUME NEW a \in Judged(i), r.gateway # Nil, r.gateway.class = "v4"
        PROVE  NextHopOnLink(r.gateway, Address("v4", a.bits), 1..a.length) <=> r.gateway.bits \in Subnet(a)
    <3>1. r.gateway.bits \in SUBSET Bits /\ a \in Inets
      BY <2>5, <2>7 DEF Addresses
    <3>2. Address("v4", a.bits).class = "v4" /\ Address("v4", a.bits).bits = a.bits
      BY DEF Address
    <3>3. QED
      BY <2>7, <3>1, <3>2, SubnetIs DEF NextHopOnLink
  <2>8. next.on_link <=> \/ r.gateway = Nil \/ judged = {}
                        \/ \E x \in judged : NextHopOnLink(r.gateway, x.address, x.netmask)
    BY DEF FromRoute, RouteIsOnLink, judged, inetsRead
  <2>9. ASSUME NEW a PROVE InetAddr(Address("v4", a.bits), 1..a.length).address = Address("v4", a.bits)
                          /\ InetAddr(Address("v4", a.bits), 1..a.length).netmask = 1..a.length
    BY DEF InetAddr
  <2>10. judged = {} <=> Judged(i) = {}
    BY <2>5, <2>6
  <2>11. CASE r.gateway = Nil \/ judged = {}
    BY <2>8, <2>10, <2>11 DEF FaultOf
  <2>12. CASE r.gateway # Nil /\ judged # {} /\ r.gateway.class # "v4"
    <3>1. \A x \in judged : NextHopOnLink(r.gateway, x.address, x.netmask)
      BY <2>12 DEF NextHopOnLink
    <3>2. QED
      BY <2>8, <2>12, <3>1 DEF FaultOf
  <2>13. CASE r.gateway # Nil /\ judged # {} /\ r.gateway.class = "v4"
    <3>1. (\E x \in judged : NextHopOnLink(r.gateway, x.address, x.netmask))
            <=> \E a \in Judged(i) : r.gateway.bits \in Subnet(a)
      <4>1. ASSUME NEW x \in judged, NextHopOnLink(r.gateway, x.address, x.netmask)
            PROVE  \E a \in Judged(i) : r.gateway.bits \in Subnet(a)
        <5>1. PICK a \in Judged(i) : x = InetAddr(Address("v4", a.bits), 1..a.length)
          BY <2>6, <4>1
        <5>2. x.address = Address("v4", a.bits) /\ x.netmask = 1..a.length
          BY <2>9, <5>1
        <5>3. QED
          BY <2>7, <2>13, <4>1, <5>2
      <4>2. ASSUME NEW a \in Judged(i), r.gateway.bits \in Subnet(a)
            PROVE  \E x \in judged : NextHopOnLink(r.gateway, x.address, x.netmask)
        <5>1. PICK x : x = InetAddr(Address("v4", a.bits), 1..a.length)
          OBVIOUS
        <5>2. x \in judged /\ x.address = Address("v4", a.bits) /\ x.netmask = 1..a.length
          BY <2>5, <2>9, <5>1
        <5>3. QED
          BY <2>7, <2>13, <4>2, <5>2
      <4>3. QED
        BY <4>1, <4>2
    <3>2. QED
      BY <1>2, <2>8, <2>10, <2>13, <3>1 DEF FaultOf
  <2>14. QED
    BY <2>11, <2>12, <2>13
<1>3. QED
  BY <1>1, <1>2

\* A set of numbers that is not empty has a least one.
LEMMA Least == ASSUME NEW T, T \subseteq Nat, T # {} PROVE \E x \in T : \A y \in T : x <= y
<1>1. \E x \in T : \A y \in T : <<y, x>> \notin OpToRel(<, Nat)
  BY NatLessThanWellFounded, WFMin
<1>2. PICK x \in T : \A y \in T : <<y, x>> \notin OpToRel(<, Nat)
  BY <1>1
<1>3. ASSUME NEW y \in T PROVE x <= y
  <2>1. <<y, x>> \notin {pair \in Nat \X Nat : pair[1] < pair[2]}
    BY <1>2 DEF OpToRel
  <2>2. QED
    BY <1>3, <2>1
<1>4. QED
  BY <1>3

\* The token after a word is one of the tokens.
LEMMA AfterIs ==
  ASSUME NEW T, NEW tokens \in Seq(T), NEW keyword, After(tokens, keyword) # Nil
  PROVE  After(tokens, keyword) \in T
<1> DEFINE at == Positions(tokens, keyword)
           first == CHOOSE k \in at : \A j \in at : k <= j
<1>1. at \subseteq 1..Len(tokens) /\ Len(tokens) \in Nat
  BY DEF Positions
<1>2. at # {} /\ first # Len(tokens) /\ After(tokens, keyword) = tokens[first + 1]
  BY DEF After
<1> HIDE DEF at
<1>3. first \in at
  <2>1. \E k \in at : \A j \in at : k <= j
    <3>1. at \subseteq Nat
      BY <1>1
    <3>2. QED
      BY <1>2, <3>1, Least
  <2>2. QED
    BY <2>1
<1> HIDE DEF first
<1>4. first + 1 \in 1..Len(tokens)
  BY <1>1, <1>2, <1>3
<1>5. QED
  BY <1>2, <1>4

\* What a route's text is made of has no address but of the network.
RouteTokens(r) ==
  {Literal(Address("v4", {})), Literal(r.gateway), Word("via"), Word("inet6"), Word("dev"),
   Word(r.interface), Word("src"), Word("cache")}
LEMMA RouteTokensAre ==
  ASSUME NEW r, r.gateway \in Addresses \cup {Nil}, NEW x \in RouteTokens(r)
  PROVE  x.address \in Addresses \cup {Nil}
<1>1. Address("v4", {}) \in Addresses
  BY DEF Address, Addresses
<1>2. QED
  BY <1>1 DEF RouteTokens, Literal, Word

\* The gateway that is read of a route is an address or none.
LEMMA RouteRead ==
  ASSUME NEW r \in Routes \cup {Nil},
         NEW parsed, parsed = IF platform = "macos" THEN ParseRouteGet(RouteText(r))
                              ELSE ParseIpRouteGet(RouteText(r)),
         parsed # Nil
  PROVE  parsed.gateway \in Addresses \cup {Nil}
<1> DEFINE text == RouteText(r)
           T == RouteTokens(r)
<1>1. CASE r = Nil
  <2>1. text = <<>> /\ DOMAIN text = {}
    BY <1>1 DEF RouteText
  <2>2. QED
    BY <2>1 DEF ParseRouteGet, ParseIpRouteGet, ValueOf
<1>2. ASSUME r # Nil PROVE r \in Routes /\ r.gateway \in Addresses \cup {Nil}
  BY <1>2, DnsTyped DEF ConstantsTyped
<1>3. CASE r # Nil /\ platform = "macos"
  <2>1. parsed.gateway = Nil \/ parsed.gateway = ValueOf(text, "gateway").address
    BY <1>3 DEF ParseRouteGet, RouteGet
  <2>2. CASE r.gateway = Nil
    <3>1. text = <<<<Word("destination"), Literal(Address("v4", {}))>>,
                   <<Word("interface"), Word(r.interface)>>>>
      BY <1>3, <2>2 DEF RouteText
    <3>2. ValueOf(text, "gateway") = Nil
      BY <3>1 DEF ValueOf, Word
    <3>3. QED
      BY <1>3, <3>2 DEF ParseRouteGet, RouteGet
  <2>3. CASE r.gateway # Nil
    <3>1. text = <<<<Word("destination"), Literal(Address("v4", {}))>>,
                   <<Word("gateway"), Literal(r.gateway)>>, <<Word("interface"), Word(r.interface)>>>>
      BY <1>3, <2>3 DEF RouteText
    <3>2. {k \in DOMAIN text : text[k][1].text = "gateway"} = {2}
      BY <3>1 DEF Word
    <3>3. ValueOf(text, "gateway") = Literal(r.gateway)
      BY <3>1, <3>2 DEF ValueOf
    <3>4. QED
      BY <1>2, <1>3, <2>1, <3>3 DEF Literal, Word
  <2>4. QED
    BY <2>2, <2>3
<1>4. CASE r # Nil /\ platform # "macos"
  <2>1. text \in Seq(Seq(T)) /\ Len(text) = 2
    <3> DEFINE start == <<Literal(Address("v4", {}))>>
               middle == IF r.gateway = Nil THEN <<>>
                         ELSE IF r.gateway.class = "v6"
                           THEN <<Word("via"), Word("inet6"), Literal(r.gateway)>>
                         ELSE <<Word("via"), Literal(r.gateway)>>
               last == <<Word("dev"), Word(r.interface), Word("src"), Literal(Address("v4", {}))>>
    <3>1. text = <<start \o middle \o last, <<Word("cache")>>>>
      BY <1>4, Zenon DEF RouteText
    <3>2. start \in Seq(T) /\ last \in Seq(T) /\ <<Word("cache")>> \in Seq(T)
      BY DEF RouteTokens
    <3>3. middle \in Seq(T)
      <4>1. <<Word("via"), Word("inet6"), Literal(r.gateway)>> \in Seq(T)
        BY DEF RouteTokens
      <4>2. <<Word("via"), Literal(r.gateway)>> \in Seq(T)
        BY DEF RouteTokens
      <4>3. <<>> \in Seq(T)
        OBVIOUS
      <4> HIDE DEF T
      <4>4. QED
        BY <4>1, <4>2, <4>3
    <3> HIDE DEF start, middle, last, T
    <3>4. start \o middle \o last \in Seq(T)
      BY <3>2, <3>3
    <3>5. QED
      BY <3>1, <3>2, <3>4
  <2> DEFINE named == {k \in DOMAIN text : After(text[k], "dev") # Nil}
             first == text[CHOOSE k \in named : \A j \in named : k <= j]
             via == After(first, "via")
             gateway == IF via # Nil /\ via.text \in {"inet", "inet6"} THEN After(first, via.text) ELSE via
  <2>2. named # {} /\ parsed.gateway = IF gateway = Nil THEN Nil ELSE gateway.address
    BY <1>4 DEF ParseIpRouteGet, RouteGet
  <2>3. first \in Seq(T)
    <3>1. named \subseteq Nat
      BY <2>1
    <3> HIDE DEF named
    <3>2. \E k \in named : \A j \in named : k <= j
      BY <2>2, <3>1, Least
    <3>3. PICK n : n = CHOOSE k \in named : \A j \in named : k <= j
      OBVIOUS
    <3>4. n \in named
      BY <3>2, <3>3
    <3>5. n \in DOMAIN text
      BY <3>4 DEF named
    <3> HIDE DEF T, text
    <3>6. text[n] \in Seq(T)
      <4>1. PICK S : S = Seq(T)
        OBVIOUS
      <4>2. text \in Seq(S)
        BY <2>1, <4>1, Zenon
      <4>3. text[n] \in S
        BY <3>5, <4>2
      <4>4. QED
        BY <4>1, <4>3
    <3>7. first = text[n]
      BY <3>3
    <3>8. QED
      BY <3>6, <3>7, Zenon
  <2> HIDE DEF first, named, T
  <2>4. gateway = Nil \/ gateway \in T
    BY <2>3, AfterIs
  <2>5. QED
    BY <1>2, <1>4, <2>2, <2>4, RouteTokensAre DEF T
<1>5. QED
  BY <1>1, <1>3, <1>4

-----------------------------------------------------------------------------
(***************************************************************************)
(* The invariant.                                                          *)
(***************************************************************************)
\* What the walk holds of the path to a nameserver, and what it knows by then, ...
PathInv ==
  /\ platform \in Platforms /\ command \in 1..Commands
  /\ pc \in {"list", "walk", "route", "inets", "send", "recv", "write", "end"}
  /\ pc \in {"route", "inets", "send", "recv", "write"} => todo # <<>>
  /\ pc \in {"route", "inets", "send", "recv"} => Diagnosable(Head(todo))
  /\ pc \in {"list", "walk", "route", "end"} => route = Nil /\ inets = Nil /\ hop = Nil /\ socket = Nil
  /\ pc = "inets" => inets = Nil /\ hop = Nil /\ socket = Nil
  /\ pc = "send" => socket = Nil
  /\ pc = "inets" => route # Nil /\ route.gateway \in Addresses \cup {Nil}
  /\ pc \in {"send", "recv"} => ~Fault
  /\ verdict = "unreachable" /\ hop # Nil => Fault
  /\ (verdict # Nil) <=> (pc = "write")
  /\ verdict \in Verdicts \cup {Nil}

\* ... what is said of one already said is the same, ...
LinesInv ==
  /\ \E S : report \in Seq(S)
  /\ \A j \in DOMAIN report : report[j][1] \in DOMAIN lines /\ report[j][2] = lines[report[j][1]]
  /\ \A n \in DOMAIN lines : lines[n] \in Verdicts
  /\ pc = "write" /\ Head(todo) \in DOMAIN lines => verdict = lines[Head(todo)]
  /\ pc \in {"route", "inets", "send", "recv"} => Head(todo) \notin DOMAIN lines

\* ... and each query is known by its id, and is of a nameserver that is reported
\* or is the one the walk is at.
QueriesInv ==
  /\ IsFiniteSet(queries) /\ answered \subseteq queries
  /\ \A q \in queries : q.id \in 0..Cardinality(queries) - 1 /\ q.command \in 1..command
  /\ \A p, q \in queries : p.id = q.id => p = q
  /\ \A p, q \in queries : p.to = q.to /\ p.command = q.command => p = q
  /\ \A q \in queries : q.command = command =>
       \/ q.to \in DOMAIN lines
       \/ pc \in {"recv", "write", "end"} /\ q.to = Head(todo)
  /\ pc = "recv" => socket \in queries /\ socket.to = Head(todo)
  /\ verdict = "answered" /\ socket # Nil => socket \in answered

DnsInv == PathInv /\ LinesInv /\ QueriesInv

\* What stands for no verdict is none.
LEMMA NoVerdict == Nil \notin Verdicts /\ Commands \in Nat \ {0}
BY DnsTyped DEF ConstantsTyped

\* Initially it holds, ...
LEMMA DnsInit == Init => DnsInv
<1> SUFFICES ASSUME Init PROVE DnsInv
  OBVIOUS
<1>1. PathInv
  <2>1. pc = "list" /\ route = Nil /\ inets = Nil /\ hop = Nil /\ socket = Nil /\ verdict = Nil
        /\ platform \in Platforms
    BY DEF Init
  <2>2. command \in 1..Commands
    BY NoVerdict DEF Init
  <2>3. QED
    BY <2>1, <2>2 DEF PathInv
<1>2. LinesInv
  <2>1. report \in Seq({})
    BY DEF Init
  <2>2. DOMAIN report = {} /\ DOMAIN lines = {}
    BY DEF Init
  <2>3. QED
    BY <2>1, <2>2 DEF Init, LinesInv
<1>3. QueriesInv
  BY FS_EmptySet, NoVerdict DEF Init, QueriesInv
<1>4. QED
  BY <1>1, <1>2, <1>3 DEF DnsInv

\* ... and each step of the path keeps it: the listing, ...
LEMMA ListKeeps == DnsInv /\ List => DnsInv'
<1> SUFFICES ASSUME DnsInv, List PROVE DnsInv'
  OBVIOUS
<1> USE DEF DnsInv
<1>1. pc = "list" /\ pc' \in {"end", "walk"}
      /\ UNCHANGED <<platform, command, lines, report, route, inets, hop, socket, verdict, queries,
                     answered>>
  BY DEF List, path, network
<1>2. PathInv'
  BY <1>1 DEF PathInv
<1>3. LinesInv'
  BY <1>1 DEF LinesInv, PathInv
<1>4. QueriesInv'
  BY <1>1 DEF QueriesInv
<1>5. QED
  BY <1>2, <1>3, <1>4

\* ... the nameserver, ...
LEMMA WalkKeeps == DnsInv /\ Walk => DnsInv'
<1> SUFFICES ASSUME DnsInv, Walk PROVE DnsInv'
  OBVIOUS
<1> USE DEF DnsInv
<1>1. pc = "walk"
      /\ UNCHANGED <<platform, command, todo, lines, report, route, inets, hop, socket, queries, answered>>
  BY DEF Walk, walk, path, network
<1>2. verdict = Nil /\ route = Nil /\ inets = Nil /\ hop = Nil /\ socket = Nil
  BY <1>1 DEF PathInv
<1>3. CASE todo = <<>>
  <2>1. pc' = "end" /\ verdict' = Nil
    BY <1>1, <1>2, <1>3 DEF Walk
  <2>2. PathInv'
    BY <1>1, <1>2, <2>1 DEF PathInv
  <2>3. LinesInv' /\ QueriesInv'
    BY <1>1, <1>2, <2>1, NoVerdict DEF LinesInv, QueriesInv, Verdicts
  <2>4. QED
    BY <2>2, <2>3
<1>4. CASE todo # <<>> /\ Head(todo) \in DOMAIN lines
  <2>1. pc' = "write" /\ verdict' = lines[Head(todo)]
    BY <1>1, <1>4 DEF Walk
  <2>2. verdict' \in Verdicts /\ verdict' # Nil
    BY <1>4, <2>1, NoVerdict DEF LinesInv
  <2>3. PathInv'
    BY <1>1, <1>2, <1>4, <2>1, <2>2 DEF PathInv
  <2>4. LinesInv' /\ QueriesInv'
    BY <1>1, <1>2, <2>1 DEF LinesInv, QueriesInv
  <2>5. QED
    BY <2>3, <2>4
<1>5. CASE todo # <<>> /\ Head(todo) \notin DOMAIN lines /\ ~Diagnosable(Head(todo))
  <2>1. pc' = "write" /\ verdict' = "undiagnosed"
    BY <1>1, <1>5 DEF Walk
  <2>2. verdict' \in Verdicts /\ verdict' # Nil
    BY <2>1, NoVerdict DEF Verdicts
  <2>3. PathInv'
    BY <1>1, <1>2, <1>5, <2>1, <2>2 DEF PathInv
  <2>4. LinesInv' /\ QueriesInv'
    BY <1>1, <1>2, <1>5, <2>1 DEF LinesInv, QueriesInv
  <2>5. QED
    BY <2>3, <2>4
<1>6. CASE todo # <<>> /\ Head(todo) \notin DOMAIN lines /\ Diagnosable(Head(todo))
  <2>1. pc' = "route" /\ verdict' = Nil
    BY <1>1, <1>2, <1>6 DEF Walk
  <2>2. PathInv'
    BY <1>1, <1>2, <1>6, <2>1 DEF PathInv
  <2>3. LinesInv' /\ QueriesInv'
    BY <1>1, <1>2, <1>6, <2>1 DEF LinesInv, QueriesInv
  <2>4. QED
    BY <2>2, <2>3
<1>7. QED
  BY <1>3, <1>4, <1>5, <1>6

\* ... its route, ...
LEMMA RouteKeeps == DnsInv /\ AskRoute => DnsInv'
<1> SUFFICES ASSUME DnsInv, AskRoute PROVE DnsInv'
  OBVIOUS
<1> USE DEF DnsInv
<1>1. pc = "route"
      /\ UNCHANGED <<platform, command, todo, lines, report, inets, hop, socket, queries, answered>>
  BY DEF AskRoute, walk, network
<1>2. verdict = Nil /\ route = Nil /\ inets = Nil /\ hop = Nil /\ socket = Nil /\ todo # <<>>
      /\ Diagnosable(Head(todo))
  BY <1>1 DEF PathInv
<1>3. PICK r \in Routes \cup {Nil} : \E parsed :
        /\ parsed = IF platform = "macos" THEN ParseRouteGet(RouteText(r)) ELSE ParseIpRouteGet(RouteText(r))
        /\ IF parsed = Nil THEN pc' = "write" /\ verdict' = "no route" /\ UNCHANGED route
           ELSE pc' = "inets" /\ route' = parsed /\ UNCHANGED verdict
  BY DEF AskRoute
<1>4. PICK parsed :
        /\ parsed = IF platform = "macos" THEN ParseRouteGet(RouteText(r)) ELSE ParseIpRouteGet(RouteText(r))
        /\ IF parsed = Nil THEN pc' = "write" /\ verdict' = "no route" /\ UNCHANGED route
           ELSE pc' = "inets" /\ route' = parsed /\ UNCHANGED verdict
  BY <1>3
<1>5. CASE parsed = Nil
  <2>1. verdict' \in Verdicts /\ verdict' # Nil
    BY <1>4, <1>5, NoVerdict DEF Verdicts
  <2>2. PathInv'
    BY <1>1, <1>2, <1>4, <1>5, <2>1 DEF PathInv
  <2>3. LinesInv' /\ QueriesInv'
    BY <1>1, <1>2, <1>4, <1>5 DEF LinesInv, QueriesInv
  <2>4. QED
    BY <2>2, <2>3
<1>6. CASE parsed # Nil
  <2>1. route' # Nil /\ route'.gateway \in Addresses \cup {Nil}
    BY <1>4, <1>6, RouteRead
  <2>2. PathInv'
    BY <1>1, <1>2, <1>4, <1>6, <2>1 DEF PathInv
  <2>3. LinesInv' /\ QueriesInv'
    BY <1>1, <1>2, <1>4, <1>6 DEF LinesInv, QueriesInv
  <2>4. QED
    BY <2>2, <2>3
<1>7. QED
  BY <1>5, <1>6

\* ... its interface, ...
LEMMA InterfaceKeeps == DnsInv /\ AskInterface => DnsInv'
<1> SUFFICES ASSUME DnsInv, AskInterface PROVE DnsInv'
  OBVIOUS
<1> USE DEF DnsInv
<1>1. pc = "inets" /\ UNCHANGED <<platform, command, todo, lines, report, route, socket, queries, answered>>
  BY DEF AskInterface, walk, network
<1>2. /\ verdict = Nil /\ socket = Nil /\ todo # <<>> /\ Diagnosable(Head(todo))
      /\ route # Nil /\ route.gateway \in Addresses \cup {Nil}
  BY <1>1 DEF PathInv
<1>3. PICK i \in Interfaces \cup {Nil} : \E next :
        /\ next = FromRoute(route, ParseInets(InterfaceText(i)))
        /\ inets' = i /\ hop' = next
        /\ IF next.on_link THEN pc' = "send" /\ UNCHANGED verdict
           ELSE pc' = "write" /\ verdict' = "unreachable"
  BY DEF AskInterface
<1>4. PICK next :
        /\ next = FromRoute(route, ParseInets(InterfaceText(i)))
        /\ inets' = i /\ hop' = next
        /\ IF next.on_link THEN pc' = "send" /\ UNCHANGED verdict
           ELSE pc' = "write" /\ verdict' = "unreachable"
  BY <1>3
<1>5. next.on_link <=> ~FaultOf(route, i)
  BY <1>2, <1>4, FaultFound
<1>6. Fault' <=> FaultOf(route, i)
  BY <1>1, <1>4 DEF Fault, FaultOf, Judged
<1>7. CASE next.on_link
  <2>1. pc' = "send" /\ verdict' = Nil /\ ~Fault'
    BY <1>2, <1>4, <1>5, <1>6, <1>7
  <2>2. PathInv'
    BY <1>1, <1>2, <2>1, NoVerdict DEF PathInv, Verdicts
  <2>3. LinesInv' /\ QueriesInv'
    BY <1>1, <1>2, <2>1 DEF LinesInv, QueriesInv
  <2>4. QED
    BY <2>2, <2>3
<1>8. CASE ~next.on_link
  <2>1. pc' = "write" /\ verdict' = "unreachable" /\ Fault'
    BY <1>4, <1>5, <1>6, <1>8
  <2>2. verdict' \in Verdicts /\ verdict' # Nil
    BY <2>1, NoVerdict DEF Verdicts
  <2>3. PathInv'
    BY <1>1, <1>2, <2>1, <2>2 DEF PathInv
  <2>4. LinesInv' /\ QueriesInv'
    BY <1>1, <1>2, <2>1 DEF LinesInv, QueriesInv
  <2>5. QED
    BY <2>3, <2>4
<1>9. QED
  BY <1>7, <1>8

\* ... the query, whose id no query before it had, ...
LEMMA SendKeeps == DnsInv /\ Send => DnsInv'
<1> SUFFICES ASSUME DnsInv, Send PROVE DnsInv'
  OBVIOUS
<1> USE DEF DnsInv
<1>1. pc = "send" /\ UNCHANGED <<platform, command, todo, lines, report, route, inets, hop, answered>>
  BY DEF Send, walk, path
<1>2. /\ verdict = Nil /\ socket = Nil /\ todo # <<>> /\ Diagnosable(Head(todo)) /\ ~Fault
      /\ Head(todo) \notin DOMAIN lines
  BY <1>1 DEF PathInv, LinesInv
<1>3. Fault' <=> Fault
  BY <1>1 DEF Fault, Judged
<1>4. ASSUME NEW port \in Ports, NEW query,
             query = [to |-> Head(todo), port |-> port, id |-> Cardinality(queries), command |-> command],
             queries' = queries \cup {query}, socket' = query, pc' = "recv", verdict' = verdict
      PROVE  DnsInv'
  <2>1. PathInv'
    BY <1>1, <1>2, <1>3, <1>4 DEF PathInv
  <2>2. LinesInv'
    BY <1>1, <1>2, <1>4 DEF LinesInv
  <2>3. QueriesInv'
    <3>1. PICK n : n = Cardinality(queries)
      OBVIOUS
    <3>2. n \in Nat /\ IsFiniteSet(queries) /\ answered \subseteq queries
          /\ \A q \in queries : q.id \in 0..n - 1 /\ q.command \in 1..command
      BY <3>1, FS_CardinalityType DEF QueriesInv
    <3>3. query.to = Head(todo) /\ query.id = n /\ query.command = command
      BY <1>4, <3>1
    <3>4. query \notin queries
      BY <3>2, <3>3
    <3>5. IsFiniteSet(queries') /\ Cardinality(queries') = n + 1
      BY <1>4, <3>1, <3>2, <3>4, FS_AddElement
    <3>6. command \in 1..Commands /\ Commands \in Nat
      BY NoVerdict DEF PathInv
    <3>7. \A q \in queries' : q.id \in 0..n /\ q.command \in 1..command
      BY <1>4, <3>2, <3>3, <3>6
    <3>8. \A p, q \in queries' : p.id = q.id => p = q
      <4>1. \A p \in queries : p.id # query.id
        BY <3>2, <3>3
      <4>2. \A p, q \in queries : p.id = q.id => p = q
        BY DEF QueriesInv
      <4>3. QED
        BY <1>4, <4>1, <4>2
    <3>9. \A p, q \in queries' : p.to = q.to /\ p.command = q.command => p = q
      <4>1. \A p \in queries : ~(p.to = query.to /\ p.command = query.command)
        BY <1>1, <1>2, <3>3 DEF QueriesInv
      <4>2. \A p, q \in queries : p.to = q.to /\ p.command = q.command => p = q
        BY DEF QueriesInv
      <4>3. QED
        BY <1>4, <4>1, <4>2
    <3>10. \A q \in queries' : q.command = command => q.to \in DOMAIN lines \/ q.to = Head(todo)
      <4>1. \A q \in queries : q.command = command => q.to \in DOMAIN lines
        BY <1>1 DEF QueriesInv
      <4>2. QED
        BY <1>4, <3>3, <4>1
    <3>11. Cardinality(queries') - 1 = n
      <4>1. PICK m : m = Cardinality(queries')
        OBVIOUS
      <4>2. m = n + 1
        BY <3>5, <4>1, Zenon
      <4>3. m - 1 = n
        BY <3>2, <4>2
      <4>4. QED
        BY <4>1, <4>3, Zenon
    <3>12. verdict' # "answered"
      BY <1>2, <1>4, NoVerdict DEF Verdicts
    <3>13. answered' \subseteq queries' /\ socket' \in queries' /\ socket'.to = Head(todo)
      BY <1>1, <1>4, <3>2, <3>3
    <3>14. UNCHANGED <<command, todo, lines>> /\ pc' = "recv"
      BY <1>1, <1>4
    <3>15. \A q \in queries' : q.id \in 0..Cardinality(queries') - 1 /\ q.command \in 1..command
      BY <3>7, <3>11
    <3> HIDE DEF DnsInv
    <3>16. QED
      BY <3>5, <3>8, <3>9, <3>10, <3>12, <3>13, <3>14, <3>15 DEF QueriesInv
  <2>4. QED
    BY <2>1, <2>2, <2>3
<1>5. CASE pc' = "write" /\ verdict' = "failed" /\ UNCHANGED <<queries, socket>>
  <2>1. verdict' \in Verdicts /\ verdict' # Nil
    BY <1>5, NoVerdict DEF Verdicts
  <2>2. PathInv'
    BY <1>1, <1>2, <1>3, <1>5, <2>1 DEF PathInv
  <2>3. LinesInv' /\ QueriesInv'
    BY <1>1, <1>2, <1>5 DEF LinesInv, QueriesInv
  <2>4. QED
    BY <2>2, <2>3
<1>6. QED
  BY <1>4, <1>5 DEF Send

\* ... the network's answer, ...
LEMMA AnswerKeeps == DnsInv /\ Answer => DnsInv'
<1> SUFFICES ASSUME DnsInv, Answer PROVE DnsInv'
  OBVIOUS
<1> USE DEF DnsInv
<1>1. UNCHANGED <<platform, pc, command, todo, lines, report, route, inets, hop, socket, verdict, queries>>
  BY DEF Answer, walk, path
<1>2. answered \subseteq answered' /\ answered' \subseteq queries
  BY DEF Answer, QueriesInv
<1>3. Fault' <=> Fault
  BY <1>1 DEF Fault, Judged
<1>4. PathInv'
  BY <1>1, <1>3 DEF PathInv
<1>5. LinesInv'
  BY <1>1 DEF LinesInv
<1>6. QueriesInv'
  BY <1>1, <1>2 DEF QueriesInv
<1>7. QED
  BY <1>4, <1>5, <1>6

\* ... what comes to the socket, which is taken for the answer only if its id is
\* that of the query, and then it is to this query, ...
LEMMA ReceiveKeeps == DnsInv /\ Receive => DnsInv'
<1> SUFFICES ASSUME DnsInv, Receive PROVE DnsInv'
  OBVIOUS
<1> USE DEF DnsInv
<1>1. pc = "recv" /\ pc' = "write"
      /\ UNCHANGED <<platform, command, todo, lines, report, route, inets, hop, socket, queries, answered>>
  BY DEF Receive, walk, path, network
<1>2. /\ todo # <<>> /\ ~Fault /\ Head(todo) \notin DOMAIN lines
      /\ socket \in queries /\ socket.to = Head(todo)
      /\ \A p, q \in queries : p.id = q.id => p = q
  BY <1>1 DEF PathInv, LinesInv, QueriesInv
<1>3. Fault' <=> Fault
  BY <1>1 DEF Fault, Judged
<1>4. PICK q \in queries, length \in {"whole", "short"}, qr \in BOOLEAN :
        /\ q.to = socket.to /\ q.port = socket.port
        /\ length = "whole" /\ qr => q \in answered
        /\ verdict' = IF ParseDnsResponse([id |-> q.id, length |-> length, qr |-> qr], socket.id)
                      THEN "answered" ELSE "failed"
  BY DEF Receive
<1>5. verdict' \in {"answered", "failed"}
  BY <1>4
<1>6. verdict' \in Verdicts /\ verdict' # Nil /\ verdict' # "unreachable"
  BY <1>5, NoVerdict DEF Verdicts
<1>7. verdict' = "answered" => socket \in answered
  <2>1. SUFFICES ASSUME verdict' = "answered" PROVE socket \in answered
    OBVIOUS
  <2>2. ParseDnsResponse([id |-> q.id, length |-> length, qr |-> qr], socket.id)
    BY <1>4, <2>1
  <2>3. length = "whole" /\ qr /\ q.id = socket.id
    BY <2>2 DEF ParseDnsResponse
  <2>4. QED
    BY <1>2, <1>4, <2>3
<1>8. PathInv'
  BY <1>1, <1>2, <1>6 DEF PathInv
<1>9. LinesInv'
  BY <1>1, <1>2 DEF LinesInv
<1>10. QueriesInv'
  BY <1>1, <1>2, <1>7 DEF QueriesInv
<1>11. QED
  BY <1>8, <1>9, <1>10

\* ... that nothing comes, ...
LEMMA NoReplyKeeps == DnsInv /\ NoReply => DnsInv'
<1> SUFFICES ASSUME DnsInv, NoReply PROVE DnsInv'
  OBVIOUS
<1> USE DEF DnsInv
<1>1. pc = "recv" /\ pc' = "write" /\ verdict' = "failed"
      /\ UNCHANGED <<platform, command, todo, lines, report, route, inets, hop, socket, queries, answered>>
  BY DEF NoReply, walk, path, network
<1>2. todo # <<>> /\ Head(todo) \notin DOMAIN lines
  BY <1>1 DEF PathInv, LinesInv
<1>3. verdict' \in Verdicts /\ verdict' # Nil
  BY <1>1, NoVerdict DEF Verdicts
<1>4. PathInv'
  BY <1>1, <1>2, <1>3 DEF PathInv
<1>5. LinesInv' /\ QueriesInv'
  BY <1>1, <1>2 DEF LinesInv, QueriesInv
<1>6. QED
  BY <1>4, <1>5

\* ... the line, which is the one that was written of this nameserver before, if one was, ...
LEMMA WriteKeeps == DnsInv /\ Write => DnsInv'
<1> SUFFICES ASSUME DnsInv, Write PROVE DnsInv'
  OBVIOUS
<1> USE DEF DnsInv
<1>1. pc = "write" /\ UNCHANGED <<platform, command, queries, answered>>
      /\ route' = Nil /\ inets' = Nil /\ hop' = Nil /\ socket' = Nil /\ verdict' = Nil
  BY DEF Write, network
<1>2. pc' \in {"walk", "end"}
  BY DEF Write
<1>3. PathInv'
  BY <1>1, <1>2, NoVerdict DEF PathInv, Verdicts
<1>4. verdict \in Verdicts
  BY <1>1 DEF PathInv
<1>5. verdict' # "answered"
  BY <1>1, NoVerdict DEF Verdicts
<1>6. CASE pc' = "end" /\ UNCHANGED walk
  <2>1. UNCHANGED <<todo, lines, report>> /\ pc' = "end"
    BY <1>6 DEF walk
  <2>2. LinesInv'
    BY <1>1, <2>1 DEF LinesInv
  <2>3. QueriesInv'
    BY <1>1, <1>5, <2>1 DEF QueriesInv
  <2>4. QED
    BY <1>3, <2>2, <2>3
<1>7. ASSUME pc' = "walk", report' = Append(report, <<Head(todo), verdict>>),
             lines' = [n \in DOMAIN lines \cup {Head(todo)} |->
                         IF n = Head(todo) THEN verdict ELSE lines[n]]
      PROVE  DnsInv'
  <2>1. /\ DOMAIN lines' = DOMAIN lines \cup {Head(todo)} /\ lines'[Head(todo)] = verdict
        /\ \A n \in DOMAIN lines : lines'[n] = lines[n]
    BY <1>1, <1>7 DEF LinesInv
  <2>2. LinesInv'
    <3>1. PICK S : report \in Seq(S)
      BY DEF LinesInv
    <3>2. PICK line : line = <<Head(todo), verdict>>
      OBVIOUS
    <3>3. PICK U : U = S \cup {line}
      OBVIOUS
    <3>4. report \in Seq(U) /\ line \in U /\ report' = Append(report, line)
      BY <1>7, <3>1, <3>2, <3>3
    <3>5. report' \in Seq(U) /\ DOMAIN report' = DOMAIN report \cup {Len(report) + 1}
          /\ report'[Len(report) + 1] = line /\ \A j \in DOMAIN report : report'[j] = report[j]
      BY <3>4
    <3>6. line[1] = Head(todo) /\ line[2] = verdict
      BY <3>2
    <3>7. \A j \in DOMAIN report : report[j][1] \in DOMAIN lines /\ report[j][2] = lines[report[j][1]]
      BY DEF LinesInv
    <3>8. \A j \in DOMAIN report' :
            report'[j][1] \in DOMAIN lines' /\ report'[j][2] = lines'[report'[j][1]]
      <4>1. ASSUME NEW j \in DOMAIN report
            PROVE  report'[j][1] \in DOMAIN lines' /\ report'[j][2] = lines'[report'[j][1]]
        BY <2>1, <3>5, <3>7, <4>1
      <4>2. QED
        BY <2>1, <3>5, <3>6, <4>1
    <3>9. \A n \in DOMAIN lines' : lines'[n] \in Verdicts
      BY <1>4, <2>1 DEF LinesInv
    <3>10. QED
      BY <1>7, <3>5, <3>8, <3>9 DEF LinesInv
  <2>3. QueriesInv'
    <3>1. \A q \in queries : q.command = command => q.to \in DOMAIN lines'
      BY <1>1, <2>1 DEF QueriesInv
    <3>2. QED
      BY <1>1, <1>5, <1>7, <3>1 DEF QueriesInv
  <2>4. QED
    BY <1>3, <2>2, <2>3
<1>8. QED
  BY <1>6, <1>7 DEF Write

\* ... and the command that is run again, which has sent no query yet.
LEMMA AgainKeeps == DnsInv /\ Again => DnsInv'
<1> SUFFICES ASSUME DnsInv, Again PROVE DnsInv'
  OBVIOUS
<1> USE DEF DnsInv
<1>1. /\ pc = "end" /\ pc' = "list" /\ command < Commands /\ command' = command + 1
      /\ todo' = <<>> /\ lines' = <<>> /\ report' = <<>>
      /\ UNCHANGED <<platform, route, inets, hop, socket, verdict, queries, answered>>
  BY DEF Again, path, network
<1>2. command \in 1..Commands /\ Commands \in Nat
  BY NoVerdict DEF PathInv
<1>3. command' \in 1..Commands
  BY <1>1, <1>2
<1>4. PathInv'
  BY <1>1, <1>3 DEF PathInv
<1>5. LinesInv'
  <2>1. report' \in Seq({}) /\ DOMAIN report' = {} /\ DOMAIN lines' = {}
    BY <1>1
  <2>2. QED
    BY <1>1, <2>1 DEF LinesInv
<1>6. QueriesInv'
  <2>1. \A q \in queries : q.command \in 1..command' /\ q.command # command'
    BY <1>1, <1>2 DEF QueriesInv
  <2>2. verdict' # "answered"
    BY <1>1, NoVerdict DEF PathInv, Verdicts
  <2>3. QED
    BY <1>1, <2>1, <2>2 DEF QueriesInv
<1>7. QED
  BY <1>4, <1>5, <1>6

\* So each step keeps it, ...
LEMMA DnsNext == DnsInv /\ [Next]_vars => DnsInv'
<1>1. DnsInv /\ UNCHANGED vars => DnsInv'
  <2> SUFFICES ASSUME DnsInv, UNCHANGED vars PROVE DnsInv'
    OBVIOUS
  <2>1. UNCHANGED <<platform, pc, command, todo, lines, report, route, inets, hop, socket, verdict,
                    queries, answered>>
    BY DEF vars, walk, path, network
  <2>2. Fault' <=> Fault
    BY <2>1 DEF Fault, Judged
  <2>3. QED
    BY <2>1, <2>2 DEF DnsInv, PathInv, LinesInv, QueriesInv
<1>2. QED
  BY <1>1, ListKeeps, WalkKeeps, RouteKeeps, InterfaceKeeps, SendKeeps, AnswerKeeps, ReceiveKeeps,
     NoReplyKeeps, WriteKeeps, AgainKeeps DEF Next, Step, Done

\* ... and what it says is what is meant.
LEMMA DnsHolds == DnsInv => NoFaultInvented
<1> SUFFICES ASSUME DnsInv PROVE NoFaultInvented
  OBVIOUS
<1> USE DEF DnsInv
<1>1. TypeOK
  BY DEF PathInv, QueriesInv, TypeOK
<1>2. FaultIffProven
  BY DEF PathInv, FaultIffProven
<1>3. OneWord
  BY DEF LinesInv, QueriesInv, OneWord
<1>4. AnswerIsOurs
  BY DEF QueriesInv, AnswerIsOurs
<1>5. QED
  BY <1>1, <1>2, <1>3, <1>4 DEF NoFaultInvented

\* Whatever the system lists, the kernel routes and the network answers: a nameserver is
\* reported unreachable only where a subnet proves it, and is asked only where none does; a
\* report says one thing of it and asks it once; and what is reported as its answer is the
\* answer to the query of this report (netdiag.rs:228, main.rs:1512).
THEOREM NoFaultIsInvented == Spec => []NoFaultInvented
<1>1. Spec => []DnsInv
  BY DnsInit, DnsNext, PTL DEF Spec
<1>2. QED
  BY <1>1, DnsHolds, PTL
================================================================================
