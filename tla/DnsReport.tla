------------------------------- MODULE DnsReport -------------------------------
(***************************************************************************)
(* `corvex dns` (src/src/main.rs cmd_dns_with, src/src/netdiag.rs): the    *)
(* walk over the resolvers the system lists, the judgement whether the     *)
(* router on the way to a nameserver is on the wire, and the one query it  *)
(* is sent if so.  A command run before may have left its query, and the   *)
(* answer to it, on the network.                                           *)
(*                                                                         *)
(* An IPv4 address is the set of its bits that are set, a netmask likewise *)
(* and the bitwise and their intersection.                                 *)
(***************************************************************************)
EXTENDS Naturals, Sequences, SequencesExt, FiniteSets

CONSTANTS
  Platforms,    \* those that list resolvers: "macos", "linux"
  Width,        \* bits of an address
  Listings,     \* what list_system_resolvers may return
  Routes,       \* what the kernel may route an address to
  Interfaces,   \* what addresses an interface may have
  Ports,        \* the ports the kernel gives to a socket
  Commands,     \* bound: how often the command is run
  Nil

VARIABLES
  platform,
  pc,        \* "list", "walk", "route", "inets", "send", "recv", "write", "end"
  command,   \* the number of the command
  todo,      \* the nameservers still to be reported, each as often as listed
  lines,     \* the lines of this report, by nameserver
  report,    \* the lines written: pairs of a nameserver and its line
  route,     \* what the kernel had for the nameserver, when asked
  inets,     \* and the addresses of its interface
  hop,       \* NextHop
  socket,    \* the query it sent
  verdict,   \* the line of the nameserver that is walked
  queries,   \* every query sent: [to, port, id], and by which command
  answered   \* those its resolver has answered

walk == <<todo, lines, report>>
path == <<route, inets, hop>>
network == <<queries, answered>>
vars == <<platform, pc, command, walk, path, socket, verdict, network>>

Bits == 1..Width
Address(class, bits) == [class |-> class, bits |-> bits]
Addresses == [class : {"v4", "v6"}, bits : SUBSET Bits]

-----------------------------------------------------------------------------
(***************************************************************************)
(* The commands' text.  A token is [text, address, length].                *)
(***************************************************************************)
Word(text) == [text |-> text, address |-> Nil, length |-> 0]
Literal(address) == [Word("address") EXCEPT !.address = address]
WithPrefix(address, length) == [text |-> "a/n", address |-> address, length |-> length]
Mask(length) == [Word("mask") EXCEPT !.length = length]

Texts == {"address", "a/n", "mask", "inet", "netmask", "-->", "peer"}
Verdicts == {"undiagnosed", "no route", "unreachable", "failed", "answered"}
Tokens == [text : STRING \cup Texts, address : Addresses \cup {Nil}, length : 0..Width]

ConstantsTyped ==
  /\ Width \in Nat \ {0} /\ Commands \in Nat \ {0}
  /\ \A r \in Routes : r.gateway \in Addresses \cup {Nil}
  \* An interface's own address, how long its network's prefix is, and its peer.
  /\ Interfaces \subseteq Seq([class : {"v4", "v6"}, bits : SUBSET Bits, length : 0..Width,
                              peer : Addresses \cup {Nil}])
  \* What stands for no value is none.
  /\ Nil \notin Addresses \cup Tokens \cup Verdicts /\ \A mask \in SUBSET Bits : mask # Nil

ASSUME DnsTyped == ConstantsTyped

\* route -n get, key by key; ip route get, which names the family of a gateway
\* that is not of the route's own.
RouteText(r) ==
  IF r = Nil THEN <<>>
  ELSE IF platform = "macos"
    THEN LET destination == <<Word("destination"), Literal(Address("v4", {}))>>
             interface == <<Word("interface"), Word(r.interface)>>
         IN  IF r.gateway = Nil THEN <<destination, interface>>
             ELSE <<destination, <<Word("gateway"), Literal(r.gateway)>>, interface>>
    ELSE <<<<Literal(Address("v4", {}))>>
             \o (IF r.gateway = Nil THEN <<>>
                 ELSE IF r.gateway.class = "v6" THEN <<Word("via"), Word("inet6"), Literal(r.gateway)>>
                 ELSE <<Word("via"), Literal(r.gateway)>>)
             \o <<Word("dev"), Word(r.interface), Word("src"), Literal(Address("v4", {}))>>,
           <<Word("cache")>>>>

\* ifconfig; ip addr show.  An address with a peer has its mask after the peer.
InetText(a) ==
  LET inet == Word("inet")
      own == Address("v4", a.bits)
  IN  IF a.class = "v6" THEN <<Word("inet6"), WithPrefix(Address("v6", a.bits), a.length)>>
      ELSE IF platform = "macos"
        THEN IF a.peer = Nil THEN <<inet, Literal(own), Word("netmask"), Mask(a.length)>>
             ELSE <<inet, Literal(own), Word("-->"), Literal(a.peer), Word("netmask"), Mask(a.length)>>
        ELSE IF a.peer = Nil THEN <<inet, WithPrefix(own, a.length)>>
             ELSE <<inet, Literal(own), Word("peer"), WithPrefix(a.peer, a.length)>>
InterfaceText(i) == IF i = Nil THEN <<>> ELSE [k \in DOMAIN i |-> InetText(i[k])]

-----------------------------------------------------------------------------
(* The parsers, and the arithmetic. *)
Positions(tokens, keyword) == {k \in DOMAIN tokens : tokens[k].text = keyword}
\* The token after the first that is the keyword, Nil if there is none.
After(tokens, keyword) ==
  LET at == Positions(tokens, keyword)
      first == CHOOSE k \in at : \A j \in at : k <= j
  IN  IF at = {} \/ first = Len(tokens) THEN Nil ELSE tokens[first + 1]

RouteGet(gateway, interface) == [gateway |-> gateway, interface |-> interface]

\* A key's value, the last of them if a key is repeated.
ValueOf(text, key) ==
  LET at == {k \in DOMAIN text : text[k][1].text = key}
  IN  IF at = {} THEN Nil ELSE text[CHOOSE k \in at : \A j \in at : j <= k][2]

\* parse_route_get
ParseRouteGet(text) ==
  LET gateway == ValueOf(text, "gateway")
      interface == ValueOf(text, "interface")
  IN  IF interface = Nil THEN Nil
      ELSE RouteGet(IF gateway = Nil THEN Nil ELSE gateway.address, interface.text)

\* parse_ip_route_get: of the first line that names a device.  The family that
\* may come before a gateway is stepped over.
ParseIpRouteGet(text) ==
  LET named == {k \in DOMAIN text : After(text[k], "dev") # Nil}
      first == text[CHOOSE k \in named : \A j \in named : k <= j]
      via == After(first, "via")
      gateway == IF via # Nil /\ via.text \in {"inet", "inet6"} THEN After(first, via.text) ELSE via
  IN  IF named = {} THEN Nil
      ELSE RouteGet(IF gateway = Nil THEN Nil ELSE gateway.address, After(first, "dev").text)

\* netmask_from_prefix; parse_netmask gets the same mask from what ifconfig
\* prints of it.
NetmaskFromPrefix(length) ==
  IF length = 0 THEN {} ELSE IF length <= Width THEN 1..length ELSE Nil

InetAddr(address, netmask) == [address |-> address, netmask |-> netmask]

\* parse_ifconfig_inets, of one line
IfconfigInet(tokens) ==
  LET mask == After(tokens, "netmask")
  IN  IF tokens[1].text # "inet" \/ tokens[2].address.class # "v4" \/ mask = Nil THEN {}
      ELSE {InetAddr(tokens[2].address, NetmaskFromPrefix(mask.length))}

\* parse_ip_addr_inets, of one line: an address whose prefix is elsewhere is not read.
IpAddrInet(tokens) ==
  IF \/ tokens[1].text # "inet" \/ tokens[2].text # "a/n"
     \/ tokens[2].address.class # "v4" \/ NetmaskFromPrefix(tokens[2].length) = Nil THEN {}
  ELSE {InetAddr(tokens[2].address, NetmaskFromPrefix(tokens[2].length))}

\* Their order tells nothing.
ParseInets(text) ==
  UNION {IF platform = "macos" THEN IfconfigInet(text[k]) ELSE IpAddrInet(text[k]) :
           k \in DOMAIN text}

\* next_hop_on_link
NextHopOnLink(gateway, address, netmask) ==
  \/ gateway.class # "v4" \/ address.class # "v4"
  \/ gateway.bits \cap netmask = address.bits \cap netmask

HostNetmask == Bits

\* route_is_on_link
RouteIsOnLink(r, addresses) ==
  LET judged == {a \in addresses : a.netmask # HostNetmask}
  IN  \/ r.gateway = Nil
      \/ judged = {}
      \/ \E a \in judged : NextHopOnLink(r.gateway, a.address, a.netmask)

\* NextHop::from_route
FromRoute(r, addresses) ==
  [gateway |-> r.gateway, interface |-> r.interface, on_link |-> RouteIsOnLink(r, addresses)]

-----------------------------------------------------------------------------
(* The walk. *)
Init ==
  /\ platform \in Platforms /\ pc = "list" /\ command = 1
  /\ todo = <<>> /\ lines = <<>> /\ report = <<>>
  /\ route = Nil /\ inets = Nil /\ hop = Nil /\ socket = Nil /\ verdict = Nil
  /\ queries = {} /\ answered = {}

\* is_diagnosable_nameserver
Diagnosable(nameserver) == nameserver.class = "v4"

\* cmd_dns_with: the listing, which may be an error or empty.  A heading is
\* written for each resolver, which nothing depends on.
List ==
  /\ pc = "list"
  /\ \/ \E resolvers \in Listings :
          /\ todo' = FlattenSeq(resolvers)
          /\ pc' = IF resolvers = <<>> THEN "end" ELSE "walk"
     \/ pc' = "end" /\ UNCHANGED todo
  /\ UNCHANGED <<platform, command, lines, report, path, socket, verdict, network>>

\* The next nameserver: its line is known, or is of no diagnosis, or is to be
\* found out.
Walk ==
  /\ pc = "walk"
  /\ IF todo = <<>> THEN pc' = "end" /\ UNCHANGED verdict
     ELSE IF Head(todo) \in DOMAIN lines THEN pc' = "write" /\ verdict' = lines[Head(todo)]
     ELSE IF ~Diagnosable(Head(todo)) THEN pc' = "write" /\ verdict' = "undiagnosed"
     ELSE pc' = "route" /\ UNCHANGED verdict
  /\ UNCHANGED <<platform, command, walk, path, socket, network>>

\* next_hop_status asks for the route, ...
AskRoute ==
  /\ pc = "route"
  /\ \E r \in Routes \cup {Nil} :
       LET parsed == IF platform = "macos" THEN ParseRouteGet(RouteText(r))
                     ELSE ParseIpRouteGet(RouteText(r))
       IN  IF parsed = Nil THEN pc' = "write" /\ verdict' = "no route" /\ UNCHANGED route
           ELSE pc' = "inets" /\ route' = parsed /\ UNCHANGED verdict
  /\ UNCHANGED <<platform, command, walk, inets, hop, socket, network>>

\* ... and then for its interface, which may have changed or be gone; what is
\* no fault is probed.
AskInterface ==
  /\ pc = "inets"
  /\ \E i \in Interfaces \cup {Nil} :
       LET next == FromRoute(route, ParseInets(InterfaceText(i)))
       IN  /\ inets' = i /\ hop' = next
           /\ IF next.on_link THEN pc' = "send" /\ UNCHANGED verdict
              ELSE pc' = "write" /\ verdict' = "unreachable"
  /\ UNCHANGED <<platform, command, walk, route, socket, network>>

\* probe_udp53_at opens and connects a socket and sends one query, whose id is
\* random: it is modelled as one no query before it had.
Send ==
  /\ pc = "send"
  /\ \/ \E port \in Ports :
          LET query == [to |-> Head(todo), port |-> port, id |-> Cardinality(queries),
                        command |-> command]
          IN  queries' = queries \cup {query} /\ socket' = query /\ pc' = "recv"
              /\ UNCHANGED verdict
     \/ pc' = "write" /\ verdict' = "failed" /\ UNCHANGED <<queries, socket>>
  /\ UNCHANGED <<platform, command, walk, path, answered>>

\* The resolver answers a query, soon or late.
Answer ==
  /\ \E q \in queries \ answered : answered' = answered \cup {q}
  /\ UNCHANGED <<platform, pc, command, walk, path, socket, verdict, queries>>

\* The bug of taking any answer for the answer to this query.
FaultyParseDnsResponse(message, id) == message.length = "whole" /\ message.qr

\* parse_dns_response, TRUE if it finds no error.
ParseDnsResponse(message, id) == message.length = "whole" /\ message.id = id /\ message.qr

\* The first datagram that comes to the port from the nameserver decides: the
\* answer to a query of before may be there first.
Receive ==
  /\ pc = "recv"
  /\ \E q \in queries, length \in {"whole", "short"}, qr \in BOOLEAN :
       /\ q.to = socket.to /\ q.port = socket.port
       /\ length = "whole" /\ qr => q \in answered
       /\ verdict' = IF ParseDnsResponse([id |-> q.id, length |-> length, qr |-> qr], socket.id)
                     THEN "answered" ELSE "failed"
  /\ pc' = "write"
  /\ UNCHANGED <<platform, command, walk, path, socket, network>>

\* Nothing comes in time, or the port is closed.
NoReply ==
  /\ pc = "recv"
  /\ pc' = "write" /\ verdict' = "failed"
  /\ UNCHANGED <<platform, command, walk, path, socket, network>>

\* The line is written and kept; to write may fail, which ends the command.
Write ==
  /\ pc = "write"
  /\ \/ /\ report' = Append(report, <<Head(todo), verdict>>)
        /\ lines' = [n \in DOMAIN lines \cup {Head(todo)} |->
                       IF n = Head(todo) THEN verdict ELSE lines[n]]
        /\ todo' = Tail(todo) /\ pc' = "walk"
     \/ pc' = "end" /\ UNCHANGED walk
  /\ route' = Nil /\ inets' = Nil /\ hop' = Nil /\ socket' = Nil /\ verdict' = Nil
  /\ UNCHANGED <<platform, command, network>>

\* The command is run again.
Again ==
  /\ pc = "end" /\ command < Commands
  /\ command' = command + 1 /\ pc' = "list"
  /\ todo' = <<>> /\ lines' = <<>> /\ report' = <<>>
  /\ UNCHANGED <<platform, path, socket, verdict, network>>

Step == List \/ Walk \/ AskRoute \/ AskInterface \/ Send \/ NoReply \/ Write
Done == pc = "end" /\ command = Commands /\ UNCHANGED vars
Next == Step \/ Receive \/ Answer \/ Again \/ Done
\* The program runs on, and its socket has a timeout; that anything is received
\* is not assumed.
Spec == Init /\ [][Next]_vars /\ WF_vars(Step)

-----------------------------------------------------------------------------
\* Where the walk is and what it holds there: of a judged path, both halves.
TypeOK ==
  /\ platform \in Platforms /\ command \in 1..Commands
  /\ pc \in {"list", "walk", "route", "inets", "send", "recv", "write", "end"}
  /\ pc \in {"route", "inets", "send", "recv", "write"} => todo # <<>>
  /\ (verdict # Nil) <=> (pc = "write")
  /\ pc = "recv" => socket \in queries /\ socket.to = Head(todo)
  /\ answered \subseteq queries

\* The addresses of an interface that have a subnet, and that subnet.
Judged(i) == IF i = Nil THEN {} ELSE
  {a \in ToSet(i) : a.class = "v4" /\ a.length < Width /\ (a.peer = Nil \/ platform = "macos")}
Subnet(a) == {x \in SUBSET Bits : \A b \in 1..a.length : b \in x <=> b \in a.bits}
Fault ==
  /\ route # Nil /\ inets # Nil /\ route.gateway # Nil
  /\ route.gateway.class = "v4" /\ Judged(inets) # {}
  /\ \A a \in Judged(inets) : route.gateway.bits \notin Subnet(a)

\* A nameserver is reported unreachable exactly when there is a subnet to tell
\* by and the gateway is in none, and it is sent a query only if not: a host
\* alias hides no fault, and no address family, no failed command and no
\* interface without a subnet makes one (netdiag.rs:228-246).
FaultIffProven ==
  /\ verdict = "unreachable" /\ hop # Nil => Fault
  /\ pc \in {"send", "recv"} => ~Fault /\ Diagnosable(Head(todo))

\* One report says one thing of a nameserver, however often it is mentioned,
\* and asks it once (main.rs:1512-1519).
OneWord ==
  /\ \A j, k \in DOMAIN report : report[j][1] = report[k][1] => report[j][2] = report[k][2]
  /\ \A p, q \in queries : p.to = q.to /\ p.command = q.command => p = q

\* A nameserver that is reported to answer has answered the query of this very
\* report, not one of before.
AnswerIsOurs == verdict = "answered" /\ socket # Nil => socket \in answered

\* A nameserver is unreachable exactly where a subnet proves it; a report says
\* one thing of it, and asks it once; and an answer is the answer to the query
\* of this very report (netdiag.rs:228, main.rs:1512).
NoFaultInvented == TypeOK /\ FaultIffProven /\ OneWord /\ AnswerIsOurs

\* The report ends, whatever answers or does not.
ReportEnds == [](pc = "list" => <>(pc = "end"))
=============================================================================
