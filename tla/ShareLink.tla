------------------------------ MODULE ShareLink ------------------------------
(***************************************************************************)
(* Share links and what corvex reads from them (src/protocol.rs parse_uri  *)
(* and the four parsers).  Another client shares an account as a link; the *)
(* parser cuts the text at separators that the account's own password or   *)
(* name may contain.  Text is a sequence of characters and of base64 runs  *)
(* of other text; only the separators are told apart from letters.         *)
(***************************************************************************)
EXTENDS Naturals, Sequences, FiniteSets

CONSTANTS
  Refused, Nil,
  Colon, At, Hash, Question, Open, Close, Percent,   \* the separators
  Letters,      \* characters that separate nothing
  Method, Passwords, ServerNames, ServerHosts,   \* the texts of the shared accounts
  Ports,        \* what links have for a port
  Plugins,      \* what may follow an address in a SIP002 link
  Queries,      \* what a link may carry after Question: sequences of <<key, value>>
  AlterIds      \* how many values an alterId of corvex has: 2^32

VARIABLES account, link, params

vars == <<account, link, params>>

Separators == {Colon, At, Hash, Question, Open, Close, Percent}
Chars == Separators \cup Letters
Texts == Seq(Chars)

\* Items of a text that are no characters: a number, and a run of base64, with
\* the alphabet it uses and how many "=" are left of its padding.
Number(n) == [number |-> n]
Base64(text, url_safe, kept) == [text |-> text, url_safe |-> url_safe, kept |-> kept]
Is(item, field) == item \notin Chars /\ field \in DOMAIN item
IsNumber(item) == Is(item, "number")
IsBase64(item) == Is(item, "text")
IsEscape(item) == Is(item, "escaped")

\* How many "=" base64 ends with, and how long it is without them.
Padding(text) == (3 - (Len(text) % 3)) % 3
Base64Length(text) == (4 * Len(text) + 2) \div 3

\* Percent-encoding, as other clients do it: of separators.
Escape(c) == [escaped |-> c]
Encoded(text) == [i \in DOMAIN text |-> IF text[i] \in Separators THEN Escape(text[i]) ELSE text[i]]

-----------------------------------------------------------------------------
\* urlencoding::decode: a "%" that introduces nothing stays.
Decoded(text) == [i \in DOMAIN text |-> IF IsEscape(text[i]) THEN text[i].escaped ELSE text[i]]

\* decode_base64: either alphabet.  The length modulo 4 tells what to pad with.
DecodeBase64(text) ==
  IF Len(text) # 1 THEN Refused
  ELSE IF ~IsBase64(text[1]) THEN Refused
  ELSE LET length == (Base64Length(text[1].text) + text[1].kept) % 4
           added == CASE length = 2 -> 2 [] length = 3 -> 1 [] OTHER -> 0
       IN  IF text[1].kept + added = Padding(text[1].text) THEN text[1].text ELSE Refused

Places(text, c) == {i \in DOMAIN text : text[i] = c}
FirstPlace(text, c) == CHOOSE i \in Places(text, c) : \A j \in Places(text, c) : i <= j
LastPlace(text, c) == CHOOSE i \in Places(text, c) : \A j \in Places(text, c) : i >= j
Before(text, i) == SubSeq(text, 1, i - 1)
After(text, i) == SubSeq(text, i + 1, Len(text))

\* A port is a u16: parse, and u16::try_from for a JSON number.
MaxPort == 65535
Port(n) == IF n <= MaxPort THEN n ELSE Refused

ParsePort(text) == IF Len(text) # 1 THEN Refused
                   ELSE IF IsNumber(text[1]) THEN Port(text[1].number) ELSE Refused

\* The text of a setting that no link gives.
Empty == ""
Params(protocol, host, port, name) ==
  [protocol |-> protocol, host |-> host, port |-> port, name |-> name,
   password |-> Nil, method |-> Nil, network |-> "tcp", security |-> Empty, alter_id |-> 0]

\* parse_ss_uri: host:port, or [host]:port for an IPv6 address.
HostPort(text) ==
  IF text # <<>> /\ text[1] = Open
  THEN IF Places(text, Close) = {} THEN Refused
       ELSE LET i == FirstPlace(text, Close)
                rest == After(text, i)
            IN  IF rest = <<>> \/ rest[1] # Colon THEN Refused
                ELSE <<SubSeq(text, 2, i - 1), ParsePort(Tail(rest))>>
  ELSE IF Places(text, Colon) = {} THEN Refused
       ELSE LET i == LastPlace(text, Colon) IN <<Before(text, i), ParsePort(After(text, i))>>

\* method:password, cut at the first colon.
Ss(methodPassword, hostPort, name) ==
  IF Places(methodPassword, Colon) = {} \/ hostPort = Refused THEN Refused
  ELSE IF hostPort[2] = Refused THEN Refused
  ELSE LET i == FirstPlace(methodPassword, Colon)
       IN  [Params("shadowsocks", hostPort[1], hostPort[2], name) EXCEPT
              !.method = Before(methodPassword, i), !.password = After(methodPassword, i)]

\* parse_ss_uri, with an "@": the SIP002 form; the query is cut off.
ParseSip002(main, name) ==
  LET at == LastPlace(main, At)
      right == After(main, at)
      hostPort == IF Places(right, Question) = {} THEN right ELSE Before(right, FirstPlace(right, Question))
      userinfo == DecodeBase64(Before(main, at))
  IN  IF userinfo = Refused THEN Refused ELSE Ss(userinfo, HostPort(hostPort), name)

\* parse_ss_uri, without: the legacy form, all of it in base64.  The brackets of
\* an IPv6 address are left to xray.
ParseLegacy(main, name) ==
  LET text == DecodeBase64(main)
  IN  IF text = Refused THEN Refused
      ELSE IF Places(text, At) = {} THEN Refused
      ELSE LET at == FirstPlace(text, At)
               right == After(text, at)
           IN  IF Places(right, Colon) = {} THEN Refused
               ELSE LET i == LastPlace(right, Colon)
                    IN  Ss(Before(text, at), <<Before(right, i), ParsePort(After(right, i))>>, name)

\* The bug of cutting the name off at the first "#".
FaultyParseSs(text) ==
  LET main == IF Places(text, Hash) = {} THEN text ELSE Before(text, FirstPlace(text, Hash))
      name == IF Places(text, Hash) = {} THEN <<>> ELSE After(text, FirstPlace(text, Hash))
  IN  IF Places(main, At) # {} THEN ParseSip002(main, name) ELSE ParseLegacy(main, name)

\* parse_ss_uri: the name follows the last "#".
ParseSs(text) ==
  LET main == IF Places(text, Hash) = {} THEN text ELSE Before(text, LastPlace(text, Hash))
      name == IF Places(text, Hash) = {} THEN <<>> ELSE Decoded(After(text, LastPlace(text, Hash)))
  IN  IF Places(main, At) # {} THEN ParseSip002(main, name) ELSE ParseLegacy(main, name)

\* parse_common_query: the last value of a key stands.  Of the keys, the two
\* that decide how the server is reached are kept here.
ParseCommonQuery(p, query) ==
  LET of(key, old) == LET hits == {i \in DOMAIN query : query[i][1] = key}
                      IN  IF hits = {} THEN old
                          ELSE query[CHOOSE i \in hits : \A j \in hits : i >= j][2]
  IN  [p EXCEPT !.network = of("type", @), !.security = of("security", @)]

\* parse_vless_uri and parse_trojan_uri, over what url::Url makes of the link: it
\* refuses a port that is none.  The user of vless is taken as it is, that of
\* trojan is decoded.
ParseUrl(l) ==
  IF l.username = <<>> \/ l.host = Nil \/ l.port = Nil \/ l.port > MaxPort THEN Refused
  ELSE LET p == Params(l.scheme, l.host, l.port, Decoded(l.fragment))
       IN  IF l.scheme = "vless"
           THEN ParseCommonQuery([p EXCEPT !.password = l.username], l.query)
           ELSE ParseCommonQuery([p EXCEPT !.password = Decoded(l.username),
                                           !.security = "tls"], l.query)

\* The alterId: a string that is no u32 gives the default, a number is cut to one.
AlterId(json) ==
  IF json.aid = Nil \/ (json.quoted /\ json.aid >= AlterIds) THEN 0 ELSE json.aid % AlterIds

\* parse_vmess_uri: JSON in base64, whose numbers may be strings.
ParseVmess(l) ==
  IF DecodeBase64(l.text) = Refused THEN Refused
  ELSE LET json == DecodeBase64(l.text)[1]
  IN  IF json.add = Nil \/ json.id = Nil \/ json.port = Nil THEN Refused
      ELSE IF Port(json.port) = Refused THEN Refused
      ELSE [Params("vmess", json.add, Port(json.port), IF json.ps = Nil THEN <<>> ELSE json.ps)
              EXCEPT !.password = json.id,
                     !.alter_id = AlterId(json),
                     !.network = IF json.net = Nil THEN "tcp" ELSE json.net,
                     !.security = IF json.tls = Nil THEN Empty ELSE json.tls]

\* parse_uri
ParseUri(l) ==
  CASE l.scheme = "ss" -> ParseSs(l.text)
    [] l.scheme \in {"vless", "trojan"} -> ParseUrl(l)
    [] l.scheme = "vmess" -> ParseVmess(l)
    [] OTHER -> Refused

-----------------------------------------------------------------------------
Accounts ==
  [password : Passwords, name : ServerNames, host : ServerHosts, port : Ports]

\* How other clients share an account.
Bracketed(host) == IF Places(host, Colon) = {} THEN host ELSE <<Open>> \o host \o <<Close>>
Address(a) == Bracketed(a.host) \o <<Colon, Number(a.port)>>
MethodPassword(a) == Method \o <<Colon>> \o a.password
Tag(a) == IF a.name = <<>> THEN <<>> ELSE <<Hash>> \o Encoded(a.name)

Sip002(a, url_safe, kept, plugin) ==
  [scheme |-> "ss", form |-> "sip002",
   text |-> <<Base64(MethodPassword(a), url_safe, kept), At>> \o Address(a) \o plugin \o Tag(a)]
LegacyText(a) == MethodPassword(a) \o <<At>> \o Address(a)
Legacy(a, url_safe, kept) ==
  [scheme |-> "ss", form |-> "legacy",
   text |-> <<Base64(LegacyText(a), url_safe, kept)>> \o Tag(a)]

\* url::Url keeps the brackets of an IPv6 address in host_str.
UrlLink(scheme, a, query) ==
  [scheme |-> scheme, form |-> "url", username |-> Encoded(a.password),
   host |-> Bracketed(a.host), port |-> a.port, query |-> query, fragment |-> Encoded(a.name)]

\* The JSON is one item of its text.
VmessLink(a, aid, quoted, kept) ==
  [scheme |-> "vmess", form |-> "vmess",
   text |-> <<Base64(<<[add |-> a.host, id |-> a.password, port |-> a.port, ps |-> a.name,
                    aid |-> aid, quoted |-> quoted, net |-> Nil, tls |-> Nil]>>, FALSE, kept)>>]

Links(a) ==
  {Sip002(a, url_safe, kept, plugin) : url_safe \in BOOLEAN,
     kept \in {0, Padding(MethodPassword(a))}, plugin \in Plugins}
  \cup {Legacy(a, url_safe, kept) : url_safe \in BOOLEAN, kept \in {0, Padding(LegacyText(a))}}
  \cup {UrlLink("trojan", a, query) : query \in Queries}
  \* The user of a vless link is a UUID, which holds no separator.
  \cup {UrlLink("vless", a, query) : query \in IF Encoded(a.password) = a.password
                                                THEN Queries ELSE {}}
  \cup {VmessLink(a, aid, quoted, kept) :
          aid \in {Nil, 0, AlterIds, AlterIds + 1}, quoted \in BOOLEAN, kept \in {0, 2}}

\* What items of a text may be but characters, and what may be read from it.
Numbers == [number : Nat]
Escapes == [escaped : Separators]
Jsons == [add : Texts, id : Texts, port : Nat, ps : Texts, aid : Nat \cup {Nil},
          quoted : BOOLEAN, net : {Nil}, tls : {Nil}]
Runs == [text : Seq(Chars \cup Numbers \cup Jsons), url_safe : BOOLEAN, kept : 0..2]
ProxyParams ==
  [protocol : {"vless", "vmess", "trojan", "shadowsocks"}, host : Texts, port : Nat, name : Texts,
   password : Texts, method : Texts \cup {Nil}, network : STRING \cup {"tcp"},
   security : STRING \cup {Empty, "tls"}, alter_id : Nat]

ConstantsTyped ==
  /\ Colon \notin {At, Hash, Question, Open, Close, Percent}
  /\ At \notin {Hash, Question, Open, Close, Percent}
  /\ Hash \notin {Question, Open, Close, Percent}
  /\ Question \notin {Open, Close, Percent}
  /\ Open # Close
  /\ Letters \cap Separators = {}
  /\ Method \in Seq(Letters)
  /\ Passwords \subseteq Texts \ {<<>>} /\ ServerNames \subseteq Texts
  /\ ServerHosts \subseteq Seq(Letters \cup {Colon})
  /\ Ports \subseteq Nat
  \* A link's options follow its address after a Question; a Hash would be escaped.
  /\ \A plugin \in Plugins :
       plugin \in Seq(Chars \ {Hash}) /\ (plugin # <<>> => plugin[1] = Question)
  /\ Queries \subseteq Seq(STRING \X STRING)
  /\ AlterIds \in Nat \ {0}
  \* An item of another kind is no character, and what stands for no value is none.
  /\ Chars \cap (Numbers \cup Escapes \cup Runs) = {}
  /\ Nil # Refused
  /\ {Nil, Refused} \cap (Nat \cup ProxyParams) = {}
  /\ Nil \notin Texts /\ Refused \notin Seq(Chars \cup Numbers \cup Jsons)
  /\ Refused \notin Texts \X (Nat \cup {Refused})

\* The link is pasted, or comes from a subscription.
Init ==
  /\ account \in Accounts
  /\ link \in Links(account)
  /\ params = Nil

Parse ==
  /\ params = Nil
  /\ params' = ParseUri(link)
  /\ UNCHANGED <<account, link>>

Next == Parse
Spec == Init /\ [][Next]_vars

-----------------------------------------------------------------------------
Read == params \notin {Nil, Refused}

\* The host that is read may keep the brackets of an IPv6 address: xray takes
\* them off.
Same(p, a) ==
  /\ p.host \in {a.host, Bracketed(a.host)}
  /\ p.port = a.port /\ p.name = a.name /\ p.password = a.password

LegacyAt == link.form = "legacy" /\ Places(account.password, At) # {}

\* What is read has a port that is one, an alterId that is one, and a protocol
\* xray knows.
TypeOK ==
  Read => /\ params.protocol \in {"vless", "vmess", "trojan", "shadowsocks"}
          /\ params.port \in 0..MaxPort
          /\ params.alter_id \in 0..AlterIds - 1

\* A link is read as the account that was shared, or refused: a separator in a
\* password, a name or an address never yields another server, and a port that
\* is none never another port.  Excepted is the legacy form with an "@" in the
\* password, which is cut at the first one.
NeverAnother == Read => Same(params, account) \/ LegacyAt

\* Every link of another client with a port that is one is read, whichever base64
\* it uses; excepted are plugin options that hold an "@", and the legacy form
\* with an "@" in the password.
ReadsAll ==
  params = Refused =>
    \/ account.port > MaxPort
    \/ link.form = "sip002" /\ Cardinality(Places(link.text, At)) > 1
    \/ LegacyAt
=============================================================================
