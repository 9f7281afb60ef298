------------------------------- MODULE FlowProofs -------------------------------
(***************************************************************************)
(* That commands leave the parts of StartFlow agreeing, that what is       *)
(* spawned, said and written is what was meant, for every set of servers,  *)
(* processes, installations and environments and any number of faults;     *)
(* that the tunnel AwgTunnel brings up has of its link exactly the values  *)
(* of the keys, whatever links there are and however often corvex is run;  *)
(* and that this holds of Flow, the parts side by side.                    *)
(***************************************************************************)
EXTENDS Flow, WellFoundedInduction, SequenceTheorems, TLAPS

-----------------------------------------------------------------------------
(***************************************************************************)
(* The tunnel.                                                             *)
(***************************************************************************)
\* A set of numbers that is not empty has a least one.
LEMMA Least == ASSUME NEW T, T \subseteq Nat, T # {} PROVE \E x \in T : \A y \in T : x <= y
<1>1. \E x \in T : \A y \in T : <<y, x>> \notin OpToRel(<, Nat)
  BY NatLessThanWellFounded, WFMin
<1>2. PICK x \in T : \A y \in T : <<y, x>> \notin OpToRel(<, Nat)
  BY <1>1
<1>3. ASSUME NEW y \in T PROVE x <= y
  <2>1. <<y, x>> \notin {ss \in Nat \X Nat : ss[1] < ss[2]}
    BY <1>2 DEF OpToRel
  <2>2. QED
    BY <2>1
<1>4. QED
  BY <1>3

\* What SelectInSeq makes of the indices that will do: the first of them, or 0.
First(I) == IF I # {} THEN CHOOSE x \in I : \A y \in I : x <= y ELSE 0

\* It is among them, and none is before it.
LEMMA FirstOf ==
  ASSUME NEW n \in Nat, NEW I, I \subseteq 1..n, NEW i, i = First(I)
  PROVE  /\ i \in 0..n
         /\ i # 0 => i \in I /\ \A j \in 1..(i - 1) : j \notin I
         /\ i = 0 => I = {}
<1>1. CASE I # {}
  <2>1. \E x \in I : \A y \in I : x <= y
    <3>1. I \subseteq Nat
      OBVIOUS
    <3>2. QED
      BY <1>1, <3>1, Least
  <2>2. i = CHOOSE x \in I : \A y \in I : x <= y
    BY <1>1 DEF First
  <2>3. i \in I /\ \A j \in I : i <= j
    BY <2>1, <2>2
  <2>4. QED
    BY <2>3
<1>2. CASE I = {}
  BY <1>2 DEF First
<1>3. QED
  BY <1>1, <1>2

\* Flattening a sequence of sequences of one element gives their elements.
LEMMA FlattenOnes ==
  ASSUME NEW S, NEW lines \in Seq(S), lines # <<>>,
         NEW ones, ones = [i \in DOMAIN lines |-> <<lines[i]>>]
  PROVE  Tunnel!FlattenSeq(ones) = lines
<1> DEFINE n == Len(lines)
           Step(f, i) == IF i = 1 THEN ones[i] ELSE f[i - 1] \o ones[i]
           F(f) == [i \in 1..n |-> Step(f, i)]
           g == [i \in 1..n |-> SubSeq(lines, 1, i)]
           flatten == CHOOSE f : f = F(f)
<1>1. n \in Nat \ {0} /\ DOMAIN lines = 1..n /\ Len(ones) = n
  OBVIOUS
<1>2. Tunnel!FlattenSeq(ones) = flatten[n]
  BY <1>1 DEF Tunnel!FlattenSeq
<1>3. ASSUME NEW i \in 1..n, i # 1 PROVE SubSeq(lines, 1, i) = SubSeq(lines, 1, i - 1) \o <<lines[i]>>
  BY <1>1, <1>3, SubSeqRecursiveSecond
<1>4. SubSeq(lines, 1, 1) = <<lines[1]>> /\ SubSeq(lines, 1, n) = lines
  <2>1. SubSeq(lines, 1, n) = lines
    BY SubSeqFull
  <2>2. SubSeq(lines, 1, 1) \in Seq(S) /\ Len(SubSeq(lines, 1, 1)) = 1 /\ SubSeq(lines, 1, 1)[1] = lines[1]
    BY <1>1, SubSeqProperties
  <2>3. ASSUME NEW one \in Seq(S), Len(one) = 1, one[1] = lines[1] PROVE one = <<lines[1]>>
    BY <2>3
  <2>4. QED
    BY <2>1, <2>2, <2>3
<1>5. g = F(g)
  <2>1. ASSUME NEW i \in 1..n PROVE g[i] = Step(g, i)
    <3>1. ones[i] = <<lines[i]>>
      BY <1>1, <2>1
    <3>2. CASE i = 1
      BY <1>1, <1>4, <3>1, <3>2
    <3>3. CASE i # 1
      <4>1. i - 1 \in 1..n
        BY <1>1, <2>1, <3>3
      <4>2. g[i - 1] = SubSeq(lines, 1, i - 1) /\ g[i] = SubSeq(lines, 1, i)
        BY <2>1, <4>1
      <4>3. QED
        BY <1>3, <2>1, <3>1, <3>3, <4>2
    <3>4. QED
      BY <3>2, <3>3
  <2>2. QED
    BY <2>1
<1>6. flatten = F(flatten)
  <2> HIDE DEF F, g
  <2>1. \E f : f = F(f)
    BY <1>5
  <2>2. QED
    BY <2>1
<1> HIDE DEF flatten
<1>7. \A i \in 1..n : flatten[i] = g[i]
  <2> DEFINE T == {i \in 1..n : flatten[i] # g[i]}
  <2>1. SUFFICES ASSUME T # {} PROVE FALSE
    OBVIOUS
  <2>2. PICK i \in T : \A j \in T : i <= j
    <3>1. T \subseteq Nat
      BY <1>1
    <3>2. QED
      BY <2>1, <3>1, Least
  <2>3. flatten[i] = Step(flatten, i) /\ g[i] = Step(g, i)
    BY <1>5, <1>6
  <2>4. CASE i = 1
    BY <2>2, <2>3, <2>4
  <2>5. CASE i # 1
    <3>1. i - 1 \in 1..n
      BY <1>1, <2>2, <2>5
    <3>4. i - 1 \notin T
      <4>1. ~(i <= i - 1)
        BY <1>1, <2>2
      <4>2. QED
        BY <2>2, <4>1
    <3>2. flatten[i - 1] = g[i - 1]
      BY <3>1, <3>4
    <3>3. QED
      BY <2>2, <2>3, <2>5, <3>2
  <2>6. QED
    BY <2>4, <2>5
<1>8. QED
  BY <1>1, <1>2, <1>4, <1>7

\* The container a link is read from is the first of the engine's.
LEMMA OwnIs ==
  ASSUME NEW l \in Seq(Tunnel!Containers)
  PROVE  Tunnel!OwnContainer(l) \in 0..Len(l)
<1> DEFINE I == {i \in 1..Len(l) : l[i].name = "awg"}
<1>1. Tunnel!OwnContainer(l) = First(I)
  BY Zenon DEF Tunnel!OwnContainer, Tunnel!SelectInSeq, Tunnel!Min, First
<1>2. Len(l) \in Nat /\ I \subseteq 1..Len(l)
  OBVIOUS
<1> HIDE DEF I
<1>3. QED
  BY <1>1, <1>2, FirstOf

\* What the fields of a link are written as.
LEMMA ParsedIs ==
  ASSUME NEW l \in Links, Tunnel!ParseVpnUri(l) # Nil,
         NEW a, a = Tunnel!ParseVpnUri(l), NEW v, v = l[Tunnel!OwnContainer(l)].awg
  PROVE  /\ a \in Tunnel!Configs
         /\ \A f \in Tunnel!Fields : a[f].id = v[f].id
         /\ a["endpoint"].id = <<v["hostName"].id, v["port"].id>>
<1> DEFINE own == Tunnel!OwnContainer(l)
           E == Tunnel!Fields \cup {"hostName", "port"}
<1>1. l \in Seq(Tunnel!Containers)
  BY ConstantsTyped DEF Tunnel!ConstantsTyped
<1>2. /\ own # 0 /\ v # Nil /\ Tunnel!Endpoint(v) # Nil
      /\ \A f \in Tunnel!Fields : Tunnel!StrField(v[f]) # Nil
      /\ a = [f \in Tunnel!Fields \cup {"endpoint"} |->
                IF f = "endpoint" THEN Tunnel!Endpoint(v) ELSE Tunnel!StrField(v[f])]
  <2> HIDE DEF own
  <2>1. Tunnel!ParseVpnUri(l) =
          IF own = 0 THEN Nil
          ELSE IF \/ v = Nil \/ Tunnel!Endpoint(v) = Nil
                  \/ \E f \in Tunnel!Fields : Tunnel!StrField(v[f]) = Nil THEN Nil
          ELSE [f \in Tunnel!Fields \cup {"endpoint"} |->
                  IF f = "endpoint" THEN Tunnel!Endpoint(v) ELSE Tunnel!StrField(v[f])]
    BY Zenon DEF Tunnel!ParseVpnUri, own
  <2>2. QED
    BY <2>1, Zenon
<1>3. v \in [E -> Tunnel!Values]
  <2>1. own \in 1..Len(l)
    BY <1>1, <1>2, OwnIs
  <2>2. l[own] \in Tunnel!Containers
    BY <1>1, <2>1
  <2>3. v \in [E -> Tunnel!Values] \cup {Nil}
    BY <2>2 DEF Tunnel!Containers
  <2>4. QED
    BY <1>2, <2>3
<1> HIDE DEF own
<1>4. "hostName" \in E /\ "port" \in E /\ Tunnel!Fields \subseteq E /\ "endpoint" \notin Tunnel!Fields
  BY DEF Tunnel!Fields
<1>5. ASSUME NEW x \in Tunnel!Values, NEW newline \in BOOLEAN
      PROVE  Tunnel!Text(x.id, newline) \in Tunnel!Texts /\ Tunnel!Text(x.id, newline).id = x.id
  BY DEF Tunnel!Values, Tunnel!Texts, Tunnel!Text
<1>6. /\ Tunnel!Endpoint(v) \in Tunnel!Texts
      /\ Tunnel!Endpoint(v).id = <<v["hostName"].id, v["port"].id>>
  <2>1. Tunnel!Endpoint(v) = Tunnel!Text(<<v["hostName"].id, v["port"].id>>, v["hostName"].newline)
    BY <1>2, Zenon DEF Tunnel!Endpoint
  <2>2. v["hostName"].id \in Ids /\ v["port"].id \in Ids /\ v["hostName"].newline \in BOOLEAN
    <3>1. v["hostName"] \in Tunnel!Values /\ v["port"] \in Tunnel!Values
      BY <1>3, <1>4
    <3>2. QED
      BY <3>1 DEF Tunnel!Values
  <2>3. ASSUME NEW id \in Ids \X Ids, NEW newline \in BOOLEAN
        PROVE  Tunnel!Text(id, newline) \in Tunnel!Texts /\ Tunnel!Text(id, newline).id = id
    <3>1. id \in Ids \cup (Ids \X Ids) \cup {"8.8.8.8", "0.0.0.0/0, ::/0", "25"}
      OBVIOUS
    <3>2. QED
      BY <3>1 DEF Tunnel!Text, Tunnel!Texts
  <2>4. <<v["hostName"].id, v["port"].id>> \in Ids \X Ids
    BY <2>2
  <2>5. QED
    BY <2>1, <2>2, <2>3, <2>4
<1>7. ASSUME NEW f \in Tunnel!Fields
      PROVE  Tunnel!StrField(v[f]) \in Tunnel!Texts /\ Tunnel!StrField(v[f]).id = v[f].id
  <2>1. v[f] \in Tunnel!Values /\ v[f].newline \in BOOLEAN
    <3>1. v[f] \in Tunnel!Values
      BY <1>3, <1>4
    <3>2. QED
      BY <3>1 DEF Tunnel!Values
  <2>2. Tunnel!StrField(v[f]) = Tunnel!Text(v[f].id, v[f].newline)
    BY <1>2, Zenon DEF Tunnel!StrField
  <2>3. QED
    BY <1>5, <2>1, <2>2
<1>8. QED
  <2>1. \A f \in Tunnel!Fields : a[f] = Tunnel!StrField(v[f])
    BY <1>2, <1>4
  <2>2. a["endpoint"] = Tunnel!Endpoint(v)
    BY <1>2
  <2>3. a \in [Tunnel!Fields \cup {"endpoint"} -> Tunnel!Texts]
    BY <1>2, <1>4, <1>6, <1>7
  <2>4. QED
    BY <1>6, <1>7, <2>1, <2>2, <2>3 DEF Tunnel!Configs

\* The keys of the file's lines in their order, and what each is written from;
\* the last of each section are fixed.
LineKeys == <<"PrivateKey", "Address", "Jc", "Jmin", "Jmax", "S1", "S2", "H1", "H2", "H3", "H4", "DNS",
           "PublicKey", "PresharedKey", "Endpoint", "AllowedIPs", "PersistentKeepalive">>
Written(fields) ==
  <<fields["client_priv_key"], fields["client_ip"], fields["Jc"], fields["Jmin"], fields["Jmax"],
    fields["S1"], fields["S2"], fields["H1"], fields["H2"], fields["H3"], fields["H4"],
    Tunnel!Fixed("8.8.8.8"), fields["server_pub_key"], fields["psk_key"], fields["endpoint"],
    Tunnel!Fixed("0.0.0.0/0, ::/0"), Tunnel!Fixed("25")>>

\* What a sequence holds that was put together from two.
LEMMA Joined ==
  ASSUME NEW S, NEW s \in Seq(S), NEW t \in Seq(S), NEW u, u = s \o t
  PROVE  /\ u \in Seq(S) /\ Len(u) = Len(s) + Len(t)
         /\ \A i \in 1..Len(s) : u[i] = s[i]
         /\ \A i \in 1..Len(t) : u[Len(s) + i] = t[i]
<1>1. s \o t \in Seq(S) /\ Len(s \o t) = Len(s) + Len(t)
  BY ConcatProperties
<1>2. \A i \in 1..(Len(s) + Len(t)) : (s \o t)[i] = IF i <= Len(s) THEN s[i] ELSE t[i - Len(s)]
  BY ConcatProperties
<1>3. ASSUME NEW i \in 1..Len(t) PROVE u[Len(s) + i] = t[i]
  <2>1. Len(s) + i \in 1..(Len(s) + Len(t)) /\ ~(Len(s) + i <= Len(s)) /\ Len(s) + i - Len(s) = i
    OBVIOUS
  <2>2. QED
    BY <1>2, <2>1
<1>4. QED
  BY <1>1, <1>2, <1>3

\* What a sequence holds that was put together from four, one after another.
LEMMA FourJoined ==
  ASSUME NEW S, NEW s \in Seq(S), NEW t \in Seq(S), NEW v \in Seq(S), NEW w \in Seq(S),
         NEW u, u = s \o t \o v \o w
  PROVE /\ u \in Seq(S) /\ Len(u) = Len(s) + Len(t) + Len(v) + Len(w)
        /\ \A i \in 1..Len(s) : u[i] = s[i]
        /\ \A i \in 1..Len(t) : u[Len(s) + i] = t[i]
        /\ \A i \in 1..Len(v) : u[Len(s) + Len(t) + i] = v[i]
        /\ \A i \in 1..Len(w) : u[Len(s) + Len(t) + Len(v) + i] = w[i]
<1> DEFINE st == s \o t
           stv == st \o v
<1>u. u = stv \o w
  OBVIOUS
<1> HIDE DEF st, stv
<1>1. /\ st \in Seq(S) /\ Len(st) = Len(s) + Len(t) /\ (\A i \in 1..Len(s) : st[i] = s[i])
      /\ (\A i \in 1..Len(t) : st[Len(s) + i] = t[i])
  <2>1. st = s \o t
    BY DEF st
  <2>2. QED
    BY <2>1, Joined
<1>2. /\ stv \in Seq(S) /\ Len(stv) = Len(s) + Len(t) + Len(v)
      /\ (\A i \in 1..(Len(s) + Len(t)) : stv[i] = st[i])
      /\ \A i \in 1..Len(v) : stv[Len(s) + Len(t) + i] = v[i]
  <2>1. stv = st \o v /\ st \in Seq(S)
    BY <1>1 DEF stv
  <2>2. /\ stv \in Seq(S) /\ Len(stv) = Len(st) + Len(v) /\ (\A i \in 1..Len(st) : stv[i] = st[i])
        /\ \A i \in 1..Len(v) : stv[Len(st) + i] = v[i]
    BY <2>1, Joined
  <2>3. QED
    BY <1>1, <2>2
<1>3. /\ u \in Seq(S) /\ Len(u) = Len(s) + Len(t) + Len(v) + Len(w)
      /\ (\A i \in 1..(Len(s) + Len(t) + Len(v)) : u[i] = stv[i])
      /\ \A i \in 1..Len(w) : u[Len(s) + Len(t) + Len(v) + i] = w[i]
  <2>1. u = stv \o w /\ stv \in Seq(S)
    BY <1>2, <1>u
  <2>2. /\ u \in Seq(S) /\ Len(u) = Len(stv) + Len(w) /\ (\A i \in 1..Len(stv) : u[i] = stv[i])
        /\ \A i \in 1..Len(w) : u[Len(stv) + i] = w[i]
    BY <2>1, Joined
  <2>3. QED
    BY <1>2, <2>2
<1>4. QED
  BY <1>1, <1>2, <1>3

\* The sequences of one or two lines the format ends its sections with.
LEMMA OneOrTwo ==
  ASSUME NEW S, NEW x \in S, NEW y \in S
  PROVE  <<x>> \in Seq(S) /\ Len(<<x>>) = 1 /\ <<x, y>> \in Seq(S) /\ Len(<<x, y>>) = 2
OBVIOUS

\* The lines, counted.
LEMMA UpTo17 ==
  ASSUME NEW i \in 1..17
  PROVE  \/ i = 1 \/ i = 2 \/ i = 3 \/ i = 4 \/ i = 5 \/ i = 6 \/ i = 7 \/ i = 8 \/ i = 9 \/ i = 10
         \/ i = 11 \/ i = 12 \/ i = 13 \/ i = 14 \/ i = 15 \/ i = 16 \/ i = 17
OBVIOUS

\* The values, one by one.
LEMMA WrittenAre ==
  ASSUME NEW a
  PROVE  /\ Written(a)[1] = a["client_priv_key"] /\ Written(a)[2] = a["client_ip"]
         /\ Written(a)[3] = a["Jc"] /\ Written(a)[4] = a["Jmin"] /\ Written(a)[5] = a["Jmax"]
         /\ Written(a)[6] = a["S1"] /\ Written(a)[7] = a["S2"] /\ Written(a)[8] = a["H1"]
         /\ Written(a)[9] = a["H2"] /\ Written(a)[10] = a["H3"] /\ Written(a)[11] = a["H4"]
         /\ Written(a)[12] = Tunnel!Fixed("8.8.8.8") /\ Written(a)[13] = a["server_pub_key"]
         /\ Written(a)[14] = a["psk_key"] /\ Written(a)[15] = a["endpoint"]
         /\ Written(a)[16] = Tunnel!Fixed("0.0.0.0/0, ::/0") /\ Written(a)[17] = Tunnel!Fixed("25")
BY DEF Written

\* What holds of every field and of the fixed values holds of every value.
LEMMA WrittenIn ==
  ASSUME NEW a, NEW T, \A f \in Tunnel!Fields \cup {"endpoint"} : a[f] \in T,
         Tunnel!Fixed("8.8.8.8") \in T, Tunnel!Fixed("0.0.0.0/0, ::/0") \in T, Tunnel!Fixed("25") \in T
  PROVE  \A i \in 1..17 : Written(a)[i] \in T
<1>1. /\ a["client_priv_key"] \in T /\ a["client_ip"] \in T /\ a["Jc"] \in T
      /\ a["Jmin"] \in T /\ a["Jmax"] \in T /\ a["S1"] \in T /\ a["S2"] \in T
      /\ a["H1"] \in T /\ a["H2"] \in T /\ a["H3"] \in T /\ a["H4"] \in T
      /\ a["server_pub_key"] \in T /\ a["psk_key"] \in T /\ a["endpoint"] \in T
  BY DEF Tunnel!Fields
<1>2. ASSUME NEW i \in 1..17 PROVE Written(a)[i] \in T
  <2>1. \/ i = 1 \/ i = 2 \/ i = 3 \/ i = 4 \/ i = 5 \/ i = 6 \/ i = 7 \/ i = 8 \/ i = 9 \/ i = 10
        \/ i = 11 \/ i = 12 \/ i = 13 \/ i = 14 \/ i = 15 \/ i = 16 \/ i = 17
    BY UpTo17
  <2>2. /\ Written(a)[1] \in T /\ Written(a)[2] \in T /\ Written(a)[3] \in T /\ Written(a)[4] \in T
        /\ Written(a)[5] \in T /\ Written(a)[6] \in T /\ Written(a)[7] \in T /\ Written(a)[8] \in T
        /\ Written(a)[9] \in T /\ Written(a)[10] \in T /\ Written(a)[11] \in T
        /\ Written(a)[12] \in T /\ Written(a)[13] \in T /\ Written(a)[14] \in T
        /\ Written(a)[15] \in T /\ Written(a)[16] \in T /\ Written(a)[17] \in T
    BY <1>1, WrittenAre
  <2>3. QED
    BY <2>1, <2>2
<1>3. QED
  BY <1>2

\* The lines of the file.
LEMMA FormatIs ==
  ASSUME NEW a \in Tunnel!Configs
  PROVE  /\ Tunnel!Format(a) \in Seq(Tunnel!Lines) /\ Len(Tunnel!Format(a)) = 17
         /\ DOMAIN Tunnel!Format(a) = 1..17
         /\ \A i \in 1..17 : Tunnel!Format(a)[i].key = LineKeys[i] /\ Tunnel!Format(a)[i].value = Written(a)[i]
<1> DEFINE A == [i \in DOMAIN Tunnel!Keys |-> Tunnel!Line("Interface", Tunnel!Keys[i][1], a[Tunnel!Keys[i][2]])]
           B == <<Tunnel!Line("Interface", "DNS", Tunnel!Fixed("8.8.8.8"))>>
           C == [i \in DOMAIN Tunnel!PeerKeys |-> Tunnel!Line("Peer", Tunnel!PeerKeys[i][1],
             a[Tunnel!PeerKeys[i][2]])]
           D == <<Tunnel!Line("Peer", "AllowedIPs", Tunnel!Fixed("0.0.0.0/0, ::/0")),
                  Tunnel!Line("Peer", "PersistentKeepalive", Tunnel!Fixed("25"))>>
<1>1. \A f \in Tunnel!Fields \cup {"endpoint"} : a[f] \in Tunnel!Texts
  BY DEF Tunnel!Configs
<1>2. ASSUME NEW id \in {"8.8.8.8", "0.0.0.0/0, ::/0", "25"} PROVE Tunnel!Fixed(id) \in Tunnel!Texts
  BY DEF Tunnel!Fixed, Tunnel!Text, Tunnel!Texts
<1>3. /\ DOMAIN A = 1..11 /\ DOMAIN C = 1..3
      /\ \A i \in 1..11 : A[i] = Tunnel!Line("Interface", LineKeys[i], Written(a)[i])
      /\ \A i \in 1..3 : C[i] = Tunnel!Line("Peer", LineKeys[12 + i], Written(a)[12 + i])
  BY DEF Tunnel!Keys, Tunnel!PeerKeys, LineKeys, Written
<1>4. \A i \in 1..17 : Written(a)[i] \in Tunnel!Texts
  <2>1. /\ Tunnel!Fixed("8.8.8.8") \in Tunnel!Texts /\ Tunnel!Fixed("0.0.0.0/0, ::/0") \in Tunnel!Texts
        /\ Tunnel!Fixed("25") \in Tunnel!Texts
    BY <1>2
  <2> HIDE DEF A, B, C, D
  <2>2. QED
    BY <1>1, <2>1, WrittenIn
<1>5. ASSUME NEW i \in 1..17, NEW s \in {"Interface", "Peer"}
      PROVE  Tunnel!Line(s, LineKeys[i], Written(a)[i]) \in Tunnel!Lines
  <2>1. LineKeys[i] \in {"PrivateKey", "Address", "Jc", "Jmin", "Jmax", "S1",
            "S2", "H1", "H2", "H3", "H4", "DNS", "PublicKey", "PresharedKey", "Endpoint", "AllowedIPs",
            "PersistentKeepalive", "other"}
    BY DEF LineKeys
  <2>2. QED
    BY <1>4, <2>1 DEF Tunnel!Line, Tunnel!Lines
<1>6. /\ B = <<Tunnel!Line("Interface", LineKeys[12], Written(a)[12])>>
      /\ D = <<Tunnel!Line("Peer", LineKeys[16], Written(a)[16]),
           Tunnel!Line("Peer", LineKeys[17], Written(a)[17])>>
  BY DEF LineKeys, Written
<1>7. A \in Seq(Tunnel!Lines) /\ Len(A) = 11 /\ C \in Seq(Tunnel!Lines) /\ Len(C) = 3
  <2>1. \A i \in 1..11 : A[i] \in Tunnel!Lines
    BY <1>3, <1>5
  <2>2. \A i \in 1..3 : C[i] \in Tunnel!Lines
    <3>1. ASSUME NEW i \in 1..3 PROVE Tunnel!Line("Peer", LineKeys[12 + i], Written(a)[12 + i]) \in Tunnel!Lines
      <4>1. 12 + i \in 1..17
        OBVIOUS
      <4>2. QED
        BY <1>5, <4>1
    <3>2. QED
      BY <1>3, <3>1
  <2>3. ASSUME NEW s, NEW n \in Nat, DOMAIN s = 1..n, s = [i \in 1..n |-> s[i]],
               \A i \in 1..n : s[i] \in Tunnel!Lines
        PROVE  s \in Seq(Tunnel!Lines) /\ Len(s) = n
    BY <2>3
  <2>4. A = [i \in 1..11 |-> A[i]] /\ C = [i \in 1..3 |-> C[i]]
    BY <1>3
  <2> HIDE DEF A, C
  <2>5. QED
    BY <1>3, <2>1, <2>2, <2>3, <2>4
<1>8. B \in Seq(Tunnel!Lines) /\ Len(B) = 1 /\ D \in Seq(Tunnel!Lines) /\ Len(D) = 2
  <2>1. Tunnel!Line("Interface", LineKeys[12], Written(a)[12]) \in Tunnel!Lines
    BY <1>5
  <2>2. /\ Tunnel!Line("Peer", LineKeys[16], Written(a)[16]) \in Tunnel!Lines
        /\ Tunnel!Line("Peer", LineKeys[17], Written(a)[17]) \in Tunnel!Lines
    BY <1>5
  <2> DEFINE x == Tunnel!Line("Interface", LineKeys[12], Written(a)[12])
             y == Tunnel!Line("Peer", LineKeys[16], Written(a)[16])
             z == Tunnel!Line("Peer", LineKeys[17], Written(a)[17])
  <2> HIDE DEF B, D, x, y, z
  <2>3. B = <<x>> /\ D = <<y, z>>
    BY <1>6 DEF x, y, z
  <2>4. x \in Tunnel!Lines /\ y \in Tunnel!Lines /\ z \in Tunnel!Lines
    BY <2>1, <2>2 DEF x, y, z
  <2>5. QED
    BY <2>3, <2>4, OneOrTwo
<1>9. Tunnel!Format(a) = A \o B \o C \o D
  BY DEF Tunnel!Format
<1>10. /\ Tunnel!Format(a) \in Seq(Tunnel!Lines) /\ Len(Tunnel!Format(a)) = 17
       /\ \A i \in 1..11 : Tunnel!Format(a)[i] = A[i]
       /\ Tunnel!Format(a)[12] = B[1]
       /\ \A i \in 1..3 : Tunnel!Format(a)[12 + i] = C[i]
       /\ Tunnel!Format(a)[16] = D[1] /\ Tunnel!Format(a)[17] = D[2]
  <2> DEFINE u == Tunnel!Format(a)
  <2> HIDE DEF A, B, C, D, u
  <2>1. u = A \o B \o C \o D
    BY <1>9 DEF u
  <2>2. /\ u \in Seq(Tunnel!Lines) /\ Len(u) = Len(A) + Len(B) + Len(C) + Len(D)
        /\ \A i \in 1..Len(A) : u[i] = A[i]
        /\ \A i \in 1..Len(B) : u[Len(A) + i] = B[i]
        /\ \A i \in 1..Len(C) : u[Len(A) + Len(B) + i] = C[i]
        /\ \A i \in 1..Len(D) : u[Len(A) + Len(B) + Len(C) + i] = D[i]
    <3>1. /\ A \in Seq(Tunnel!Lines) /\ B \in Seq(Tunnel!Lines) /\ C \in Seq(Tunnel!Lines)
          /\ D \in Seq(Tunnel!Lines)
      BY <1>7, <1>8
    <3>2. QED
      BY <2>1, <3>1, FourJoined
  <2>3. u[11 + 1] = B[1] /\ u[15 + 1] = D[1] /\ u[15 + 2] = D[2]
    BY <1>7, <1>8, <2>2
  <2>4. u \in Seq(Tunnel!Lines) /\ Len(u) = 17
    BY <1>7, <1>8, <2>2
  <2>5. \A i \in 1..11 : u[i] = A[i]
    BY <1>7, <2>2
  <2>6. ASSUME NEW i \in 1..3 PROVE u[12 + i] = C[i]
    <3>1. Len(A) = 11 /\ Len(B) = 1 /\ Len(C) = 3
      BY <1>7, <1>8
    <3>2. u[Len(A) + Len(B) + i] = C[i]
      BY <2>2, <3>1
    <3>3. Len(A) + Len(B) + i = 12 + i
      BY <3>1
    <3>4. QED
      BY <3>2, <3>3
  <2>7. QED
    BY <2>3, <2>4, <2>5, <2>6 DEF u
<1>11. ASSUME NEW i \in 1..17
       PROVE  \E s \in {"Interface", "Peer"} : Tunnel!Format(a)[i] = Tunnel!Line(s, LineKeys[i], Written(a)[i])
  <2>1. CASE i \in 1..11
    BY <1>3, <1>10, <2>1
  <2>2. CASE i = 12
    BY <1>6, <1>10, <2>2
  <2>3. CASE i \in 13..15
    <3>1. i - 12 \in 1..3 /\ 12 + (i - 12) = i
      BY <2>3
    <3> HIDE DEF A, C
    <3>2. Tunnel!Format(a)[i] = C[i - 12] /\ C[i - 12] = Tunnel!Line("Peer", LineKeys[i], Written(a)[i])
      BY <1>3, <1>10, <3>1
    <3>3. QED
      BY <3>2
  <2>4. CASE i \in {16, 17}
    BY <1>6, <1>10, <2>4
  <2>5. QED
    BY <2>1, <2>2, <2>3, <2>4
<1>12. QED
  <2>1. \A i \in 1..17 : Tunnel!Format(a)[i].key = LineKeys[i] /\ Tunnel!Format(a)[i].value = Written(a)[i]
    BY <1>11 DEF Tunnel!Line
  <2>2. DOMAIN Tunnel!Format(a) = 1..17
    <3>1. ASSUME NEW s \in Seq(Tunnel!Lines) PROVE DOMAIN s = 1..Len(s)
      OBVIOUS
    <3>2. QED
      BY <1>10, <3>1
  <2>3. QED
    BY <1>10, <2>1, <2>2

\* awg-quick reads a file without newlines in its values as it is.
LEMMA ReadAsWritten ==
  ASSUME NEW a \in Tunnel!Configs, Tunnel!ValidateNoNewlines(a)
  PROVE  Tunnel!ReadConf(Tunnel!Format(a)) = Tunnel!Format(a) /\ \A i \in 1..17 : Written(a)[i].newline = FALSE
<1> DEFINE lines == Tunnel!Format(a)
<1>1. \A f \in Tunnel!Fields \cup {"endpoint"} : a[f].newline = FALSE
  <2>1. /\ DOMAIN a = Tunnel!Fields \cup {"endpoint"}
        /\ \A f \in Tunnel!Fields \cup {"endpoint"} : a[f].newline \in BOOLEAN
    BY DEF Tunnel!Configs, Tunnel!Texts
  <2>2. QED
    BY <2>1, Zenon DEF Tunnel!ValidateNoNewlines
<1>2. \A i \in 1..17 : Written(a)[i].newline = FALSE
  <2> DEFINE T == {Tunnel!Fixed("8.8.8.8"), Tunnel!Fixed("0.0.0.0/0, ::/0"), Tunnel!Fixed("25")}
                    \cup {a[f] : f \in Tunnel!Fields \cup {"endpoint"}}
  <2>1. \A x \in T : x.newline = FALSE
    <3>1. \A id : Tunnel!Fixed(id).newline = FALSE
      BY DEF Tunnel!Fixed, Tunnel!Text
    <3>2. QED
      BY <1>1, <3>1
  <2>2. \A i \in 1..17 : Written(a)[i] \in T
    BY WrittenIn
  <2> HIDE DEF T
  <2>3. QED
    BY <2>1, <2>2
<1>3. lines \in Seq(Tunnel!Lines) /\ Len(lines) = 17 /\ DOMAIN lines = 1..17
  BY FormatIs
<1>4. \A i \in DOMAIN lines : lines[i].value.newline = FALSE
  <2>1. \A i \in 1..17 : lines[i].value = Written(a)[i]
    BY FormatIs
  <2> HIDE DEF lines
  <2>2. QED
    BY <1>2, <1>3, <2>1
<1> HIDE DEF lines
<1> DEFINE ones == [i \in DOMAIN lines |-> <<lines[i]>>]
<1>5. Tunnel!ReadConf(lines) = Tunnel!FlattenSeq(ones)
  <2>1. [i \in DOMAIN lines |->
          IF lines[i].value.newline
            THEN <<Tunnel!Line(lines[i].section, lines[i].key, Tunnel!Fixed(lines[i].value.id)),
                   Tunnel!Line(lines[i].section, "other", Tunnel!Fixed(lines[i].value.id))>>
            ELSE <<lines[i]>>] = ones
    BY <1>4, Zenon
  <2>2. QED
    BY <2>1, Zenon DEF Tunnel!ReadConf
<1>6. lines # <<>>
  <2>1. Len(<<>>) = 0 /\ 0 # 17
    OBVIOUS
  <2>2. QED
    BY <1>3, <2>1, Zenon
<1>7. Tunnel!FlattenSeq(ones) = lines
  <2> HIDE DEF ones
  <2>1. ones = [i \in DOMAIN lines |-> <<lines[i]>>]
    BY DEF ones
  <2>2. QED
    BY <1>3, <1>6, <2>1, FlattenOnes
<1>8. QED
  BY <1>2, <1>5, <1>7 DEF lines

\* The keys, one by one.
LEMMA LineKeysAre ==
  /\ LineKeys[1] = "PrivateKey" /\ LineKeys[2] = "Address" /\ LineKeys[3] = "Jc" /\ LineKeys[4] = "Jmin"
  /\ LineKeys[5] = "Jmax" /\ LineKeys[6] = "S1" /\ LineKeys[7] = "S2" /\ LineKeys[8] = "H1"
  /\ LineKeys[9] = "H2" /\ LineKeys[10] = "H3" /\ LineKeys[11] = "H4" /\ LineKeys[12] = "DNS"
  /\ LineKeys[13] = "PublicKey" /\ LineKeys[14] = "PresharedKey" /\ LineKeys[15] = "Endpoint"
  /\ LineKeys[16] = "AllowedIPs" /\ LineKeys[17] = "PersistentKeepalive"
BY DEF LineKeys

\* No two lines have the same key, and none the one that a newline brings.
LEMMA LineKeysApart ==
  ASSUME NEW i \in 1..17
  PROVE  LineKeys[i] # "other" /\ \A j \in 1..17 : LineKeys[j] = LineKeys[i] => j = i
<1>1. LineKeys[i] # "other"
  BY LineKeysAre, UpTo17
<1>2. ASSUME NEW j \in 1..17, LineKeys[j] = LineKeys[i] PROVE j = i
  BY <1>2, LineKeysAre, UpTo17
<1>3. QED
  BY <1>1, <1>2

\* What the tunnel of a link holds: TunnelIsLinks of the lines that Format makes.
LEMMA KeyByKey ==
  ASSUME NEW l \in Links, Tunnel!ParseVpnUri(l) # Nil, Tunnel!ValidateNoNewlines(Tunnel!ParseVpnUri(l)),
         interface = Tunnel!Format(Tunnel!ParseVpnUri(l)), from = l
  PROVE  Tunnel!TunnelIsLinks
<1> DEFINE a == Tunnel!ParseVpnUri(l)
           v == l[Tunnel!OwnContainer(l)].awg
           of(key) == {interface[i].value : i \in {j \in DOMAIN interface : interface[j].key = key}}
<1>1. /\ a \in Tunnel!Configs
      /\ \A f \in Tunnel!Fields : a[f].id = v[f].id
      /\ a["endpoint"].id = <<v["hostName"].id, v["port"].id>>
  BY ParsedIs
<1>2. \A f \in Tunnel!Fields \cup {"endpoint"} : a[f] = Tunnel!Fixed(a[f].id)
  <2>1. \A f \in Tunnel!Fields \cup {"endpoint"} : /\ a[f] \in Tunnel!Texts /\ ~a[f].newline
                                                   /\ a[f].newline \in BOOLEAN
    <3>1. DOMAIN a = Tunnel!Fields \cup {"endpoint"}
      BY <1>1 DEF Tunnel!Configs
    <3>2. \A f \in Tunnel!Fields \cup {"endpoint"} : ~a[f].newline
      BY <3>1, Zenon DEF Tunnel!ValidateNoNewlines
    <3>3. \A f \in Tunnel!Fields \cup {"endpoint"} : a[f] \in Tunnel!Texts
      BY <1>1 DEF Tunnel!Configs
    <3>4. \A x \in Tunnel!Texts : x.newline \in BOOLEAN
      BY DEF Tunnel!Texts
    <3>5. QED
      BY <3>2, <3>3, <3>4, Zenon
  <2>2. \A f \in Tunnel!Fields \cup {"endpoint"} : a[f].newline = FALSE
    BY <2>1, Zenon
  <2>3. ASSUME NEW x \in Tunnel!Texts, x.newline = FALSE PROVE x = Tunnel!Fixed(x.id)
    BY <2>3 DEF Tunnel!Texts, Tunnel!Fixed, Tunnel!Text
  <2>4. QED
    BY <2>1, <2>2, <2>3
<1>3. /\ DOMAIN interface = 1..17 /\ Len(interface) = 17
      /\ \A i \in 1..17 : interface[i].key = LineKeys[i] /\ interface[i].value = Written(a)[i]
  BY <1>1, FormatIs
<1> HIDE DEF a, v
<1>4. ASSUME NEW i \in 1..17 PROVE of(LineKeys[i]) = {Written(a)[i]}
  <2>1. {j \in DOMAIN interface : interface[j].key = LineKeys[i]} = {i}
    <3>1. \A j \in 1..17 : LineKeys[j] = LineKeys[i] => j = i
      BY LineKeysApart
    <3>2. QED
      BY <1>3, <3>1
  <2>2. of(LineKeys[i]) = {interface[j].value : j \in {i}}
    BY <2>1, Zenon
  <2>3. QED
    BY <1>3, <2>2
<1>5. of("other") = {}
  <2>1. \A i \in 1..17 : LineKeys[i] # "other"
    BY LineKeysApart
  <2>2. {j \in DOMAIN interface : interface[j].key = "other"} = {}
    BY <1>3, <2>1
  <2>3. QED
    BY <2>2
<1> HIDE DEF of
<1>6. ASSUME NEW f \in Tunnel!Fields PROVE a[f] = Tunnel!Fixed(v[f].id)
  BY <1>1, <1>2
<1>7. a["endpoint"] = Tunnel!Fixed(<<v["hostName"].id, v["port"].id>>)
  BY <1>1, <1>2
<1>8. \A i \in 1..Len(Tunnel!Keys) : of(Tunnel!Keys[i][1]) = {Tunnel!Fixed(v[Tunnel!Keys[i][2]].id)}
  <2>1. ASSUME NEW i \in 1..11
        PROVE  /\ Tunnel!Keys[i][1] = LineKeys[i] /\ Tunnel!Keys[i][2] \in Tunnel!Fields
               /\ Written(a)[i] = a[Tunnel!Keys[i][2]]
    <3>1. \/ i = 1 \/ i = 2 \/ i = 3 \/ i = 4 \/ i = 5 \/ i = 6 \/ i = 7 \/ i = 8 \/ i = 9 \/ i = 10
          \/ i = 11
      OBVIOUS
    <3>2. /\ Tunnel!Keys[1] = <<"PrivateKey", "client_priv_key">> /\ Tunnel!Keys[2] = <<"Address", "client_ip">>
          /\ Tunnel!Keys[3] = <<"Jc", "Jc">> /\ Tunnel!Keys[4] = <<"Jmin", "Jmin">>
          /\ Tunnel!Keys[5] = <<"Jmax", "Jmax">>
          /\ Tunnel!Keys[6] = <<"S1", "S1">> /\ Tunnel!Keys[7] = <<"S2", "S2">>
          /\ Tunnel!Keys[8] = <<"H1", "H1">>
          /\ Tunnel!Keys[9] = <<"H2", "H2">> /\ Tunnel!Keys[10] = <<"H3", "H3">>
          /\ Tunnel!Keys[11] = <<"H4", "H4">>
      BY DEF Tunnel!Keys
    <3>3. Tunnel!Keys[i][1] = LineKeys[i]
      BY <3>1, <3>2, LineKeysAre
    <3>4. Tunnel!Keys[i][2] \in Tunnel!Fields
      BY <3>1, <3>2 DEF Tunnel!Fields
    <3>5. Written(a)[i] = a[Tunnel!Keys[i][2]]
      <4>1. /\ Tunnel!Keys[1][2] = "client_priv_key" /\ Tunnel!Keys[2][2] = "client_ip"
            /\ Tunnel!Keys[3][2] = "Jc"
            /\ Tunnel!Keys[4][2] = "Jmin" /\ Tunnel!Keys[5][2] = "Jmax" /\ Tunnel!Keys[6][2] = "S1"
            /\ Tunnel!Keys[7][2] = "S2"
            /\ Tunnel!Keys[8][2] = "H1" /\ Tunnel!Keys[9][2] = "H2" /\ Tunnel!Keys[10][2] = "H3"
            /\ Tunnel!Keys[11][2] = "H4"
        BY <3>2
      <4>2. /\ Written(a)[1] = a[Tunnel!Keys[1][2]] /\ Written(a)[2] = a[Tunnel!Keys[2][2]]
            /\ Written(a)[3] = a[Tunnel!Keys[3][2]] /\ Written(a)[4] = a[Tunnel!Keys[4][2]]
            /\ Written(a)[5] = a[Tunnel!Keys[5][2]] /\ Written(a)[6] = a[Tunnel!Keys[6][2]]
            /\ Written(a)[7] = a[Tunnel!Keys[7][2]] /\ Written(a)[8] = a[Tunnel!Keys[8][2]]
            /\ Written(a)[9] = a[Tunnel!Keys[9][2]] /\ Written(a)[10] = a[Tunnel!Keys[10][2]]
            /\ Written(a)[11] = a[Tunnel!Keys[11][2]]
        <5>1. /\ Written(a)[1] = a["client_priv_key"] /\ Written(a)[2] = a["client_ip"]
              /\ Written(a)[3] = a["Jc"] /\ Written(a)[4] = a["Jmin"] /\ Written(a)[5] = a["Jmax"]
              /\ Written(a)[6] = a["S1"] /\ Written(a)[7] = a["S2"] /\ Written(a)[8] = a["H1"]
              /\ Written(a)[9] = a["H2"] /\ Written(a)[10] = a["H3"] /\ Written(a)[11] = a["H4"]
          BY WrittenAre
        <5>2. QED
          BY <4>1, <5>1
      <4>3. QED
        BY <3>1, <4>2
    <3>6. QED
      BY <3>3, <3>4, <3>5
  <2>2. Len(Tunnel!Keys) = 11
    BY DEF Tunnel!Keys
  <2>3. QED
    BY <1>4, <1>6, <2>1, <2>2
<1>9. /\ of("PublicKey") = {Tunnel!Fixed(v["server_pub_key"].id)}
      /\ of("PresharedKey") = {Tunnel!Fixed(v["psk_key"].id)}
      /\ of("Endpoint") = {Tunnel!Fixed(<<v["hostName"].id, v["port"].id>>)}
  <2>1. LineKeys[13] = "PublicKey" /\ LineKeys[14] = "PresharedKey" /\ LineKeys[15] = "Endpoint"
    BY DEF LineKeys
  <2>2. "server_pub_key" \in Tunnel!Fields /\ "psk_key" \in Tunnel!Fields
    BY DEF Tunnel!Fields
  <2>3. /\ of(LineKeys[13]) = {a["server_pub_key"]} /\ of(LineKeys[14]) = {a["psk_key"]}
        /\ of(LineKeys[15]) = {a["endpoint"]}
    <3>1. /\ of(LineKeys[13]) = {Written(a)[13]} /\ of(LineKeys[14]) = {Written(a)[14]}
          /\ of(LineKeys[15]) = {Written(a)[15]}
      BY <1>4
    <3>2. QED
      BY <3>1, WrittenAre
  <2>4. QED
    BY <1>6, <1>7, <2>1, <2>2, <2>3
<1>10. QED
  BY <1>3, <1>5, <1>8, <1>9 DEF Tunnel!TunnelIsLinks, of, v

\* What a start has reached by each of its steps, what a file can be, and whose
\* lines the interface has.
TunnelInv ==
  /\ user \in Users /\ commands \in 0..MaxCommands /\ tunnelOutcome \in {"ok", "failed", "unsaid"}
  /\ tunnelPc \in {"idle", "preStop", "parse", "write", "up", "stop"}
  /\ link \in Links \cup {Nil}
  /\ tunnelPc \in {"parse", "write", "up"} => link \in Links
  /\ tunnelPc \in {"idle", "stop"} => link = Nil
  /\ tunnelPc \in {"write", "up"} => awg = Tunnel!ParseVpnUri(link) /\ awg # Nil
  /\ tunnelPc \notin {"write", "up"} => awg = Nil
  /\ tunnelPc = "up" => confLines = Tunnel!Format(awg) /\ Tunnel!ValidateNoNewlines(awg)
  /\ confLines = Nil \/ confLines = <<>> \/ \E a \in Tunnel!Configs : confLines = Tunnel!Format(a)
  /\ interface = Nil <=> from = Nil
  /\ interface # Nil =>
       /\ confLines # Nil /\ from \in Links /\ Tunnel!ParseVpnUri(from) # Nil
       /\ Tunnel!ValidateNoNewlines(Tunnel!ParseVpnUri(from))
       /\ interface = Tunnel!Format(Tunnel!ParseVpnUri(from))

\* Nil is not what it stands beside.
LEMMA NilApart ==
  /\ Nil \notin Links /\ Nil # <<>>
  /\ \A a \in Tunnel!Configs : Tunnel!Format(a) # Nil
  /\ \A l \in Links : Tunnel!ParseVpnUri(l) # Nil => Tunnel!ParseVpnUri(l) \in Tunnel!Configs
<1>1. Nil \notin Links /\ Nil \notin Seq(Tunnel!Lines)
  BY ConstantsTyped DEF Tunnel!ConstantsTyped
<1>2. <<>> \in Seq(Tunnel!Lines)
  OBVIOUS
<1>3. \A a \in Tunnel!Configs : Tunnel!Format(a) # Nil
  BY <1>1, FormatIs
<1>4. \A l \in Links : Tunnel!ParseVpnUri(l) # Nil => Tunnel!ParseVpnUri(l) \in Tunnel!Configs
  BY ParsedIs
<1>5. Nil # <<>>
  BY <1>1, <1>2, Zenon
<1>6. QED
  BY <1>1, <1>3, <1>4, <1>5

\* The first states.
LEMMA TunnelInit == Tunnel!Init => TunnelInv
BY ConstantsTyped DEF Tunnel!Init, TunnelInv, Tunnel!ConstantsTyped

\* A stop of the old tunnel: for root one that warns of nothing leaves none.
LEMMA StopIs ==
  ASSUME NEW l, TunnelInv, Tunnel!StopAwgIfRunning(l)
  PROVE  /\ tunnelPc' = l /\ UNCHANGED <<user, commands, link, awg, confLines>>
         /\ tunnelOutcome' \in {"ok", "unsaid"}
         /\ \/ UNCHANGED <<interface, from>>
            \/ interface' = Nil /\ from' = Nil
         /\ user = "root" /\ tunnelOutcome' = "ok" => from' = Nil
<1>1. CASE confLines = Nil
  <2>1. /\ tunnelOutcome' = "ok" /\ UNCHANGED <<interface, from>> /\ tunnelPc' = l
        /\ UNCHANGED <<user, commands, link, awg, confLines>>
    BY <1>1, Zenon DEF Tunnel!StopAwgIfRunning
  <2>2. from = Nil
    BY <1>1, Zenon DEF TunnelInv
  <2>3. QED
    BY <2>1, <2>2
<1>2. CASE confLines # Nil
  <2>1. /\ tunnelPc' = l /\ UNCHANGED <<user, commands, link, awg, confLines>>
        /\ \E running \in BOOLEAN :
             /\ Tunnel!AwgShow(running)
             /\ \/ ~running /\ tunnelOutcome' = "ok" /\ UNCHANGED <<interface, from>>
                \/ running /\ interface' = Nil /\ from' = Nil /\ tunnelOutcome' = "ok"
                \/ running /\ tunnelOutcome' = "unsaid" /\ UNCHANGED <<interface, from>>
    BY <1>2, Zenon DEF Tunnel!StopAwgIfRunning
  <2>2. PICK running \in BOOLEAN :
          /\ Tunnel!AwgShow(running)
          /\ \/ ~running /\ tunnelOutcome' = "ok" /\ UNCHANGED <<interface, from>>
             \/ running /\ interface' = Nil /\ from' = Nil /\ tunnelOutcome' = "ok"
             \/ running /\ tunnelOutcome' = "unsaid" /\ UNCHANGED <<interface, from>>
    BY <2>1, Zenon
  <2>3. CASE ~running /\ tunnelOutcome' = "ok" /\ UNCHANGED <<interface, from>>
    <3>1. user = "root" => interface = Nil
      BY <2>2, <2>3, Zenon DEF Tunnel!AwgShow
    <3>2. interface = Nil => from = Nil
      BY Zenon DEF TunnelInv
    <3>3. QED
      BY <2>1, <2>3, <3>1, <3>2
  <2>4. CASE interface' = Nil /\ from' = Nil /\ tunnelOutcome' = "ok"
    BY <2>1, <2>4
  <2>5. CASE tunnelOutcome' = "unsaid" /\ UNCHANGED <<interface, from>>
    BY <2>1, <2>5
  <2>6. QED
    BY <2>2, <2>3, <2>4, <2>5, Zenon
<1>3. QED
  BY <1>1, <1>2

\* Each step.
LEMMA TunnelStep == TunnelInv /\ [Tunnel!Next]_(Tunnel!vars) => TunnelInv'
<1> SUFFICES ASSUME TunnelInv, [Tunnel!Next]_(Tunnel!vars) PROVE TunnelInv'
  OBVIOUS
<1>0. MaxCommands \in Nat
  BY ConstantsTyped DEF Tunnel!ConstantsTyped
<1>1. CASE Tunnel!Start
  BY <1>0, <1>1 DEF Tunnel!Start, TunnelInv
<1>2. CASE Tunnel!Stop
  BY <1>0, <1>2 DEF Tunnel!Stop, TunnelInv
<1>3. ASSUME NEW l \in {"idle", "parse"}, Tunnel!StopAwgIfRunning(l), tunnelPc \in {"preStop", "stop"},
             l = "idle" => link = Nil, l = "parse" => link \in Links
      PROVE  TunnelInv'
  <2>1. /\ tunnelPc' = l /\ UNCHANGED <<user, commands, link, awg, confLines>>
        /\ tunnelOutcome' \in {"ok", "unsaid"}
        /\ \/ UNCHANGED <<interface, from>>
           \/ interface' = Nil /\ from' = Nil
    <3>1. Tunnel!StopAwgIfRunning(l)
      BY <1>3
    <3>2. QED
      BY <3>1, StopIs, Zenon
  <2>2. QED
    BY <1>3, <2>1 DEF TunnelInv
<1>4. CASE Tunnel!PreStop
  <2>1. Tunnel!StopAwgIfRunning(IF link = Nil THEN "idle" ELSE "parse") /\ tunnelPc \in {"preStop", "stop"}
    BY <1>4 DEF Tunnel!PreStop
  <2>2. link \in Links \cup {Nil} /\ "idle" # "parse"
    BY DEF TunnelInv
  <2>3. CASE link = Nil
    <3>1. Tunnel!StopAwgIfRunning("idle")
      BY <2>1, <2>3, Zenon
    <3>2. QED
      BY <1>3, <2>1, <2>2, <2>3, <3>1, Zenon
  <2>4. CASE link # Nil
    <3>1. Tunnel!StopAwgIfRunning("parse")
      BY <2>1, <2>4, Zenon
    <3>2. link \in Links
      BY <2>2, <2>4
    <3>3. QED
      BY <1>3, <2>1, <2>2, <3>1, <3>2, Zenon
  <2>5. QED
    BY <2>3, <2>4
<1>5. CASE Tunnel!StopTunnel
  <2>1. Tunnel!StopAwgIfRunning("idle") /\ tunnelPc \in {"preStop", "stop"}
    BY <1>5 DEF Tunnel!StopTunnel
  <2>2. link = Nil /\ "idle" # "parse"
    BY <1>5 DEF Tunnel!StopTunnel, TunnelInv
  <2>3. QED
    BY <1>3, <2>1, <2>2, Zenon
<1>6. CASE Tunnel!Parse
  <2>1. link \in Links /\ awg = Nil
    BY <1>6 DEF Tunnel!Parse, TunnelInv
  <2>2. CASE Tunnel!ParseVpnUri(link) = Nil
    BY <1>6, <2>1, <2>2 DEF Tunnel!Parse, Tunnel!Idle, TunnelInv
  <2>3. CASE Tunnel!ParseVpnUri(link) # Nil
    BY <1>6, <2>1, <2>3 DEF Tunnel!Parse, TunnelInv
  <2>4. QED
    BY <2>2, <2>3
<1>7. CASE Tunnel!WriteConf
  <2>1. /\ tunnelPc = "write" /\ link \in Links /\ awg = Tunnel!ParseVpnUri(link) /\ awg # Nil
        /\ awg \in Tunnel!Configs
    BY <1>7, NilApart DEF Tunnel!WriteConf, TunnelInv
  <2>2. CASE Tunnel!GenerateConf(awg) = Nil
    BY <1>7, <2>1, <2>2 DEF Tunnel!WriteConf, Tunnel!Idle, TunnelInv
  <2>3. CASE Tunnel!GenerateConf(awg) # Nil
    <3>1. Tunnel!ValidateNoNewlines(awg) /\ Tunnel!GenerateConf(awg) = Tunnel!Format(awg)
      BY <2>3, Zenon DEF Tunnel!GenerateConf
    <3>2. Tunnel!Format(awg) # Nil
      BY <2>1, NilApart
    <3>3. /\ UNCHANGED <<user, commands, interface, from>>
          /\ \/ confLines' = Tunnel!Format(awg) /\ Tunnel!Goto("up")
             \/ confLines' \in {confLines, <<>>} /\ Tunnel!Idle("failed")
      BY <1>7, <2>3, <3>1 DEF Tunnel!WriteConf
    <3>4. CASE confLines' = Tunnel!Format(awg) /\ Tunnel!Goto("up")
      <4>1. Tunnel!ValidateNoNewlines(awg)' 
        BY <3>1, <3>4 DEF Tunnel!Goto, Tunnel!ValidateNoNewlines
      <4>2. QED
        BY <2>1, <3>1, <3>2, <3>3, <3>4, <4>1, NilApart DEF Tunnel!Goto, TunnelInv
    <3>5. CASE confLines' \in {confLines, <<>>} /\ Tunnel!Idle("failed")
      BY <2>1, <3>3, <3>5, NilApart DEF Tunnel!Idle, TunnelInv
    <3>6. QED
      BY <3>3, <3>4, <3>5
  <2>4. QED
    BY <2>2, <2>3
<1>8. CASE Tunnel!StartTunnel
  <2>1. /\ tunnelPc = "up" /\ link \in Links /\ awg = Tunnel!ParseVpnUri(link) /\ awg # Nil
        /\ awg \in Tunnel!Configs
        /\ confLines = Tunnel!Format(awg) /\ Tunnel!ValidateNoNewlines(awg) /\ confLines # Nil
    BY <1>8, NilApart DEF Tunnel!StartTunnel, TunnelInv
  <2>2. CASE /\ interface = Nil /\ interface' = Tunnel!ReadConf(confLines) /\ from' = link
             /\ Tunnel!Idle(tunnelOutcome)
    <3>1. interface' = Tunnel!Format(Tunnel!ParseVpnUri(link)) /\ interface' # Nil
      BY <2>1, <2>2, ReadAsWritten
    <3>2. link # Nil
      BY <2>1, NilApart
    <3>3. QED
      BY <1>8, <2>1, <2>2, <3>1, <3>2 DEF Tunnel!StartTunnel, Tunnel!Idle, TunnelInv
  <2>3. CASE Tunnel!Idle("failed") /\ UNCHANGED <<interface, from>>
    BY <1>8, <2>1, <2>3 DEF Tunnel!StartTunnel, Tunnel!Idle, TunnelInv
  <2>4. QED
    BY <1>8, <2>2, <2>3 DEF Tunnel!StartTunnel
<1>9. CASE Tunnel!Reboot
  BY <1>9 DEF Tunnel!Reboot, TunnelInv
<1>10. CASE UNCHANGED Tunnel!vars
  BY <1>10 DEF Tunnel!vars, TunnelInv
<1>11. QED
  BY <1>1, <1>2, <1>4, <1>5, <1>6, <1>7, <1>8, <1>9, <1>10 DEF Tunnel!Next, Tunnel!Done

\* What the runs check of each state.
LEMMA TunnelHeld == TunnelInv => Tunnel!TypeOK /\ Tunnel!TunnelIsLinks
<1> SUFFICES ASSUME TunnelInv PROVE Tunnel!TypeOK /\ Tunnel!TunnelIsLinks
  OBVIOUS
<1>1. confLines # Nil => Len(confLines) \in {0, 17}
  <2>1. ASSUME NEW a \in Tunnel!Configs, confLines = Tunnel!Format(a) PROVE Len(confLines) = 17
    BY <2>1, FormatIs
  <2>2. confLines = <<>> => Len(confLines) = 0
    OBVIOUS
  <2>3. QED
    BY <2>1, <2>2 DEF TunnelInv
<1>2. Tunnel!TypeOK
  BY <1>1 DEF TunnelInv, Tunnel!TypeOK
<1>3. Tunnel!TunnelIsLinks
  <2>1. CASE interface = Nil
    BY <2>1, Zenon DEF Tunnel!TunnelIsLinks
  <2>2. CASE interface # Nil
    <3>1. /\ from \in Links /\ Tunnel!ParseVpnUri(from) # Nil
          /\ Tunnel!ValidateNoNewlines(Tunnel!ParseVpnUri(from))
          /\ interface = Tunnel!Format(Tunnel!ParseVpnUri(from))
      BY <2>2 DEF TunnelInv
    <3>2. QED
      BY <3>1, KeyByKey
  <2>3. QED
    BY <2>1, <2>2
<1>4. QED
  BY <1>2, <1>3

\* What they check of each step.
LEMMA TunnelSteps ==
  TunnelInv /\ [Tunnel!Next]_(Tunnel!vars) =>
    /\ [tunnelPc' = "idle" /\ tunnelPc \in {"parse", "write"} /\ confLines # Nil /\ confLines' # confLines
         => confLines' = <<>> /\ Tunnel!ParseVpnUri(link) # Nil /\ Tunnel!ValidateNoNewlines(awg)]_(Tunnel!vars)
    /\ [user = "root" /\ tunnelPc # "idle" /\ tunnelPc' = "idle" /\ tunnelOutcome' = "ok" =>
         from' = IF tunnelPc = "stop" THEN Nil ELSE link]_(Tunnel!vars)
<1> SUFFICES ASSUME TunnelInv, Tunnel!Next
             PROVE  /\ (/\ tunnelPc' = "idle" /\ tunnelPc \in {"parse", "write"}
                        /\ confLines # Nil /\ confLines' # confLines)
                         => /\ confLines' = <<>> /\ Tunnel!ParseVpnUri(link) # Nil
                            /\ Tunnel!ValidateNoNewlines(awg)
                    /\ user = "root" /\ tunnelPc # "idle" /\ tunnelPc' = "idle" /\ tunnelOutcome' = "ok" =>
                         from' = IF tunnelPc = "stop" THEN Nil ELSE link
  OBVIOUS
<1>1. CASE Tunnel!Start \/ Tunnel!Stop \/ Tunnel!Reboot \/ Tunnel!Done
  BY <1>1 DEF Tunnel!Start, Tunnel!Stop, Tunnel!Reboot, Tunnel!Done, Tunnel!vars
<1>2. CASE Tunnel!PreStop
  <2>1. Tunnel!StopAwgIfRunning(IF link = Nil THEN "idle" ELSE "parse") /\ tunnelPc = "preStop"
    BY <1>2 DEF Tunnel!PreStop
  <2>2. /\ tunnelPc' = (IF link = Nil THEN "idle" ELSE "parse") /\ confLines' = confLines
        /\ user = "root" /\ tunnelOutcome' = "ok" => from' = Nil
    BY <2>1, StopIs
  <2>3. QED
    BY <2>1, <2>2
<1>3. CASE Tunnel!StopTunnel
  <2>1. Tunnel!StopAwgIfRunning("idle") /\ tunnelPc = "stop"
    BY <1>3 DEF Tunnel!StopTunnel
  <2>2. confLines' = confLines /\ (user = "root" /\ tunnelOutcome' = "ok" => from' = Nil)
    BY <2>1, StopIs
  <2>3. QED
    BY <2>1, <2>2
<1>4. CASE Tunnel!Parse
  BY <1>4 DEF Tunnel!Parse, Tunnel!Idle
<1>5. CASE Tunnel!WriteConf
  <2>1. tunnelPc = "write" /\ awg = Tunnel!ParseVpnUri(link) /\ awg # Nil
    BY <1>5 DEF Tunnel!WriteConf, TunnelInv
  <2>2. CASE Tunnel!GenerateConf(awg) = Nil
    BY <1>5, <2>1, <2>2 DEF Tunnel!WriteConf, Tunnel!Idle
  <2>3. CASE Tunnel!GenerateConf(awg) # Nil
    <3>1. Tunnel!ValidateNoNewlines(awg)
      BY <2>3, Zenon DEF Tunnel!GenerateConf
    <3>2. QED
      BY <1>5, <2>1, <2>3, <3>1 DEF Tunnel!WriteConf, Tunnel!Idle, Tunnel!Goto
  <2>4. QED
    BY <2>2, <2>3
<1>6. CASE Tunnel!StartTunnel
  BY <1>6 DEF Tunnel!StartTunnel, Tunnel!Idle
<1>7. QED
  BY <1>1, <1>2, <1>3, <1>4, <1>5, <1>6 DEF Tunnel!Next

\* AwgTunnel's promises.
THEOREM TunnelHolds == Tunnel!Spec =>
  [](Tunnel!TypeOK /\ Tunnel!TunnelIsLinks) /\ Tunnel!ConfOutlivesRefusal /\ Tunnel!NoStaleTunnel
<1>1. Tunnel!Spec => []TunnelInv
  BY TunnelInit, TunnelStep, PTL DEF Tunnel!Spec
<1>2. QED
  BY <1>1, TunnelHeld, TunnelSteps, PTL DEF Tunnel!Spec, Tunnel!ConfOutlivesRefusal, Tunnel!NoStaleTunnel

-----------------------------------------------------------------------------
(***************************************************************************)
(* Locations, on each platform.                                            *)
(***************************************************************************)

\* Every component a path may have.
Names ==
  STRING \cup {"AppData", "Roaming", "Local", ".config", ".local", "state", "/", "tmp", "xray", "corvex",
               "xray.pid", "config.json", "corvex-awg.conf", "corvex.log", "xray.log", "access.log",
                 "error.log"}

\* What follows a path that is not empty does not make it another place.
LEMMA Follows ==
  ASSUME NEW w \in BOOLEAN, NEW v \in Seq(Names), NEW z \in Seq(Names)
  PROVE  /\ v \o z \in Seq(Names)
         /\ v # <<>> => v \o z # <<>> /\ (Place(w)!Absolute(v \o z) <=> Place(w)!Absolute(v))
         /\ Place(w)!StartsWith(v \o z, v)
<1>1. /\ v \o z \in Seq(Names)
      /\ v # <<>> => v \o z # <<>> /\ (Place(w)!Absolute(v \o z) <=> Place(w)!Absolute(v))
  BY DEF Place!Absolute
<1>2. Len(v) <= Len(v \o z) /\ SubSeq(v \o z, 1, Len(v)) = v
  OBVIOUS
<1>3. QED
  BY <1>1, <1>2 DEF Place!StartsWith

\* Three in a row.
LEMMA Nested ==
  ASSUME NEW w \in BOOLEAN, NEW u \in Seq(Names), NEW v \in Seq(Names), NEW z \in Seq(Names)
  PROVE  /\ (u \o v) \o z = u \o (v \o z) /\ v \o z \in Seq(Names)
         /\ Place(w)!StartsWith(u \o (v \o z), u \o v)
<1>1. u \o (v \o z) = (u \o v) \o z /\ u \o v \in Seq(Names) /\ v \o z \in Seq(Names)
  OBVIOUS
<1>2. QED
  BY <1>1, Follows

\* The variables and the working directory of an environment.
LEMMA EnvTyped ==
  ASSUME NEW w \in BOOLEAN, NEW e \in Place(w)!Env
  PROVE  /\ e.config \in Seq(Names) \cup {Nil} /\ e.state \in Seq(Names) \cup {Nil}
         /\ e.home \in Seq(Names) \cup {Nil} /\ e.cwd \in Seq(Names)
         /\ e.cwd # <<>> /\ Place(w)!Absolute(e.cwd)
         /\ Temp \in Seq(Names) /\ Temp # <<>> /\ Place(w)!Absolute(Temp)
         /\ Nil # <<>>
<1>1. Place(w)!Paths \subseteq Seq(Names) /\ <<>> \in Place(w)!Paths
  BY DEF Place!Paths, Names
<1>2. QED
  BY <1>1, ConstantsTyped DEF Place!Env, Place!ConstantsTyped, Place!Absolute

\* The names that corvex adds.
LEMMA Leaves ==
  /\ <<"AppData", "Roaming">> \in Seq(Names) /\ <<"AppData", "Local">> \in Seq(Names)
  /\ <<".config">> \in Seq(Names) /\ <<".local", "state">> \in Seq(Names) /\ <<"/", "tmp">> \in Seq(Names)
  /\ <<"xray", "xray.pid">> \in Seq(Names) /\ <<"xray", "config.json">> \in Seq(Names)
  /\ <<"xray", "corvex-awg.conf">> \in Seq(Names) /\ <<"corvex", "corvex.log">> \in Seq(Names)
  /\ \A f \in {"xray.log", "access.log", "error.log"} : <<"xray", f>> \in Seq(Names)
BY DEF Names

\* Where a path is relative the working directory is before it.
LEMMA LocatedIs ==
  ASSUME NEW w \in BOOLEAN, NEW e \in Place(w)!Env, NEW p \in Seq(Names)
  PROVE  /\ Place(w)!Absolute(Place(w)!Located(e, p)) /\ Place(w)!Located(e, p) \in Seq(Names)
         /\ Place(w)!Absolute(p) => Place(w)!Located(e, p) = p
<1>1. e.cwd \in Seq(Names) /\ e.cwd # <<>> /\ Place(w)!Absolute(e.cwd)
  BY EnvTyped
<1>2. QED
  BY <1>1, Follows DEF Place!Located

\* Environments of one home have one PID file.
LEMMA SamePlace ==
  ASSUME NEW w \in BOOLEAN, NEW a \in Place(w)!Env, NEW b \in Place(w)!Env, Place(w)!SameHome(a, b)
  PROVE  Place(w)!Located(a, Place(w)!PidFile(a)) = Place(w)!Located(b, Place(w)!PidFile(b))
<1> DEFINE of(e) == IF w THEN e.state ELSE e.config
           leaf == IF w THEN <<"AppData", "Local">> ELSE <<".config">>
           file == <<"xray", "xray.pid">>
<1>1. CASE Place(w)!IsSet(of(a)) /\ Place(w)!Absolute(of(a)) /\ of(a) = of(b)
  <2>1. Place(w)!PidFile(a) = of(a) \o file /\ Place(w)!PidFile(b) = of(a) \o file
    BY <1>1 DEF Place!PidFile, Place!StateDir, Place!ConfigBaseDir, Place!PerUserDir, Place!XdgDir
  <2>2. of(a) \in Seq(Names) /\ of(a) # <<>> /\ file \in Seq(Names)
    BY <1>1, EnvTyped, Leaves DEF Place!IsSet
  <2>3. Place(w)!Absolute(of(a) \o file) /\ of(a) \o file \in Seq(Names)
    BY <1>1, <2>2, Follows
  <2>4. QED
    BY <2>1, <2>3 DEF Place!Located
<1>2. CASE /\ ~Place(w)!IsSet(of(a)) /\ ~Place(w)!IsSet(of(b))
           /\ Place(w)!IsSet(a.home) /\ Place(w)!Absolute(a.home) /\ a.home = b.home
  <2>1. Place(w)!PidFile(a) = (a.home \o leaf) \o file /\ Place(w)!PidFile(b) = (a.home \o leaf) \o file
    BY <1>2 DEF Place!PidFile, Place!StateDir, Place!ConfigBaseDir, Place!PerUserDir, Place!XdgDir, Place!IsSet
  <2>2. a.home \in Seq(Names) /\ a.home # <<>> /\ leaf \in Seq(Names) /\ file \in Seq(Names)
    BY <1>2, EnvTyped, Leaves DEF Place!IsSet
  <2> HIDE DEF leaf, file
  <2>3. a.home \o leaf \in Seq(Names) /\ a.home \o leaf # <<>> /\ Place(w)!Absolute(a.home \o leaf)
    BY <1>2, <2>2, Follows
  <2>4. Place(w)!Absolute((a.home \o leaf) \o file) /\ (a.home \o leaf) \o file \in Seq(Names)
    BY <2>2, <2>3, Follows
  <2>5. QED
    BY <2>1, <2>4 DEF Place!Located
<1>3. QED
  BY <1>1, <1>2 DEF Place!SameHome

\* The bases of an environment.
LEMMA Bases ==
  ASSUME NEW w \in BOOLEAN, NEW e \in Place(w)!Env
  PROVE  /\ Place(w)!ConfigBaseDir(e) \in Seq(Names) /\ Place(w)!StateDir(e) \in Seq(Names)
         /\ Place(w)!PidFile(e) \in Seq(Names)
BY EnvTyped, Leaves, Follows
   DEF Place!ConfigBaseDir, Place!StateDir, Place!PerUserDir, Place!XdgDir, Place!IsSet, Place!PidFile


\* The tunnel's file is beside xray's.
LEMMA AwgConfIs ==
  ASSUME NEW w \in BOOLEAN, NEW e \in Place(w)!Env
  PROVE  Place(w)!AwgConf(e) = Place(w)!ConfigBaseDir(e) \o <<"xray", "corvex-awg.conf">>
<1> DEFINE base == Place(w)!ConfigBaseDir(e)
<1>1. base \in Seq(Names) /\ <<"xray", "config.json">> \in Seq(Names) /\ <<"xray">> \in Seq(Names)
      /\ <<"corvex-awg.conf">> \in Seq(Names)
  BY Bases, Leaves DEF Names
<1> HIDE DEF base
<1>2. Place(w)!Parent(base \o <<"xray", "config.json">>) = base \o <<"xray">>
  <2>1. Len(base \o <<"xray", "config.json">>) = Len(base) + 2 /\ Len(base) \in Nat
    BY <1>1
  <2>2. SubSeq(base \o <<"xray", "config.json">>, 1, Len(base) + 1) = base \o <<"xray">>
    BY <1>1
  <2>3. QED
    BY <2>1, <2>2 DEF Place!Parent
<1>3. (base \o <<"xray">>) \o <<"corvex-awg.conf">> = base \o <<"xray", "corvex-awg.conf">>
  BY <1>1
<1>4. QED
  BY <1>2, <1>3 DEF Place!AwgConf, Place!XrayConfig, base

\* Every path a command may write to is something in one of the two bases.
NeededPaths(w, e) == {Place(w)!PidFile(e), Place(w)!XrayConfig(e), Place(w)!AwgConf(e)}
  \cup Place(w)!ChosenXrayLogs(e)
WrittenPaths(w, e) == NeededPaths(w, e) \cup {Place(w)!CorvexLog(e)}

\* Each of them is.
LEMMA InBase ==
  ASSUME NEW w \in BOOLEAN, NEW e \in Place(w)!Env, NEW q \in WrittenPaths(w, e)
  PROVE  \E base \in {Place(w)!ConfigBaseDir(e), Place(w)!StateDir(e)}, leaf \in Seq(Names) : q = base \o leaf
BY AwgConfIs, Leaves
   DEF WrittenPaths, NeededPaths, Place!XrayConfig, Place!CorvexLog, Place!PidFile, Place!ChosenXrayLogs

\* What w makes of a path in one of the bases: it is refused, or in a
\* place that a variable names.
LEMMA NamedOrRefused ==
  ASSUME NEW w \in BOOLEAN, w = TRUE, NEW e \in Place(w)!Env,
         NEW base \in {Place(w)!ConfigBaseDir(e), Place(w)!StateDir(e)}, NEW leaf \in Seq(Names),
         ~Place(w)!SharedFallbackRejection(e, base \o leaf)
  PROVE  \E v \in {e.config, e.state, e.home} :
           /\ Place(w)!IsSet(v)
           /\ Place(w)!StartsWith(Place(w)!Located(e, base \o leaf), Place(w)!Located(e, v))
<1>1. ASSUME NEW v \in Seq(Names), v # <<>>, NEW l \in Seq(Names)
      PROVE  Place(w)!StartsWith(Place(w)!Located(e, v \o l), Place(w)!Located(e, v))
  <2>1. Place(w)!Absolute(v \o l) <=> Place(w)!Absolute(v)
    BY <1>1, Follows
  <2>2. CASE Place(w)!Absolute(v)
    BY <1>1, <2>1, <2>2, Follows DEF Place!Located
  <2>3. CASE ~Place(w)!Absolute(v)
    <3>1. e.cwd \in Seq(Names)
      BY EnvTyped
    <3>2. QED
      BY <1>1, <2>1, <2>3, <3>1, Nested DEF Place!Located
  <2>4. QED
    BY <2>2, <2>3
<1>2. ASSUME NEW v \in {e.config, e.state}, Place(w)!IsSet(v), base = v
      PROVE  \E z \in {e.config, e.state, e.home} :
               /\ Place(w)!IsSet(z)
               /\ Place(w)!StartsWith(Place(w)!Located(e, base \o leaf), Place(w)!Located(e, z))
  <2>1. v \in Seq(Names) /\ v # <<>>
    BY <1>2, EnvTyped DEF Place!IsSet
  <2>2. Place(w)!StartsWith(Place(w)!Located(e, base \o leaf), Place(w)!Located(e, v))
    BY <1>1, <1>2, <2>1
  <2>3. QED
    BY <1>2, <2>2
<1>3. ASSUME NEW sub \in Seq(Names), Place(w)!IsSet(e.home), base = e.home \o sub
      PROVE  \E z \in {e.config, e.state, e.home} :
               /\ Place(w)!IsSet(z)
               /\ Place(w)!StartsWith(Place(w)!Located(e, base \o leaf), Place(w)!Located(e, z))
  <2>1. e.home \in Seq(Names) /\ e.home # <<>>
    BY <1>3, EnvTyped DEF Place!IsSet
  <2>2. base \o leaf = e.home \o (sub \o leaf) /\ sub \o leaf \in Seq(Names)
    <3>1. (e.home \o sub) \o leaf = e.home \o (sub \o leaf) /\ sub \o leaf \in Seq(Names)
      BY <1>3, <2>1, Nested
    <3>2. QED
      BY <1>3, <3>1
  <2>3. Place(w)!StartsWith(Place(w)!Located(e, base \o leaf), Place(w)!Located(e, e.home))
    BY <1>1, <2>1, <2>2
  <2>4. QED
    BY <1>3, <2>3
<1>4. CASE base = Temp /\ Place(w)!FellBack(e)
  <2>1. Place(w)!StartsWith(base \o leaf, Temp)
    BY <1>4, EnvTyped, Follows
  <2>2. QED
    BY <1>4, <2>1 DEF Place!SharedFallbackRejection
<1>5. \/ Place(w)!IsSet(e.config) /\ base = e.config
      \/ Place(w)!IsSet(e.state) /\ base = e.state
      \/ Place(w)!IsSet(e.home) /\ base = e.home \o <<"AppData", "Roaming">>
      \/ Place(w)!IsSet(e.home) /\ base = e.home \o <<"AppData", "Local">>
      \/ base = Temp /\ Place(w)!FellBack(e)
  BY DEF Place!ConfigBaseDir, Place!StateDir, Place!PerUserDir, Place!FellBack
<1>6. QED
  BY <1>2, <1>3, <1>4, <1>5, Leaves

\* The invariant: an xray is tracked by the PID file of its start, no two by
\* the same one; and what was written was not refused.
PlaceInv(w) ==
  /\ \A x \in live : x.env \in Place(w)!Env /\ x.at = Place(w)!Located(x.env, Place(w)!PidFile(x.env))
  /\ \A x, y \in live : x.at = y.at => x = y
  /\ last.cmd \in {"none", "start", "stop"} /\ last.outcome \in {"ok", "refused", "notRunning"}
  /\ last.cmd = "none" => last.wrote = {} /\ last.outcome = "ok"
  /\ last.cmd # "none" => last.env \in Place(w)!Env
  /\ last.cmd = "stop" => \A x \in live : x.at # Place(w)!Located(last.env, Place(w)!PidFile(last.env))
  /\ last.cmd # "none" =>
       \A p \in last.wrote : \E q \in WrittenPaths(w, last.env) :
         p = Place(w)!Located(last.env, q) /\ ~Place(w)!Refused(last.env, q)
  /\ last.outcome = "refused" =>
       last.cmd = "start" /\ \E q \in NeededPaths(w, last.env) : Place(w)!Refused(last.env, q)

\* Before the first command no xray lives and nothing was written.
LEMMA PlaceInit ==
  ASSUME NEW w \in BOOLEAN PROVE Place(w)!Init => PlaceInv(w)
BY DEF Place!Init, PlaceInv

\* Every start and stop, of whatever user, keeps the places apart.
LEMMA PlaceStep ==
  ASSUME NEW w \in BOOLEAN PROVE PlaceInv(w) /\ [Place(w)!Next]_(Place(w)!vars) => PlaceInv(w)'
<1> SUFFICES ASSUME PlaceInv(w), [Place(w)!Next]_(Place(w)!vars) PROVE PlaceInv(w)'
  OBVIOUS
<1>0. ASSUME NEW e, NEW paths, paths \subseteq WrittenPaths(w, e)
      PROVE  \A p \in Place(w)!Written(e, paths) : \E q \in WrittenPaths(w, e) :
               p = Place(w)!Located(e, q) /\ ~Place(w)!Refused(e, q)
  BY <1>0 DEF Place!Written
<1>1. ASSUME NEW e \in Place(w)!Env, NEW tunnelled \in BOOLEAN, NEW ownLogs \in BOOLEAN,
             Place(w)!Start(e, tunnelled, ownLogs)
      PROVE  PlaceInv(w)'
  <2> DEFINE confs == {Place(w)!XrayConfig(e)} \cup (IF tunnelled THEN {Place(w)!AwgConf(e)} ELSE {})
             logs  == IF ownLogs THEN {} ELSE Place(w)!ChosenXrayLogs(e)
  <2>0. ASSUME NEW o \in {"ok", "refused"}, NEW paths, paths \subseteq WrittenPaths(w, e),
               Place(w)!Ended("start", e, o, paths),
               o = "refused" => \E q \in NeededPaths(w, e) : Place(w)!Refused(e, q),
               \A x \in live' :
                 x.env \in Place(w)!Env /\ x.at = Place(w)!Located(x.env, Place(w)!PidFile(x.env)),
               \A x, y \in live' : x.at = y.at => x = y
        PROVE  PlaceInv(w)'
    <3>1. last'.cmd = "start" /\ last'.env = e /\ last'.outcome = o /\ last'.wrote = Place(w)!Written(e, paths)
      BY <2>0 DEF Place!Ended
    <3>2. QED
      BY <1>0, <2>0, <3>1 DEF PlaceInv
  <2>1. /\ confs \cup logs \cup {Place(w)!PidFile(e)} \subseteq NeededPaths(w, e)
        /\ confs \cup logs \cup {Place(w)!PidFile(e), Place(w)!CorvexLog(e)} \subseteq WrittenPaths(w, e)
    BY DEF WrittenPaths, NeededPaths
  <2>2. /\ \A x \in live : x.env \in Place(w)!Env /\ x.at = Place(w)!Located(x.env, Place(w)!PidFile(x.env))
        /\ \A x, y \in live : x.at = y.at => x = y
    BY DEF PlaceInv
  <2>3. Place(w)!Tracked(e) = {x \in live : x.at = Place(w)!Located(e, Place(w)!PidFile(e))}
    BY DEF Place!Tracked
  <2> HIDE DEF confs, logs
  <2>4. CASE /\ \E p \in confs : Place(w)!Refused(e, p)
             /\ Place(w)!Ended("start", e, "refused", {Place(w)!CorvexLog(e)})
             /\ UNCHANGED live
    BY <2>0, <2>1, <2>2, <2>4
  <2>5. CASE /\ \E p \in logs : Place(w)!Refused(e, p)
             /\ Place(w)!Ended("start", e, "refused", {Place(w)!CorvexLog(e)} \cup confs)
             /\ UNCHANGED live
    BY <2>0, <2>1, <2>2, <2>5
  <2>6. CASE /\ Place(w)!Refused(e, Place(w)!PidFile(e))
             /\ Place(w)!Ended("start", e, "refused", {Place(w)!CorvexLog(e)} \cup confs)
             /\ live' = live \ Place(w)!Tracked(e)
    BY <2>0, <2>1, <2>2, <2>6
  <2>7. CASE /\ Place(w)!Ended("start", e, "ok",
                               {Place(w)!CorvexLog(e), Place(w)!PidFile(e)} \cup confs \cup logs)
             /\ live' = (live \ Place(w)!Tracked(e))
                  \cup {[at |-> Place(w)!Located(e, Place(w)!PidFile(e)), env |-> e]}
    BY <2>0, <2>1, <2>2, <2>3, <2>7
  <2>8. QED
    BY <1>1, <2>4, <2>5, <2>6, <2>7, Zenon DEF Place!Start, confs, logs
<1>2. ASSUME NEW e \in Place(w)!Env, Place(w)!Stop(e)
      PROVE  PlaceInv(w)'
  <2>1. /\ last'.cmd = "stop" /\ last'.env = e /\ last'.outcome \in {"ok", "notRunning"}
        /\ last'.wrote = Place(w)!Written(e, {Place(w)!CorvexLog(e)})
        /\ live' = {x \in live : x.at # Place(w)!Located(e, Place(w)!PidFile(e))}
    BY <1>2 DEF Place!Stop, Place!Ended, Place!Tracked
  <2>2. {Place(w)!CorvexLog(e)} \subseteq WrittenPaths(w, e)
    BY DEF WrittenPaths
  <2>3. QED
    BY <1>0, <2>1, <2>2 DEF PlaceInv
<1>3. CASE UNCHANGED Place(w)!vars
  BY <1>3 DEF Place!vars, PlaceInv
<1>4. QED
  BY <1>1, <1>2, <1>3 DEF Place!Next

\* What the invariant says of the homes and of what was written.
LEMMA PlacesHeld ==
  ASSUME NEW w \in BOOLEAN
  PROVE PlaceInv(w) =>
          Place(w)!TypeOK /\ Place(w)!OneXrayPerHome /\ Place(w)!WrittenWhereMeant /\ Place(w)!NamedIsAccepted
<1> SUFFICES ASSUME PlaceInv(w)
             PROVE  /\ Place(w)!TypeOK /\ Place(w)!OneXrayPerHome
                    /\ Place(w)!WrittenWhereMeant /\ Place(w)!NamedIsAccepted
  OBVIOUS
<1>1. Place(w)!OneXrayPerHome
  <2>1. ASSUME NEW x \in live, NEW y \in live, Place(w)!SameHome(x.env, y.env) PROVE x = y
    BY <2>1, SamePlace DEF PlaceInv
  <2>2. ASSUME last.cmd = "stop", NEW x \in live, Place(w)!SameHome(x.env, last.env) PROVE FALSE
    BY <2>2, SamePlace DEF PlaceInv
  <2>3. QED
    BY <2>1, <2>2 DEF Place!OneXrayPerHome
<1>2. ASSUME NEW p \in last.wrote
      PROVE  /\ Place(w)!Absolute(p) /\ last.cmd # "none" /\ last.env \in Place(w)!Env
             /\ \E base \in {Place(w)!ConfigBaseDir(last.env), Place(w)!StateDir(last.env)},
                  leaf \in Seq(Names) :
                  p = Place(w)!Located(last.env, base \o leaf) /\ ~Place(w)!Refused(last.env, base \o leaf)
  <2>1. last.cmd # "none" /\ last.env \in Place(w)!Env
    BY <1>2 DEF PlaceInv
  <2>2. PICK q \in WrittenPaths(w, last.env) :
               p = Place(w)!Located(last.env, q) /\ ~Place(w)!Refused(last.env, q)
    BY <1>2, <2>1 DEF PlaceInv
  <2>3. PICK base \in {Place(w)!ConfigBaseDir(last.env), Place(w)!StateDir(last.env)}, leaf \in Seq(Names) :
               q = base \o leaf
    BY <2>1, InBase
  <2>4. base \o leaf \in Seq(Names)
    BY <2>1, Bases, Follows
  <2>5. QED
    BY <2>1, <2>2, <2>3, <2>4, LocatedIs
<1>3. Place(w)!TypeOK
  <2>1. ASSUME NEW x \in live PROVE Place(w)!Absolute(x.at) /\ x.env \in Place(w)!Env
    BY Bases, LocatedIs DEF PlaceInv
  <2>2. QED
    BY <1>2, <2>1 DEF PlaceInv, Place!TypeOK
<1>4. ASSUME w = TRUE, NEW p \in last.wrote
      PROVE  /\ p \notin Reparse
             /\ \E v \in {last.env.config, last.env.state, last.env.home} :
                  Place(w)!IsSet(v) /\ Place(w)!StartsWith(p, Place(w)!Located(last.env, v))
  <2>1. PICK base \in {Place(w)!ConfigBaseDir(last.env), Place(w)!StateDir(last.env)}, leaf \in Seq(Names) :
               p = Place(w)!Located(last.env, base \o leaf) /\ ~Place(w)!Refused(last.env, base \o leaf)
    BY <1>2
  <2>2. p \notin Reparse /\ ~Place(w)!SharedFallbackRejection(last.env, base \o leaf)
    BY <1>4, <2>1 DEF Place!Refused
  <2>3. last.env \in Place(w)!Env
    BY <1>2
  <2>4. \E v \in {last.env.config, last.env.state, last.env.home} :
          /\ Place(w)!IsSet(v)
          /\ Place(w)!StartsWith(Place(w)!Located(last.env, base \o leaf), Place(w)!Located(last.env, v))
    BY <1>4, <2>1, <2>2, <2>3, NamedOrRefused
  <2>5. QED
    BY <2>1, <2>2, <2>4
<1>5. Place(w)!WrittenWhereMeant
  BY <1>4 DEF Place!WrittenWhereMeant
<1>6. Place(w)!NamedIsAccepted
  <2>1. ASSUME last.outcome = "refused", NEW q \in NeededPaths(w, last.env), Place(w)!Refused(last.env, q)
        PROVE  \/ Place(w)!Located(last.env, q) \in Reparse
               \/ /\ last.env.home \in {Nil, <<>>}
                  /\ last.env.config \in {Nil, <<>>} \/ last.env.state \in {Nil, <<>>}
    BY <2>1 DEF Place!Refused, Place!SharedFallbackRejection, Place!FellBack, Place!IsSet
  <2>2. QED
    BY <2>1 DEF PlaceInv, Place!NamedIsAccepted, NeededPaths
<1>7. QED
  BY <1>1, <1>3, <1>5, <1>6

\* On each platform, whatever the environments its commands run in: one home has one xray,
\* nothing is written to the temporary directory or through a reparse point on Windows unless a
\* variable says so, and a start is refused only for one of those (config.rs:180-245).
THEOREM PlaceHolds ==
  ASSUME NEW w \in BOOLEAN
  PROVE Place(w)!Spec =>
          []( /\ Place(w)!TypeOK /\ Place(w)!OneXrayPerHome
              /\ Place(w)!WrittenWhereMeant /\ Place(w)!NamedIsAccepted )
BY PlaceInit, PlaceStep, PlacesHeld, PTL DEF Place!Spec

-----------------------------------------------------------------------------
(***************************************************************************)
(* BinaryLookup.                                                           *)
(***************************************************************************)

\* The index of the fixed place, and of the package, that a lookup ends at.
FixedAt ==
  LET I == {k \in 1..Len(FixedPlaces) : FixedPlaces[k] \in fixed} IN First(I)
PackageAt ==
  LET I == {k \in 1..Len(packages) : packages[k] \in Lookup!Holding \cup {"unreadable"}}
  IN  First(I)

\* Both are the first that will do.
LEMMA Searches ==
  ASSUME packages \in Packages
  PROVE  /\ Len(FixedPlaces) \in Nat /\ Len(packages) \in Nat
         /\ FixedAt \in 0..Len(FixedPlaces) /\ PackageAt \in 0..Len(packages)
         /\ FixedAt = 0 => \A j \in 1..Len(FixedPlaces) : FixedPlaces[j] \notin fixed
         /\ FixedAt # 0 => /\ FixedPlaces[FixedAt] \in fixed
                          /\ \A j \in 1..(FixedAt - 1) : FixedPlaces[j] \notin fixed
         /\ PackageAt # 0 =>
              /\ packages[PackageAt] \in Lookup!Holding \cup {"unreadable"}
              /\ \A j \in 1..(PackageAt - 1) : packages[j] \notin Lookup!Holding
<1>1. Len(FixedPlaces) \in Nat /\ Len(packages) \in Nat
  BY ConstantsTyped DEF Lookup!ConstantsTyped
<1> DEFINE I == {k \in 1..Len(FixedPlaces) : FixedPlaces[k] \in fixed}
           J == {k \in 1..Len(packages) : packages[k] \in Lookup!Holding \cup {"unreadable"}}
<1>2. /\ FixedAt \in 0..Len(FixedPlaces)
      /\ FixedAt = 0 => I = {}
      /\ FixedAt # 0 => FixedAt \in I /\ \A j \in 1..(FixedAt - 1) : j \notin I
  <2>1. I \subseteq 1..Len(FixedPlaces) /\ FixedAt = First(I)
    BY DEF FixedAt
  <2> HIDE DEF I
  <2>2. QED
    BY <1>1, <2>1, FirstOf
<1>3. /\ PackageAt \in 0..Len(packages)
      /\ PackageAt # 0 => PackageAt \in J /\ \A j \in 1..(PackageAt - 1) : j \notin J
  <2>1. J \subseteq 1..Len(packages) /\ PackageAt = First(J)
    BY DEF PackageAt
  <2> HIDE DEF J
  <2>2. QED
    BY <1>1, <2>1, FirstOf
<1>4. QED
  BY <1>1, <1>2, <1>3

\* A lookup by the two searches.
Found ==
  IF tool /\ onPath THEN <<"path">>
  ELSE IF FixedAt # 0 THEN <<"fixed", FixedAt>>
  ELSE IF PackageAt = 0 THEN Nil
  ELSE IF packages[PackageAt] = "unreadable" THEN Nil ELSE <<"package", PackageAt>>

\* SelectInSeq is the first of the indices that will do.
LEMMA ResolveIs == Lookup!ResolveBinary = Found
<1>1. Lookup!SelectInSeq(FixedPlaces, LAMBDA p : p \in fixed) = FixedAt
  BY DEF Lookup!SelectInSeq, Lookup!Min, First, FixedAt
<1>2. Lookup!SelectInSeq(packages, LAMBDA k : k \in Lookup!Holding \cup {"unreadable"}) = PackageAt
  BY DEF Lookup!SelectInSeq, Lookup!Min, First, PackageAt
<1>3. Lookup!FindInChildren(packages) =
        IF PackageAt = 0 THEN Nil
        ELSE IF packages[PackageAt] = "unreadable" THEN Nil ELSE <<"package", PackageAt>>
  BY <1>2, Zenon DEF Lookup!FindInChildren
<1>4. Lookup!CommonLocation = IF FixedAt # 0 THEN <<"fixed", FixedAt>> ELSE Lookup!FindInChildren(packages)
  BY <1>1, Zenon DEF Lookup!CommonLocation
<1>5. QED
  BY <1>3, <1>4, Zenon DEF Lookup!ResolveBinary, Found

\* The invariant: what was found at the check is there until an installer runs.
LookupInv ==
  /\ tool \in BOOLEAN /\ onPath \in BOOLEAN /\ (OnWindows => tool)
  /\ fixed \in SUBSET Lookup!Range(FixedPlaces) /\ packages \in Packages
  /\ Lookup!TypeOK
  /\ lookupPc \in {"check", "spawn"} => lookupOutcome = Nil
  /\ lookupPc = "spawn" => changed \/ Found # Nil
  /\ Lookup!SpawnsThePreferred /\ Lookup!CheckHolds

\* The first states.
LEMMA LookupInit == Lookup!Init => LookupInv
BY ConstantsTyped
   DEF Lookup!Init, Lookup!Installations, LookupInv, Lookup!TypeOK, Lookup!SpawnsThePreferred,
     Lookup!CheckHolds, Lookup!ConstantsTyped

\* Where a lookup gives something it is a place of its kind.
LEMMA FoundTyped ==
  ASSUME packages \in Packages, fixed \in SUBSET Lookup!Range(FixedPlaces), onPath \in BOOLEAN, tool \in BOOLEAN
  PROVE  /\ Found \in {Nil, <<"path">>} \cup ({"fixed"} \X DOMAIN FixedPlaces) \cup ({"package"} \X (Nat \ {0}))
         /\ Found # Nil => Found \in Lookup!Places
         /\ Found = <<"path">> => onPath
<1>1. DOMAIN FixedPlaces = 1..Len(FixedPlaces)
  BY ConstantsTyped DEF Lookup!ConstantsTyped
<1>2. QED
  BY <1>1, Searches, ConstantsTyped DEF Found, Lookup!Places, Lookup!ConstantsTyped

\* The spawn: of the place that is preferred, or of the bare name.
LEMMA SpawnInv ==
  ASSUME LookupInv, Lookup!Spawn
  PROVE  LookupInv'
<1>1. /\ packages \in Packages /\ fixed \in SUBSET Lookup!Range(FixedPlaces)
      /\ onPath \in BOOLEAN /\ tool \in BOOLEAN /\ (OnWindows => tool)
      /\ UNCHANGED <<tool, onPath, fixed, packages, changed>>
      /\ lookupPc' = "done" /\ found' = Lookup!Spawned
      /\ lookupOutcome' = IF Lookup!Spawned = <<"bare">> /\ ~onPath THEN "failed" ELSE "started"
  BY DEF LookupInv, Lookup!Spawn
<1>2. Lookup!Spawned = IF Found = Nil THEN <<"bare">> ELSE Found
  BY ResolveIs, Zenon DEF Lookup!Spawned
<1>3. Lookup!TypeOK'
  BY <1>1, <1>2, FoundTyped DEF Lookup!TypeOK
<1>4. Lookup!CheckHolds'
  <2>1. Found # Nil => Lookup!Spawned # <<"bare">>
    BY <1>1, <1>2, FoundTyped, Searches DEF Found
  <2>2. changed \/ Found # Nil
    BY DEF LookupInv, Lookup!Spawn
  <2>3. QED
    BY <1>1, <2>1, <2>2 DEF Lookup!CheckHolds
<1>5. Lookup!SpawnsThePreferred'
  <2>1. CASE Lookup!Spawned = <<"bare">>
    BY <1>1, <2>1 DEF Lookup!SpawnsThePreferred
  <2>2. CASE Found = <<"path">> /\ Lookup!Spawned = Found
    BY <1>1, <2>2, FoundTyped DEF Lookup!SpawnsThePreferred
  <2>3. CASE FixedAt # 0 /\ Found = <<"fixed", FixedAt>> /\ ~(tool /\ onPath) /\ Lookup!Spawned = Found
    <3>1. OnWindows
      BY <1>1, <2>3, Searches, ConstantsTyped DEF Lookup!ConstantsTyped
    <3>2. QED
      BY <1>1, <2>3, <3>1, Searches DEF Lookup!SpawnsThePreferred
  <2>4. CASE /\ FixedAt = 0 /\ PackageAt # 0 /\ packages[PackageAt] # "unreadable"
             /\ Found = <<"package", PackageAt>> /\ ~(tool /\ onPath) /\ Lookup!Spawned = Found
    <3>1. OnWindows
      BY <1>1, <2>4, Searches, ConstantsTyped DEF Lookup!ConstantsTyped
    <3>2. fixed = {}
      BY <1>1, <2>4, Searches, ConstantsTyped DEF Lookup!ConstantsTyped, Lookup!Range
    <3>3. QED
      BY <1>1, <2>4, <3>1, <3>2, Searches DEF Lookup!SpawnsThePreferred
  <2>5. QED
    BY <1>1, <1>2, <2>1, <2>2, <2>3, <2>4 DEF Found
<1>6. QED
  BY <1>1, <1>3, <1>4, <1>5 DEF LookupInv

\* Every step.
LEMMA LookupStep == LookupInv /\ [Lookup!Next]_(Lookup!vars) => LookupInv'
<1> SUFFICES ASSUME LookupInv, [Lookup!Next]_(Lookup!vars) PROVE LookupInv'
  OBVIOUS
<1>1. CASE Lookup!EnsureInstalled
  <2>1. UNCHANGED Found /\ (lookupPc' = "spawn" => Found # Nil)
    BY <1>1, ResolveIs DEF Lookup!EnsureInstalled, Found, FixedAt, PackageAt
  <2>2. Lookup!TypeOK'
    <3>1. found' = Found
      BY <1>1, ResolveIs DEF Lookup!EnsureInstalled
    <3>2. QED
      BY <1>1, <3>1, FoundTyped DEF Lookup!EnsureInstalled, LookupInv, Lookup!TypeOK
  <2>3. QED
    BY <1>1, <2>1, <2>2, ConstantsTyped
       DEF Lookup!EnsureInstalled, LookupInv, Lookup!SpawnsThePreferred, Lookup!CheckHolds,
         Lookup!ConstantsTyped
<1>2. CASE Lookup!Installer
  BY <1>2, ConstantsTyped
     DEF Lookup!Installer, LookupInv, Lookup!TypeOK, Lookup!SpawnsThePreferred, Lookup!CheckHolds,
       Lookup!ConstantsTyped
<1>3. CASE Lookup!Spawn
  BY <1>3, SpawnInv
<1>4. CASE UNCHANGED Lookup!vars
  <2>1. UNCHANGED Found
    BY <1>4 DEF Lookup!vars, Found, FixedAt, PackageAt
  <2>2. QED
    BY <1>4, <2>1 DEF Lookup!vars, LookupInv, Lookup!TypeOK, Lookup!SpawnsThePreferred, Lookup!CheckHolds
<1>5. QED
  BY <1>1, <1>2, <1>3, <1>4 DEF Lookup!Next

\* What is spawned is the first candidate in the order of the lookup at that time, and a spawn
\* after a passed check fails only if the installation changed in between (xray.rs:33, xray.rs:796).
THEOREM LookupHolds == Lookup!Spec => [](Lookup!TypeOK /\ Lookup!SpawnsThePreferred /\ Lookup!CheckHolds)
<1>1. LookupInv => Lookup!TypeOK /\ Lookup!SpawnsThePreferred /\ Lookup!CheckHolds
  BY DEF LookupInv
<1>2. QED
  BY <1>1, LookupInit, LookupStep, PTL DEF Lookup!Spec

-----------------------------------------------------------------------------
(***************************************************************************)
(* ProcessReport.                                                          *)
(***************************************************************************)

\* What a list of the processes of a table is.
Listed(table) ==
  {[pid |-> p, user |-> table[p].user, config_arg |-> table[p].config] :
     p \in {q \in Pids : table[q] # Nil /\ Processes!CommandMatches(Processes!Argv0(table[q]))}}

\* The process table, and what a command has found out by each of its steps.
ReportTyped ==
  /\ procs \in [Pids -> Programs \cup {Nil, Processes!Xray}]
  /\ pidFile \in Pids \cup {Nil} /\ tracked \in Pids \cup {Nil}
  /\ processCmd \in {"status", "stop", "start"}
  /\ processPc \in {"begin", "spawn", "list", "disable", "write", "end"}
  /\ error \in {"NotPermitted", "StartFailed", Nil}
  /\ raced \in BOOLEAN /\ events \in 0..MaxEvents
  /\ (out # {}) <=> (processPc = "end")
\* What has been listed is of the table that then keeps, and the tracked
\* process is that of xray.pid unless another corvex has changed it.
ListedThen ==
  /\ processPc \in {"begin", "spawn"} => tracked = Nil /\ error = Nil
  /\ processPc \in {"begin", "spawn", "list"} => then = Nil
  /\ processPc = "spawn" => processCmd = "start"
  /\ processPc = "disable" => processCmd = "stop"
  /\ error = "NotPermitted" => tracked \in Pids
  /\ processCmd = "stop" /\ processPc \in {"list", "disable", "write"} => tracked = Nil /\ error = Nil
  /\ processPc \in {"spawn", "list"} /\ ~raced => tracked = pidFile
  /\ then = Nil => all = {}
  /\ then # Nil => /\ then \in [procs : Processes!Tables, pidFile : Pids \cup {Nil}]
                   /\ all = Listed(then.procs)
                   /\ ~raced => tracked = then.pidFile
ReportInv ==
  ReportTyped /\ ListedThen /\ Processes!AdviceFits /\ Processes!OrphansTold /\ Processes!BlockedByWhom

\* A program that is listed is an xray.
LEMMA ListedIs ==
  ASSUME NEW table \in Processes!Tables, NEW x \in Listed(table)
  PROVE  /\ x.pid \in Pids /\ table[x.pid] # Nil /\ Processes!CommandMatches(Processes!Argv0(table[x.pid]))
         /\ Processes!ProcessIsXray(table[x.pid])
         /\ x.user = table[x.pid].user /\ x.config_arg = table[x.pid].config
BY ConstantsTyped
   DEF Listed, Processes!Tables, Processes!AProgram, Processes!CommandMatches, Processes!Argv0,
     Processes!ProcessIsXray, Processes!ConstantsTyped

\* And one that is an xray is listed if its argv[0] shows it.
LEMMA IsListed ==
  ASSUME NEW table \in Processes!Tables, NEW p \in Pids, table[p] # Nil
  PROVE  /\ Processes!CommandMatches(Processes!Argv0(table[p])) =>
              [pid |-> p, user |-> table[p].user, config_arg |-> table[p].config] \in Listed(table)
         /\ Processes!ProcessIsXray(table[p]) /\ table[p].binary # "spaced" =>
              Processes!CommandMatches(Processes!Argv0(table[p]))
BY ConstantsTyped
   DEF Listed, Processes!Tables, Processes!AProgram, Processes!CommandMatches, Processes!Argv0,
     Processes!ProcessIsXray, Processes!ConstantsTyped

\* The lines of orphans, spelled out.
LEMMA OrphanLinesAre ==
  ASSUME NEW list
  PROVE  /\ \A l \in Processes!OrphanLines(list) : \E x \in list :
              l = [kind |-> "orphan", pid |-> x.pid, user |-> x.user, sudo |-> x.user # Processes!Me]
         /\ \A x \in list :
              [kind |-> "orphan", pid |-> x.pid, user |-> x.user, sudo |-> x.user # Processes!Me]
                \in Processes!OrphanLines(list)
<1>1. ASSUME NEW pid, NEW owner, NEW sudo
      PROVE  [Processes!Line("orphan", pid, owner) EXCEPT !.sudo = sudo]
               = [kind |-> "orphan", pid |-> pid, user |-> owner, sudo |-> sudo]
  BY DEF Processes!Line
<1>2. ASSUME NEW x \in list
      PROVE  [Processes!Line("orphan", x.pid, x.user) EXCEPT !.sudo = x.user # Processes!Me]
               = [kind |-> "orphan", pid |-> x.pid, user |-> x.user, sudo |-> x.user # Processes!Me]
  BY <1>1, Zenon
<1>3. ASSUME NEW l \in Processes!OrphanLines(list)
      PROVE  \E x \in list : l = [Processes!Line("orphan", x.pid, x.user) EXCEPT !.sudo = x.user # Processes!Me]
  BY <1>3, Zenon DEF Processes!OrphanLines
<1>4. ASSUME NEW x \in list
      PROVE  [Processes!Line("orphan", x.pid, x.user) EXCEPT !.sudo = x.user # Processes!Me]
               \in Processes!OrphanLines(list)
  BY <1>4, Zenon DEF Processes!OrphanLines
<1>5. ASSUME NEW l \in Processes!OrphanLines(list)
      PROVE  \E x \in list :
               l = [kind |-> "orphan", pid |-> x.pid, user |-> x.user, sudo |-> x.user # Processes!Me]
  <2>1. PICK x \in list : l = [Processes!Line("orphan", x.pid, x.user) EXCEPT !.sudo = x.user # Processes!Me]
    BY <1>3, <1>5, Zenon
  <2>2. l = [kind |-> "orphan", pid |-> x.pid, user |-> x.user, sudo |-> x.user # Processes!Me]
    BY <1>2, <2>1, Zenon
  <2>3. QED
    BY <2>2, Zenon
<1>6. ASSUME NEW x \in list
      PROVE  [kind |-> "orphan", pid |-> x.pid, user |-> x.user, sudo |-> x.user # Processes!Me]
               \in Processes!OrphanLines(list)
  BY <1>2, <1>4, <1>6, Zenon
<1>7. QED
  BY <1>5, <1>6, Zenon

\* What runs is a program.
LEMMA Runnable ==
  /\ [Pids -> Programs \cup {Nil, Processes!Xray}] \subseteq Processes!Tables
  /\ Processes!Xray \in Processes!AProgram
<1>1. Processes!Xray \in Processes!AProgram
  BY DEF Processes!AProgram, Processes!Xray
<1>2. Programs \subseteq Processes!AProgram
  BY ConstantsTyped DEF Processes!ConstantsTyped
<1>3. QED
  BY <1>1, <1>2 DEF Processes!Tables

\* The first states.
LEMMA ReportInit == Processes!Init => ReportInv
<1> SUFFICES ASSUME Processes!Init PROVE ReportInv
  OBVIOUS
<1>1. procs \in [Pids -> Programs \cup {Nil, Processes!Xray}] /\ pidFile \in Pids \cup {Nil}
  BY DEF Processes!Init
<1>2. ReportTyped
  <2>1. (out # {}) <=> (processPc = "end")
    BY DEF Processes!Init
  <2>2. raced \in BOOLEAN /\ events = 0
    BY Zenon DEF Processes!Init
  <2>4. MaxEvents \in Nat
    BY ConstantsTyped DEF Processes!ConstantsTyped
  <2>3. QED
    BY <1>1, <2>1, <2>2, <2>4 DEF Processes!Init, ReportTyped
<1>5. ListedThen
  BY <1>1, ConstantsTyped DEF Processes!Init, ListedThen, Processes!ConstantsTyped
<1>3. Processes!AdviceFits /\ Processes!OrphansTold /\ Processes!BlockedByWhom
  BY DEF Processes!Init, Processes!AdviceFits, Processes!OrphansTold, Processes!BlockedByWhom
<1>4. QED
  BY <1>2, <1>3, <1>5 DEF ReportInv

\* The end of a command: each of what it may say.
LEMMA WriteFits ==
  ASSUME ReportInv, Processes!Write
  PROVE  ReportInv'
<1>1. /\ processPc' = "end"
      /\ UNCHANGED <<procs, pidFile, processCmd, tracked, error, all, then, raced, events>>
      /\ out' = CASE processCmd = "stop" -> Processes!StopOutcomeLines(Processes!Orphans(all, Nil))
                  [] error # Nil -> Processes!StartErrorMessage
                  [] OTHER -> {Processes!Line("tracked", tracked, Nil)}
                    \cup Processes!OrphanLines(Processes!Orphans(all, tracked))
  BY DEF Processes!Write, Processes!End
<1>2. /\ then = Nil => all = {}
      /\ then # Nil => /\ then \in [procs : Processes!Tables, pidFile : Pids \cup {Nil}]
                       /\ all = Listed(then.procs) /\ then.procs \in Processes!Tables
                       /\ ~raced => tracked = then.pidFile
  BY DEF ReportInv, ListedThen
<1>3. ASSUME NEW x \in all
      PROVE  /\ then # Nil /\ x.pid \in Pids /\ Processes!ProcessIsXray(then.procs[x.pid])
             /\ x.user = then.procs[x.pid].user /\ x.config_arg = then.procs[x.pid].config
  BY <1>2, <1>3, ListedIs
<1>4. ASSUME NEW pid \in Pids \cup {Nil}, ~raced /\ then # Nil => pid = then.pidFile
      PROVE  \A l \in Processes!OrphanLines(Processes!Orphans(all, pid)) :
               /\ then.procs[l.pid].config = "own" /\ Processes!ProcessIsXray(then.procs[l.pid])
               /\ l.sudo <=> then.procs[l.pid].user # Processes!Me
               /\ ~raced => l.pid # then.pidFile
               /\ l.kind = "orphan"
  <2> SUFFICES ASSUME NEW l \in Processes!OrphanLines(Processes!Orphans(all, pid))
               PROVE  /\ then.procs[l.pid].config = "own" /\ Processes!ProcessIsXray(then.procs[l.pid])
                      /\ l.sudo <=> then.procs[l.pid].user # Processes!Me
                      /\ ~raced => l.pid # then.pidFile
                      /\ l.kind = "orphan"
    OBVIOUS
  <2>1. PICK x \in Processes!Orphans(all, pid) :
          l = [kind |-> "orphan", pid |-> x.pid, user |-> x.user, sudo |-> x.user # Processes!Me]
    BY OrphanLinesAre, Zenon
  <2>2. x \in all /\ x.config_arg = "own" /\ x.pid # pid
    BY DEF Processes!Orphans, Processes!ManagedProcesses
  <2>3. l.sudo = (x.user # Processes!Me) /\ l.pid = x.pid /\ l.kind = "orphan"
    BY <2>1, Zenon
  <2>4. QED
    BY <1>3, <1>4, <2>2, <2>3
<1>5. ASSUME NEW pid, then # Nil, NEW p \in Pids, Processes!IsOrphan(p), then.procs[p].binary # "spaced",
             p # pid
      PROVE  \E l \in Processes!OrphanLines(Processes!Orphans(all, pid)) : l.pid = p /\ l.kind = "orphan"
  <2>1. [pid |-> p, user |-> then.procs[p].user, config_arg |-> then.procs[p].config] \in all
    BY <1>2, <1>5, IsListed DEF Processes!IsOrphan
  <2>2. [pid |-> p, user |-> then.procs[p].user, config_arg |-> then.procs[p].config]
          \in Processes!Orphans(all, pid)
    BY <1>5, <2>1 DEF Processes!Orphans, Processes!ManagedProcesses, Processes!IsOrphan
  <2>3. QED
    <3>1. [kind |-> "orphan", pid |-> p, user |-> then.procs[p].user,
            sudo |-> then.procs[p].user # Processes!Me]
            \in Processes!OrphanLines(Processes!Orphans(all, pid))
      BY <2>2, OrphanLinesAre, Zenon
    <3>2. QED
      BY <3>1
<1>6. CASE processCmd = "stop"
  <2>0. tracked = Nil /\ error = Nil
    BY <1>6 DEF ReportInv, ListedThen, Processes!Write
  <2>1. out' = Processes!StopOutcomeLines(Processes!Orphans(all, Nil))
    BY <1>1, <1>6, <2>0
  <2>2. CASE Processes!Orphans(all, Nil) = {}
    <3>1. out' = {Processes!Line("clean", Nil, Nil)}
      BY <2>1, <2>2 DEF Processes!StopOutcomeLines
    <3>2. Processes!AdviceFits' /\ Processes!BlockedByWhom'
      BY <3>1 DEF Processes!AdviceFits, Processes!BlockedByWhom, Processes!Line
    <3>3. Processes!OrphansTold'
      <4>1. ASSUME then # Nil, NEW p \in Pids, Processes!IsOrphan(p), then.procs[p].binary # "spaced"
            PROVE FALSE
        BY <1>5, <2>2, <4>1, ConstantsTyped DEF Processes!OrphanLines, Processes!ConstantsTyped
      <4>2. QED
        BY <1>1, <4>1 DEF Processes!OrphansTold, Processes!IsOrphan
    <3>4. QED
      BY <1>1, <3>1, <3>2, <3>3 DEF ReportInv, ReportTyped, ListedThen
  <2>3. CASE Processes!Orphans(all, Nil) # {}
    <3>1. out' = {Processes!Line("qualified", Nil, Nil)} \cup Processes!OrphanLines(Processes!Orphans(all, Nil))
      BY <2>1, <2>3 DEF Processes!StopOutcomeLines
    <3>2. Processes!AdviceFits'
      BY <1>1, <1>2, <1>4, <2>0, <3>1 DEF Processes!AdviceFits, Processes!Line
    <3>3. Processes!BlockedByWhom'
      BY <3>1, OrphanLinesAre DEF Processes!BlockedByWhom, Processes!Line
    <3>4. Processes!OrphansTold'
      <4>1. ASSUME then # Nil, NEW p \in Pids, Processes!IsOrphan(p), then.procs[p].binary # "spaced"
            PROVE \E l \in out' : l.kind = "orphan" /\ l.pid = p
        BY <1>5, <3>1, <4>1, ConstantsTyped DEF Processes!ConstantsTyped
      <4>2. \A l \in out' : l.kind # "clean"
        BY <3>1, OrphanLinesAre DEF Processes!Line
      <4>3. QED
        BY <1>1, <4>1, <4>2 DEF Processes!OrphansTold, Processes!IsOrphan, Processes!Named
    <3>5. QED
      BY <1>1, <3>1, <3>2, <3>3, <3>4 DEF ReportInv, ReportTyped, ListedThen
  <2>4. QED
    BY <2>2, <2>3
<1>7. CASE processCmd # "stop" /\ error # Nil
  <2>1. out' = Processes!StartErrorMessage
    BY <1>1, <1>7
  <2>2. CASE error = "NotPermitted"
    <3>1. tracked \in Pids /\ out' = Processes!StartBlockedMessage(tracked)
      BY <2>1, <2>2 DEF Processes!StartErrorMessage, ReportInv, ListedThen
    <3> DEFINE owners == {x \in all : x.pid = tracked}
               owner == IF owners = {} THEN Nil ELSE (CHOOSE x \in owners : TRUE).user
    <3>2. out' = {Processes!Line("blocked", tracked, owner)}
            \cup {Processes!Line("besides", x.pid, x.user) : x \in Processes!Orphans(all, tracked)}
      BY <3>1 DEF Processes!StartBlockedMessage
    <3>3. ASSUME then # Nil, then.procs[tracked] # Nil,
                 Processes!CommandMatches(Processes!Argv0(then.procs[tracked]))
          PROVE  owner = then.procs[tracked].user
      <4>1. owners # {}
        <5>1. [pid |-> tracked, user |-> then.procs[tracked].user, config_arg |-> then.procs[tracked].config]
                \in all
          BY <1>2, <3>1, <3>3, IsListed
        <5>2. QED
          BY <5>1
      <4>2. (CHOOSE x \in owners : TRUE) \in owners
        BY <4>1
      <4>3. (CHOOSE x \in owners : TRUE) \in all /\ (CHOOSE x \in owners : TRUE).pid = tracked
        BY <4>2
      <4>4. QED
        BY <1>3, <4>1, <4>3
    <3> HIDE DEF owner
    <3>4. \A l \in out' : /\ l.kind \in {"blocked", "besides"}
                          /\ l.kind = "blocked" => l.pid = tracked /\ l.user = owner
                          /\ l.kind = "besides" => l.pid # tracked
      BY <3>2 DEF Processes!Line, Processes!Orphans
    <3>5. Processes!AdviceFits' /\ Processes!OrphansTold'
      BY <1>1, <3>4 DEF Processes!AdviceFits, Processes!OrphansTold
    <3>6. Processes!BlockedByWhom'
      BY <1>1, <3>3, <3>4 DEF Processes!BlockedByWhom, Processes!Named
    <3>7. QED
      BY <1>1, <3>2, <3>5, <3>6 DEF ReportInv, ReportTyped, ListedThen
  <2>3. CASE error = "StartFailed"
    <3>1. out' = {Processes!Line("failed", Nil, Nil)}
            \cup {Processes!Line("perhaps", x.pid, x.user) : x \in all}
      BY <2>1, <2>3 DEF Processes!StartErrorMessage, Processes!StartFailureDiagnostics
    <3>2. \A l \in out' : l.kind \in {"failed", "perhaps"}
      BY <3>1 DEF Processes!Line
    <3>3. Processes!AdviceFits' /\ Processes!OrphansTold' /\ Processes!BlockedByWhom'
      BY <3>2 DEF Processes!AdviceFits, Processes!OrphansTold, Processes!BlockedByWhom
    <3>4. QED
      BY <1>1, <3>1, <3>3 DEF ReportInv, ReportTyped, ListedThen
  <2>4. QED
    BY <1>7, <2>2, <2>3 DEF ReportInv, ReportTyped
<1>8. CASE processCmd # "stop" /\ error = Nil
  <2>1. out' = {Processes!Line("tracked", tracked, Nil)}
          \cup Processes!OrphanLines(Processes!Orphans(all, tracked))
    BY <1>1, <1>8
  <2>2. tracked \in Pids \cup {Nil} /\ (~raced /\ then # Nil => tracked = then.pidFile)
    BY <1>2 DEF ReportInv, ReportTyped
  <2>3. Processes!AdviceFits'
    BY <1>1, <1>4, <2>1, <2>2 DEF Processes!AdviceFits, Processes!Line
  <2>4. Processes!BlockedByWhom'
    BY <2>1, OrphanLinesAre DEF Processes!BlockedByWhom, Processes!Line
  <2>5. Processes!OrphansTold'
    <3>1. ASSUME then # Nil, NEW p \in Pids, Processes!IsOrphan(p), then.procs[p].binary # "spaced", p # tracked
          PROVE \E l \in out' : l.kind = "orphan" /\ l.pid = p
      BY <1>5, <2>1, <3>1
    <3>2. \A l \in out' : l.kind # "clean"
      BY <2>1, OrphanLinesAre DEF Processes!Line
    <3>3. QED
      BY <1>1, <3>1, <3>2 DEF Processes!OrphansTold, Processes!IsOrphan, Processes!Named
  <2>6. QED
    BY <1>1, <2>1, <2>3, <2>4, <2>5 DEF ReportInv, ReportTyped, ListedThen
<1>9. QED
  BY <1>6, <1>7, <1>8


\* The other steps of the command say nothing, or that there is an error.
LEMMA ReportStep == ReportInv /\ [Processes!Next]_(Processes!vars) => ReportInv'
<1> SUFFICES ASSUME ReportInv, [Processes!Next]_(Processes!vars) PROVE ReportInv'
  OBVIOUS
<1>0. Nil \notin Pids \cup Processes!AProgram \cup {"NotPermitted", "StartFailed"} /\ MaxEvents \in Nat
      /\ Programs \subseteq Processes!AProgram
  BY ConstantsTyped DEF Processes!ConstantsTyped
<1> DEFINE Runs == [Pids -> Programs \cup {Nil, Processes!Xray}]
<1>a. \A t \in Runs, p \in Pids, x \in Programs \cup {Nil, Processes!Xray} : [t EXCEPT ![p] = x] \in Runs
  OBVIOUS
<1>b. ASSUME UNCHANGED out \/ (\A l \in out' : l.kind = "error"), UNCHANGED <<then, tracked, raced>>
      PROVE  Processes!AdviceFits' /\ Processes!OrphansTold' /\ Processes!BlockedByWhom'
  BY <1>b DEF ReportInv, Processes!AdviceFits, Processes!OrphansTold, Processes!BlockedByWhom,
     Processes!Named, Processes!IsOrphan
<1>1. CASE Processes!BeginStatus
  <2>1. ReportTyped' /\ ListedThen'
    BY <1>0, <1>1 DEF Processes!BeginStatus, ReportInv, ReportTyped, ListedThen, Processes!Running
  <2>2. Processes!AdviceFits' /\ Processes!OrphansTold' /\ Processes!BlockedByWhom'
    BY <1>1 DEF Processes!BeginStatus, ReportInv, ReportTyped, ListedThen, Processes!AdviceFits,
       Processes!OrphansTold, Processes!BlockedByWhom
  <2>3. QED
    BY <2>1, <2>2 DEF ReportInv
<1>2. CASE Processes!BeginStop
  <2>1. ReportTyped' /\ ListedThen'
    BY <1>0, <1>a, <1>2
       DEF Processes!BeginStop, Processes!StopTracked, Processes!End, ReportInv, ReportTyped, ListedThen,
         Processes!Running
  <2>2. Processes!AdviceFits' /\ Processes!OrphansTold' /\ Processes!BlockedByWhom'
    <3>1. out' = out \/ out' = {Processes!Line("error", Nil, Nil)}
      BY <1>2 DEF Processes!BeginStop, Processes!StopTracked, Processes!End
    <3>2. then' = Nil /\ out = {}
      BY <1>2 DEF Processes!BeginStop, ReportInv, ReportTyped, ListedThen
    <3>3. QED
      BY <3>1, <3>2 DEF Processes!Line, Processes!AdviceFits, Processes!OrphansTold, Processes!BlockedByWhom
  <2>3. QED
    BY <2>1, <2>2 DEF ReportInv
<1>3. CASE Processes!BeginStart
  <2>1. ReportTyped' /\ ListedThen'
    BY <1>0, <1>a, <1>3
       DEF Processes!BeginStart, Processes!StopTracked, Processes!End, ReportInv, ReportTyped, ListedThen,
         Processes!Running
  <2>2. Processes!AdviceFits' /\ Processes!OrphansTold' /\ Processes!BlockedByWhom'
    <3>1. out' = out /\ then' = Nil /\ out = {}
      BY <1>3 DEF Processes!BeginStart, Processes!StopTracked, ReportInv, ReportTyped, ListedThen
    <3>3. QED
      BY <3>1 DEF Processes!AdviceFits, Processes!OrphansTold, Processes!BlockedByWhom
  <2>3. QED
    BY <2>1, <2>2 DEF ReportInv
<1>4. CASE Processes!Spawn
  <2>1. ReportTyped' /\ ListedThen'
    <3>1. CASE \E p \in Pids : /\ procs' = [procs EXCEPT ![p] = Processes!Xray]
                              /\ pidFile' = p /\ tracked' = p /\ processPc' = "list" /\ UNCHANGED <<error, out>>
      BY <1>0, <1>a, <1>4, <3>1 DEF Processes!Spawn, ReportInv, ReportTyped, ListedThen
    <3>2. CASE /\ error' = "StartFailed" /\ pidFile' = Nil /\ processPc' = "list"
               /\ UNCHANGED <<procs, tracked, out>>
      BY <1>0, <1>4, <3>2 DEF Processes!Spawn, ReportInv, ReportTyped, ListedThen
    <3>3. CASE /\ Processes!End({Processes!Line("error", Nil, Nil)})
               /\ UNCHANGED <<procs, pidFile, tracked, error>>
      BY <1>0, <1>4, <3>3 DEF Processes!Spawn, Processes!End, ReportInv, ReportTyped, ListedThen
    <3>4. QED
      BY <1>4, <3>1, <3>2, <3>3 DEF Processes!Spawn
  <2>2. Processes!AdviceFits' /\ Processes!OrphansTold' /\ Processes!BlockedByWhom'
    <3>1. out' = out \/ out' = {Processes!Line("error", Nil, Nil)}
      BY <1>4 DEF Processes!Spawn, Processes!End
    <3>2. then' = Nil /\ out = {}
      BY <1>4 DEF Processes!Spawn, ReportInv, ReportTyped, ListedThen
    <3>3. QED
      BY <3>1, <3>2 DEF Processes!Line, Processes!AdviceFits, Processes!OrphansTold, Processes!BlockedByWhom
  <2>3. QED
    BY <2>1, <2>2 DEF ReportInv
<1>5. CASE Processes!List
  <2>1. ReportTyped'
    BY <1>5 DEF Processes!List, ReportInv, ReportTyped
  <2>2. ListedThen'
    <3>1. CASE all' = Processes!ParseXrayProcesses /\ then' = [procs |-> procs, pidFile |-> pidFile]
      <4>1. all' = Listed(then'.procs) /\ then'.pidFile = pidFile
        BY <3>1 DEF Processes!ParseXrayProcesses, Listed
      <4>2. then' \in [procs : Processes!Tables, pidFile : Pids \cup {Nil}] /\ then' # Nil
        BY <3>1, ConstantsTyped, Runnable DEF ReportInv, ReportTyped, Processes!ConstantsTyped
      <4>3. QED
        BY <1>5, <4>1, <4>2 DEF Processes!List, ReportInv, ReportTyped, ListedThen
    <3>2. CASE all' = {} /\ UNCHANGED then
      BY <1>5, <3>2 DEF Processes!List, ReportInv, ReportTyped, ListedThen
    <3>3. QED
      BY <1>5, <3>1, <3>2 DEF Processes!List
  <2>3. Processes!AdviceFits' /\ Processes!OrphansTold' /\ Processes!BlockedByWhom'
    BY <1>5 DEF Processes!List, ReportInv, ReportTyped, Processes!AdviceFits, Processes!OrphansTold,
       Processes!BlockedByWhom
  <2>4. QED
    BY <2>1, <2>2, <2>3 DEF ReportInv
<1>6. CASE Processes!Disable
  <2>1. ReportTyped' /\ ListedThen'
    BY <1>6 DEF Processes!Disable, Processes!End, ReportInv, ReportTyped, ListedThen
  <2>2. Processes!AdviceFits' /\ Processes!OrphansTold' /\ Processes!BlockedByWhom'
    BY <1>6, <1>b DEF Processes!Disable, Processes!End, Processes!Line
  <2>3. QED
    BY <2>1, <2>2 DEF ReportInv
<1>7. CASE Processes!Write
  BY <1>7, WriteFits
<1>8. CASE Processes!Meanwhile
  <2>1. /\ processPc \notin {"begin", "end"} /\ events' \in 0..MaxEvents
        /\ UNCHANGED Processes!command
    BY <1>0, <1>8 DEF Processes!Meanwhile, ReportInv, ReportTyped
  <2>2. /\ procs' \in Runs /\ pidFile' \in Pids \cup {Nil} /\ raced' \in BOOLEAN
        /\ raced => raced'
        /\ raced' \/ UNCHANGED pidFile
    <3>1. PICK p \in Pids : Processes!Exit(p) \/ Processes!Enter(p) \/ Processes!OtherStart(p)
      BY <1>8 DEF Processes!Meanwhile
    <3>2. CASE Processes!Exit(p) \/ Processes!Enter(p)
      BY <1>0, <1>a, <3>2 DEF Processes!Exit, Processes!Enter, ReportInv, ReportTyped
    <3>3. CASE Processes!OtherStart(p)
      BY <1>0, <3>3 DEF Processes!OtherStart, ReportInv, ReportTyped
    <3>4. QED
      BY <3>1, <3>2, <3>3
  <2>3. ReportTyped'
    BY <2>1, <2>2 DEF Processes!command, ReportInv, ReportTyped
  <2>4. ListedThen'
    BY <2>1, <2>2 DEF Processes!command, ReportInv, ReportTyped, ListedThen
  <2>5. Processes!AdviceFits' /\ Processes!OrphansTold' /\ Processes!BlockedByWhom'
    BY <2>1, <2>2
       DEF Processes!command, ReportInv, ReportTyped, Processes!AdviceFits, Processes!OrphansTold,
         Processes!BlockedByWhom
  <2>6. QED
    BY <2>3, <2>4, <2>5 DEF ReportInv
<1>9. CASE UNCHANGED Processes!vars
  <2>1. ReportTyped' /\ ListedThen'
    BY <1>9 DEF Processes!vars, Processes!command, ReportInv, ReportTyped, ListedThen
  <2>2. Processes!AdviceFits' /\ Processes!OrphansTold' /\ Processes!BlockedByWhom'
    BY <1>9, <1>b DEF Processes!vars, Processes!command
  <2>3. QED
    BY <2>1, <2>2 DEF ReportInv
<1>10. QED
  BY <1>1, <1>2, <1>3, <1>4, <1>5, <1>6, <1>7, <1>8, <1>9 DEF Processes!Next, Processes!Done

\* The types, from the invariant.
LEMMA ReportTypes == ReportInv => Processes!TypeOK
<1> SUFFICES ASSUME ReportInv PROVE Processes!TypeOK
  OBVIOUS
<1>1. \A x \in all : x.pid \in Pids /\ Processes!CommandMatches(Processes!Argv0(then.procs[x.pid]))
  BY ListedIs DEF ReportInv, ListedThen
<1>2. QED
  BY <1>1 DEF ReportInv, ReportTyped, Processes!TypeOK

\* What is told fits the processes it is told of.
THEOREM ReportHolds ==
  Processes!Spec =>
    [](Processes!TypeOK /\ Processes!AdviceFits /\ Processes!OrphansTold /\ Processes!BlockedByWhom)
<1>1. ReportInv => Processes!TypeOK /\ Processes!AdviceFits /\ Processes!OrphansTold /\ Processes!BlockedByWhom
  BY ReportTypes DEF ReportInv
<1>2. QED
  BY <1>1, ReportInit, ReportStep, PTL DEF Processes!Spec

-----------------------------------------------------------------------------
(***************************************************************************)
(* The composition: a run of it is one of each part, and for the places    *)
(* one of the platform it runs on.                                         *)
(***************************************************************************)

allVars == <<part, vars, tunnelVars, processVars, lookupVars, placeVars>>

\* Where one part takes a step the others rest.
LEMMA PartsRun == FlowSpec => Spec /\ Tunnel!Spec /\ Processes!Spec /\ Lookup!Spec
<1>1. FlowInit => Init /\ Tunnel!Init /\ Processes!Init /\ Lookup!Init
  BY DEF FlowInit, FlowRests, TunnelRests, ProcessesRest, LookupRests
<1>2. [FlowNext]_allVars => [Next]_vars
  BY DEF FlowNext, allVars
<1>3. [FlowNext]_allVars => [Tunnel!Next]_(Tunnel!vars)
  BY DEF FlowNext, allVars, tunnelVars, Tunnel!vars
<1>4. [FlowNext]_allVars => [Processes!Next]_(Processes!vars)
  BY DEF FlowNext, allVars, processVars, Processes!vars, Processes!command
<1>5. [FlowNext]_allVars => [Lookup!Next]_(Lookup!vars)
  BY DEF FlowNext, allVars, lookupVars, Lookup!vars
<1>6. QED
  BY <1>1, <1>2, <1>3, <1>4, <1>5, PTL DEF FlowSpec, allVars, Spec, Tunnel!Spec, Processes!Spec, Lookup!Spec

\* Whoever runs, the interface follows the link (awg.rs:101-176).
THEOREM TunnelFollows == FlowSpec => TunnelFollowsLink
BY PartsRun, TunnelHolds, PTL DEF TunnelFollowsLink

\* What is said of processes fits them (xray.rs:469).
THEOREM ReportsAreRight == FlowSpec => []ReportsFit
<1>1. ReportsFit <=>
        Processes!TypeOK /\ Processes!AdviceFits /\ Processes!OrphansTold /\ Processes!BlockedByWhom
  BY DEF ReportsFit
<1>2. QED
  BY <1>1, PartsRun, ReportHolds, PTL

\* What is spawned is what is preferred (xray.rs:33).
THEOREM SpawnsAreRight == FlowSpec => []SpawnsWhatIsThere
<1>1. SpawnsWhatIsThere <=> Lookup!TypeOK /\ Lookup!SpawnsThePreferred /\ Lookup!CheckHolds
  BY DEF SpawnsWhatIsThere
<1>2. QED
  BY <1>1, PartsRun, LookupHolds, PTL

\* What holds of the places of the platform that runs.
PlatformInv == \A w \in BOOLEAN : (part = "windows") = w => PlaceInv(w)

\* One home has one xray, and Windows writes where it was told to
\* (config.rs:180, config.rs:231-245, config.rs:1876).
THEOREM PlacesAreRight == FlowSpec => []PlacesFit
<1>1. FlowInit => PlatformInv
  <2>1. FlowInit => Place(FALSE)!Init
    BY DEF FlowInit
  <2>2. ASSUME NEW w \in BOOLEAN, Place(FALSE)!Init PROVE Place(w)!Init
    BY <2>2 DEF Place!Init
  <2>3. QED
    BY <2>1, <2>2, PlaceInit DEF PlatformInv
<1>2. PlatformInv /\ [FlowNext]_allVars => PlatformInv'
  <2> SUFFICES ASSUME PlatformInv, [FlowNext]_allVars, NEW w \in BOOLEAN, (part' = "windows") = w
               PROVE  PlaceInv(w)'
    BY Zenon DEF PlatformInv
  <2>1. part' = part
    BY DEF FlowNext, allVars
  <2>2. PlaceInv(w)
    BY <2>1, Zenon DEF PlatformInv
  <2>3. CASE UNCHANGED placeVars
    <3>1. [Place(w)!Next]_(Place(w)!vars)
      BY <2>3 DEF placeVars, Place!vars
    <3>2. QED
      BY <2>2, <3>1, PlaceStep
  <2>4. CASE part = "unix" /\ Place(FALSE)!Next
    <3>1. w = FALSE
      BY <2>1, <2>4
    <3>2. QED
      BY <2>2, <2>4, <3>1, PlaceStep
  <2>5. CASE part = "windows" /\ Place(TRUE)!Next
    <3>1. w = TRUE
      BY <2>1, <2>5
    <3>2. QED
      BY <2>2, <2>5, <3>1, PlaceStep
  <2>6. QED
    BY <2>3, <2>4, <2>5 DEF FlowNext, allVars
<1>3. PlatformInv => PlacesFit
  BY PlacesHeld DEF PlatformInv, PlacesFit
<1>4. QED
  BY <1>1, <1>2, <1>3, PTL DEF FlowSpec, allVars

-----------------------------------------------------------------------------
(***************************************************************************)
(* StartFlow.                                                              *)
(***************************************************************************)

USE ValuesApart, ConfigsApart

\* The proxy, the xray it leads to and the tunnel that one routes into.
Agree ==
    /\ proxy = (IF xray = None THEN "off" ELSE "on")
    /\ xray # None => xray.out = xray.rules /\ (xray.out = Awg => tunnel)

\* Where a command has not begun to change what Agree speaks of.
Settled == Early \cup {"idle", "stopXray", "hup"}

\* What a start has achieved by each of its steps: it has a source, its file is
\* whole from the moment the DNS entries are synchronised, its tunnel is up, and
\* no xray runs when it spawns its own.
Progress ==
    /\ pc \in {"preflight", "preStop", "stopOld"} => source \in Sources
    /\ pc \in {"settings", "resolve", "preflight", "preStop"} => cmd = "start"
    /\ pc = "apply" => config # None
    /\ pc \in {"rules", "hup"} => config \in Configs
    /\ pc = "rules" => config.out = source
    /\ pc \in {"dns", "stopOld", "port", "spawn"} => config = For(source)
    /\ pc \in {"awgConfig", "dns", "stopOld", "port", "spawn"} /\ source = Awg => tunnel
    /\ pc \in {"port", "spawn"} => xray = None

\* What has become of the xray and of the proxy.
Left ==
    /\ pc \in Settled /\ ~disturbed => Agree
    /\ pc = "enable" /\ ~disturbed => xray # None /\ xray.out = xray.rules /\ (xray.out = Awg => tunnel)
    /\ pc \in {"disable", "down"} => xray = None
    /\ pc = "down" => proxy = "off"

IInv == TypeOK /\ Progress /\ Left

\* A configuration for one server.
LEMMA ForTyped ==
  ASSUME NEW s \in Sources
  PROVE  For(s) \in Configs /\ For(s).out = s /\ For(s).rules = s /\ For(s) # None /\ For(s) # Broken
BY DEF For, Configs, Sources

\* The first states.
LEMMA InitIInv == Init => IInv
<1> SUFFICES ASSUME Init PROVE IInv
  OBVIOUS
<1>1. config \in Configs \cup {None, Broken} /\ faults \in 0..MaxFaults
  BY ForTyped DEF Init, Sources
<1>2. pc = "idle" /\ proxy = "off" /\ xray = None /\ tunnel = FALSE /\ source = None
  BY DEF Init
<1>3. TypeOK
  BY <1>1, <1>2 DEF Init, TypeOK, Writing
<1>4. Progress /\ Left
  BY <1>2 DEF Progress, Left, Agree
<1>5. QED
  BY <1>3, <1>4 DEF IInv

\* A command that fails before it has touched anything leaves all as it was; a
\* later one says that something is left.
LEMMA FailCases ==
  ASSUME TypeOK, Fail
  PROVE  /\ pc' = "idle" /\ source' = None /\ outcome' = "failed"
         /\ cmd' = cmd /\ faults' = faults
         /\ disturbed' \in BOOLEAN
         /\ pc \in Late => disturbed'
         /\ ~disturbed' => ~disturbed
<1>1. /\ pc' = "idle" /\ source' = None /\ outcome' = "failed" /\ cmd' = cmd /\ faults' = faults
      /\ disturbed' = (disturbed \/ pc \in Late)
  BY DEF Fail, End
<1>2. /\ disturbed' \in BOOLEAN
      /\ pc \in Late => disturbed'
      /\ ~disturbed' => ~disturbed
  BY <1>1, Zenon
<1>3. QED
  BY <1>1, <1>2

\* The steps of a start that touch nothing.
LEMMA EarlySteps ==
  ASSUME IInv, Invoke \/ Settings \/ Resolve \/ Preflight PROVE IInv'
<1> USE FailCases DEF IInv, TypeOK, Progress, Left, Agree, Settled, Early, Late, Writing, world
<1>1. CASE Invoke
  BY <1>1 DEF Invoke
<1>2. CASE Settings
  BY <1>2 DEF Settings, Goto
<1>3. CASE Resolve
  BY <1>3 DEF Resolve
<1>4. CASE Preflight
  BY <1>4 DEF Preflight, Goto
<1>5. QED
  BY <1>1, <1>2, <1>3, <1>4

\* The engine of the tunnel.
LEMMA AwgSteps ==
  ASSUME IInv, PreStop \/ Parse \/ WriteConf \/ StartTunnel \/ WriteAwgConfig PROVE IInv'
<1> USE FailCases DEF IInv, TypeOK, Progress, Left, Agree, Settled, Early, Late, Writing, world
<1>1. CASE PreStop
  BY <1>1 DEF PreStop, StopTunnel, Goto
<1>2. CASE Parse
  BY <1>2 DEF Parse, Goto, Sources
<1>3. CASE WriteConf
  <2>1. conf' \in BOOLEAN
    BY <1>3, Zenon DEF WriteConf
  <2>2. CASE Goto("up")
    BY <1>3, <2>1, <2>2 DEF WriteConf, Goto
  <2>3. CASE Fail
    BY <1>3, <2>1, <2>3 DEF WriteConf
  <2>4. QED
    BY <1>3, <2>2, <2>3 DEF WriteConf
<1>4. CASE StartTunnel
  <2>1. CASE tunnel' = TRUE /\ Goto("awgConfig")
    BY <1>4, <2>1 DEF StartTunnel, Goto
  <2>2. CASE Fail /\ UNCHANGED tunnel
    BY <1>4, <2>2 DEF StartTunnel
  <2>3. QED
    BY <1>4, <2>1, <2>2 DEF StartTunnel
<1>5. CASE WriteAwgConfig
  BY <1>5, ForTyped DEF WriteAwgConfig, WriteFails, Goto, Sources
<1>6. QED
  BY <1>1, <1>2, <1>3, <1>4, <1>5

\* The file for xray's own engine: what is applied to a usable file comes to
\* what a new one would hold.
LEMMA ConfigSteps ==
  ASSUME IInv, ApplyToConfig \/ UpdateRoutingRules \/ CreateConfig PROVE IInv'
<1> USE FailCases DEF IInv, TypeOK, Progress, Left, Agree, Settled, Early, Late, Writing, world
<1>1. CASE ApplyToConfig
  <2>1. pc = "apply" /\ source \in Sources
    BY <1>1 DEF ApplyToConfig
  <2>2. config \notin Inapplicable =>
          [config EXCEPT !.out = source] \in Configs /\ [config EXCEPT !.out = source].out = source
    BY <2>1 DEF Inapplicable, Configs
  <2>3. QED
    <3>1. CASE pc' = "create"
      BY <1>1, <2>1, <2>2, <3>1 DEF ApplyToConfig, WriteFails, Goto
    <3>2. CASE pc' = "rules"
      BY <1>1, <2>1, <2>2, <3>2 DEF ApplyToConfig, WriteFails, Goto
    <3>3. QED
      BY <1>1, <3>1, <3>2 DEF ApplyToConfig, Goto
<1>2. CASE UpdateRoutingRules
  <2>1. pc = "rules" /\ source \in Sources
    BY <1>2 DEF UpdateRoutingRules
  <2>2. [config EXCEPT !.rules = source] = For(source)
    BY <2>1 DEF Configs, For
  <2>3. source # Awg
    BY <2>1 DEF Sources
  <2>4. QED
    BY <1>2, <2>1, <2>2, <2>3, ForTyped DEF UpdateRoutingRules, WriteFails, Goto
<1>3. CASE CreateConfig
  <2>1. pc = "create" /\ source \in Sources /\ source # Awg
    BY <1>3 DEF CreateConfig, Sources
  <2>2. QED
    BY <1>3, <2>1, ForTyped DEF CreateConfig, WriteFails, Goto
<1>4. QED
  BY <1>1, <1>2, <1>3

\* The common tail.
LEMMA TailSteps ==
  ASSUME IInv, SyncDns \/ StopOld \/ UpdateConfigPort \/ Spawn \/ EnableProxy PROVE IInv'
<1> USE FailCases DEF IInv, TypeOK, Progress, Left, Agree, Settled, Early, Late, Writing, world
<1>1. CASE SyncDns
  BY <1>1 DEF SyncDns, WriteFails, Goto
<1>2. CASE StopOld
  BY <1>2 DEF StopOld, Goto
<1>3. CASE UpdateConfigPort
  BY <1>3 DEF UpdateConfigPort, WriteFails, Goto
<1>4. CASE Spawn
  BY <1>4, ForTyped DEF Spawn, UpAndRunning
<1>5. CASE EnableProxy
  <2>1. CASE proxy' = "on" /\ End("ok", disturbed)
    <3>1. disturbed' \in BOOLEAN /\ (~disturbed' => ~disturbed)
      BY <2>1, Zenon DEF End
    <3>2. QED
      BY <1>5, <2>1, <3>1 DEF EnableProxy, End
  <2>2. CASE proxy' \in HalfDone("on") /\ Fail
    BY <1>5, <2>2 DEF EnableProxy, HalfDone
  <2>3. QED
    BY <1>5, <2>1, <2>2 DEF EnableProxy
<1>6. QED
  BY <1>1, <1>2, <1>3, <1>4, <1>5

\* Stop and reload.
LEMMA StopSteps ==
  ASSUME IInv, DetectService \/ StopXray \/ DisableProxy \/ Down \/ ValidateConfig \/ Hup PROVE IInv'
<1> USE FailCases DEF IInv, TypeOK, Progress, Left, Agree, Settled, Early, Late, Writing, world
<1>1. CASE DetectService
  BY <1>1 DEF DetectService, Goto
<1>2. CASE StopXray
  BY <1>2 DEF StopXray, Goto, End
<1>3. CASE DisableProxy
  BY <1>3 DEF DisableProxy, HalfDone, Goto
<1>4. CASE Down
  BY <1>4 DEF Down, StopTunnel, End
<1>5. CASE ValidateConfig
  BY <1>5 DEF ValidateConfig, Goto
<1>6. CASE Hup
  <2>1. CASE xray # None /\ xray' \in {config, xray, None} /\ End("ok", disturbed \/ xray' # xray)
    <3>1. disturbed' = (disturbed \/ xray' # xray)
      BY <2>1 DEF End
    <3>2. disturbed' \in BOOLEAN /\ (~disturbed' => ~disturbed /\ xray' = xray)
      BY <3>1, Zenon
    <3>3. pc = "hup" /\ config \in Configs
      BY <1>6 DEF Hup
    <3>4. QED
      BY <1>6, <2>1, <3>2, <3>3 DEF Hup, End
  <2>2. CASE xray' = xray /\ End("failed", disturbed)
    <3>1. disturbed' \in BOOLEAN /\ (~disturbed' => ~disturbed)
      BY <2>2, Zenon DEF End
    <3>2. QED
      BY <1>6, <2>2, <3>1 DEF Hup, End
  <2>3. QED
    BY <1>6, <2>1, <2>2 DEF Hup
<1>7. QED
  BY <1>1, <1>2, <1>3, <1>4, <1>5, <1>6

\* What else happens disturbs, and says so.
LEMMA FaultSteps ==
  ASSUME IInv, Kill \/ XrayCrashes \/ Reboot PROVE IInv'
<1> USE FailCases DEF IInv, TypeOK, Progress, Left, Agree, Settled, Early, Late, Writing, world, Fault
<1>1. CASE Kill
  BY <1>1 DEF Kill, HalfDone
<1>2. CASE XrayCrashes
  BY <1>2 DEF XrayCrashes
<1>3. CASE Reboot
  <2>1. outcome' \in {"none", "ok", "failed", "killed"}
    BY <1>3 DEF Reboot
  <2>2. pc' = "idle" /\ source' = None /\ xray' = None /\ tunnel' = FALSE /\ disturbed' = TRUE
    BY <1>3 DEF Reboot
  <2>3. faults' \in 0..MaxFaults /\ cmd' = cmd /\ config' = config /\ conf' = conf /\ proxy' = proxy
    BY <1>3 DEF Reboot
  <2>4. QED
    BY <2>1, <2>2, <2>3
<1>4. QED
  BY <1>1, <1>2, <1>3

\* Every step keeps the invariant.
LEMMA NextIInv == IInv /\ [Next]_vars => IInv'
<1>1. ASSUME IInv, UNCHANGED vars PROVE IInv'
  BY <1>1 DEF vars, world, IInv, TypeOK, Progress, Left, Agree
<1>2. QED
  BY <1>1, EarlySteps, AwgSteps, ConfigSteps, TailSteps, StopSteps, FaultSteps DEF Next

-----------------------------------------------------------------------------
\* The records have their types, and a command that writes has a source
\* (main.rs, cmd_start).
THEOREM TypeCorrect == Spec => []TypeOK
<1>1. IInv => TypeOK
  BY DEF IInv
<1>2. QED
  BY <1>1, InitIInv, NextIInv, PTL DEF Spec

\* Between commands proxy, xray and tunnel agree, unless something was left
\* half done and said so (main.rs, cmd_start, cmd_stop and cmd_reload).
THEOREM StaysCoherent == Spec => []Coherent
<1>1. IInv => Coherent
  BY DEF IInv, Left, Coherent, Agree, Settled
<1>2. QED
  BY <1>1, InitIInv, NextIInv, PTL DEF Spec

\* xray is started with the configuration of the server that was resolved,
\* whichever way the file came about (main.rs, write_xray_config).
THEOREM StartsResolved == Spec => SpawnsResolved
<1>1. ASSUME IInv, Next, pc = "spawn", xray' # xray PROVE xray' = For(source)
  <2>1. xray = None /\ config = For(source)
    BY <1>1 DEF IInv, Progress
  <2>2. CASE Spawn
    BY <1>1, <2>1, <2>2 DEF Spawn
  <2>3. CASE Kill \/ XrayCrashes \/ Reboot
    BY <1>1, <2>1, <2>3 DEF Kill, XrayCrashes, Reboot
  <2>4. QED
    BY <1>1, <2>2, <2>3 DEF Next, Invoke, Settings, Resolve, Preflight, PreStop, Parse, WriteConf,
      StartTunnel, WriteAwgConfig, ApplyToConfig, UpdateRoutingRules, CreateConfig, SyncDns, StopOld,
      UpdateConfigPort, EnableProxy, DetectService, StopXray, DisableProxy, Down, ValidateConfig, Hup
<1>2. IInv /\ [Next]_vars => [pc = "spawn" /\ xray' # xray => xray' = For(source)]_vars
  BY <1>1
<1>3. QED
  BY <1>2, InitIInv, NextIInv, PTL DEF Spec, SpawnsResolved

\* stop takes the tunnel down after the proxy and xray (main.rs, cmd_stop;
\* README.md:104).
THEOREM TunnelLast == Spec => TunnelOutlivesProxy
<1>1. ASSUME IInv, Next, cmd = "stop", tunnel, ~tunnel', faults' = faults
      PROVE  proxy = "off" /\ xray = None
  <2>1. CASE Down
    BY <1>1, <2>1 DEF Down, IInv, Left
  <2>2. CASE PreStop
    BY <1>1, <2>2 DEF PreStop, IInv, Progress
  <2>3. CASE Reboot
    BY <1>1, <2>3 DEF Reboot, Fault, IInv, TypeOK
  <2>4. CASE StartTunnel
    BY <1>1, <2>4 DEF StartTunnel
  <2>5. QED
    BY <1>1, <2>1, <2>2, <2>3, <2>4 DEF Next, world, Invoke, Settings, Resolve, Preflight, Parse, WriteConf,
      WriteAwgConfig, ApplyToConfig, UpdateRoutingRules, CreateConfig, SyncDns, StopOld, Spawn,
      UpdateConfigPort, EnableProxy, DetectService, StopXray, DisableProxy, ValidateConfig, Hup,
      Kill, XrayCrashes
<1>2. IInv /\ [Next]_vars =>
        [cmd = "stop" /\ tunnel /\ ~tunnel' /\ faults' = faults => proxy = "off" /\ xray = None]_vars
  BY <1>1
<1>3. QED
  BY <1>2, InitIInv, NextIInv, PTL DEF Spec, TunnelOutlivesProxy
=================================================================================
