------------------------------ MODULE SourceProofs ------------------------------
(***************************************************************************)
(* What holds of the choice of a server for every list of subscriptions,   *)
(* whatever they hold, however the downloads and the checks fail, and      *)
(* whether or not the servers come and go.                                 *)
(***************************************************************************)
EXTENDS Source, FiniteSetTheorems, SequenceTheorems, WellFoundedInduction, TLAPS

-----------------------------------------------------------------------------
(***************************************************************************)
(* Sequences of entries, flattened.                                        *)
(***************************************************************************)
\* Numbers up to a bound are all in a set that holds the first and, with each, the next.
LEMMA UpTo ==
  ASSUME NEW m \in Nat, NEW T, T \subseteq 1..m, m # 0 => 1 \in T,
         \A i \in 1..m : i \in T /\ i + 1 <= m => i + 1 \in T
  PROVE  T = 1..m
<1> SUFFICES ASSUME (1..m) \ T # {} PROVE FALSE
  OBVIOUS
<1> DEFINE U == (1..m) \ T
<1>1. \E x \in U : \A y \in U : <<y, x>> \notin OpToRel(<, Nat)
  <2>1. U \subseteq Nat /\ U # {}
    OBVIOUS
  <2> HIDE DEF U
  <2>2. QED
    BY <2>1, NatLessThanWellFounded, WFMin
<1>2. PICK x \in U : \A y \in U : <<y, x>> \notin OpToRel(<, Nat)
  BY <1>1
<1>3. x \in 1..m /\ x \notin T /\ x # 1
  <2>1. x \in U
    OBVIOUS
  <2>2. QED
    BY <2>1
<1>4. x - 1 \in 1..m /\ (x - 1) + 1 = x /\ x <= m
  BY <1>3
<1>5. x - 1 \notin T
  BY <1>3, <1>4
<1>6. <<x - 1, x>> \in OpToRel(<, Nat)
  BY <1>3, <1>4 DEF OpToRel
<1>7. QED
  BY <1>2, <1>4, <1>5, <1>6

\* The sequences that flattening passes through.
Flattens(h, seqs, m) ==
  /\ h[1] = seqs[1]
  /\ \A i \in 2..m : h[i] = h[i - 1] \o seqs[i]

\* There are such.
LEMMA FlattensExist ==
  ASSUME NEW S, NEW m \in Nat \ {0}, NEW seqs \in [1..m -> Seq(S)]
  PROVE  \E h \in [1..m -> Seq(S)] : Flattens(h, seqs, m)
<1> DEFINE T == {k \in 1..m : \E h \in [1..k -> Seq(S)] : Flattens(h, seqs, k)}
<1>1. 1 \in T
  <2>1. [i \in 1..1 |-> seqs[1]] \in [1..1 -> Seq(S)]
    OBVIOUS
  <2>2. Flattens([i \in 1..1 |-> seqs[1]], seqs, 1)
    BY DEF Flattens
  <2>3. QED
    BY <2>1, <2>2
<1>2. ASSUME NEW k \in 1..m, k \in T, k + 1 <= m PROVE k + 1 \in T
  <2>1. PICK h \in [1..k -> Seq(S)] : Flattens(h, seqs, k)
    BY <1>2
  <2>2. PICK g : g = [i \in 1..(k + 1) |-> IF i = k + 1 THEN h[k] \o seqs[k + 1] ELSE h[i]]
    OBVIOUS
  <2>3. g \in [1..(k + 1) -> Seq(S)]
    <3>1. h[k] \in Seq(S) /\ seqs[k + 1] \in Seq(S)
      BY <1>2
    <3>2. h[k] \o seqs[k + 1] \in Seq(S)
      BY <3>1
    <3>3. QED
      BY <2>2, <3>2
  <2>4. \A i \in 1..k : g[i] = h[i]
    BY <2>2
  <2>5. g[k + 1] = g[k] \o seqs[k + 1]
    <3>1. g[k + 1] = h[k] \o seqs[k + 1] /\ k \in 1..k
      BY <1>2, <2>2
    <3>2. QED
      BY <2>4, <3>1
  <2>6. Flattens(g, seqs, k + 1)
    <3>1. g[1] = seqs[1]
      BY <2>1, <2>4 DEF Flattens
    <3>2. ASSUME NEW i \in 2..(k + 1) PROVE g[i] = g[i - 1] \o seqs[i]
      <4>1. CASE i = k + 1
        <5>1. i - 1 = k
          BY <4>1
        <5>2. QED
          BY <2>5, <4>1, <5>1
      <4>2. CASE i # k + 1
        <5>1. i \in 2..k /\ i - 1 \in 1..k /\ i \in 1..k
          BY <4>2
        <5>2. QED
          BY <2>1, <2>4, <5>1 DEF Flattens
      <4>3. QED
        BY <4>1, <4>2
    <3>3. QED
      BY <3>1, <3>2 DEF Flattens
  <2>7. QED
    BY <1>2, <2>3, <2>6
<1>3. T = 1..m
  <2>1. T \subseteq 1..m
    OBVIOUS
  <2> HIDE DEF T
  <2>2. QED
    BY <1>1, <1>2, <2>1, UpTo
<1>4. m \in T
  BY <1>3
<1>5. QED
  BY <1>4

\* Flattening ends with the last of them.
LEMMA FlattenIs ==
  ASSUME NEW S, NEW m \in Nat \ {0}, NEW seqs \in [1..m -> Seq(S)]
  PROVE  \E h \in [1..m -> Seq(S)] :
           Flattens(h, seqs, m) /\ Downloads!FlattenSeq(seqs) = h[m]
<1> DEFINE Step(f, i) == IF i = 1 THEN seqs[i] ELSE f[i - 1] \o seqs[i]
           F(f) == [i \in 1..m |-> Step(f, i)]
           flatten == CHOOSE f : f = F(f)
<1>1. Len(seqs) = m
  OBVIOUS
<1>2. Downloads!FlattenSeq(seqs) = flatten[m]
  BY <1>1 DEF Downloads!FlattenSeq
<1>3. PICK g \in [1..m -> Seq(S)] : Flattens(g, seqs, m)
  BY FlattensExist
<1>4. g = F(g)
  <2>1. ASSUME NEW i \in 1..m PROVE g[i] = Step(g, i)
    <3>1. CASE i = 1
      BY <1>3, <3>1 DEF Flattens
    <3>2. CASE i # 1
      <4>1. i \in 2..m
        BY <3>2
      <4>2. QED
        BY <1>3, <3>2, <4>1 DEF Flattens
    <3>3. QED
      BY <3>1, <3>2
  <2> HIDE DEF Step
  <2>2. QED
    BY <2>1
<1>5. flatten = F(flatten)
  <2> HIDE DEF F
  <2>1. QED
    BY <1>4
<1>6. \A i \in 1..m : flatten[i] = Step(flatten, i)
  <2> HIDE DEF flatten, Step
  <2>1. QED
    BY <1>5
<1>7. DOMAIN flatten = 1..m
  <2> HIDE DEF flatten, Step
  <2>1. QED
    BY <1>5
<1>8. \A i \in 1..m : flatten[i] \in Seq(S)
  <2> DEFINE T == {i \in 1..m : flatten[i] \in Seq(S)}
  <2> HIDE DEF flatten
  <2>1. 1 \in T
    BY <1>6
  <2>2. ASSUME NEW i \in 1..m, i \in T, i + 1 <= m PROVE i + 1 \in T
    <3>1. i + 1 \in 1..m /\ i + 1 # 1 /\ (i + 1) - 1 = i
      BY <2>2
    <3>2. flatten[i + 1] = flatten[i] \o seqs[i + 1]
      BY <1>6, <3>1
    <3>3. flatten[i] \in Seq(S) /\ seqs[i + 1] \in Seq(S)
      BY <2>2, <3>1
    <3>4. flatten[i + 1] \in Seq(S)
      BY <3>2, <3>3
    <3>5. QED
      BY <3>1, <3>4
  <2>3. T = 1..m
    <3>1. T \subseteq 1..m
      OBVIOUS
    <3> HIDE DEF T
    <3>2. QED
      BY <2>1, <2>2, <3>1, UpTo
  <2>4. QED
    BY <2>3
<1> HIDE DEF flatten
<1>9. ASSUME NEW i \in 2..m PROVE flatten[i] = flatten[i - 1] \o seqs[i]
  <2>1. i \in 1..m /\ i # 1
    BY <1>9
  <2>2. QED
    BY <1>6, <2>1
<1>10. flatten \in [1..m -> Seq(S)] /\ Flattens(flatten, seqs, m)
  <2>1. flatten[1] = seqs[1]
    BY <1>6
  <2>2. flatten = [i \in 1..m |-> flatten[i]]
    <3> HIDE DEF Step
    <3>1. QED
      BY <1>5, <1>7
  <2>3. QED
    BY <1>8, <1>9, <2>1, <2>2 DEF Flattens
<1>11. QED
  BY <1>2, <1>10

\* A sequence without elements changes none it is joined to.
Void(s) == s = <<>>
LEMMA ConcatNothing ==
  ASSUME NEW S, NEW s \in Seq(S), NEW t \in Seq(S), Void(t)
  PROVE  s \o t = s /\ t \o s = s
BY ConcatEmptySeq DEF Void

VoidFrom(seqs, k, m) == \A i \in 1..m : i >= k => Void(seqs[i])
SameBut(new, seqs, k, m) == \A i \in 1..m : i # k => new[i] = seqs[i]
EndsWith(all, old, last) == all = old \o last

\* Nothing after a place: what is put there is the end of what is flattened.
LEMMA FlattenLast ==
  ASSUME NEW S, NEW m \in Nat \ {0}, NEW seqs \in [1..m -> Seq(S)], NEW new \in [1..m -> Seq(S)],
         NEW k \in 1..m, VoidFrom(seqs, k, m), SameBut(new, seqs, k, m)
  PROVE  EndsWith(Downloads!FlattenSeq(new), Downloads!FlattenSeq(seqs), new[k])
<1>1. PICK h \in [1..m -> Seq(S)] : Flattens(h, seqs, m) /\ Downloads!FlattenSeq(seqs) = h[m]
  BY FlattenIs
<1>2. PICK g \in [1..m -> Seq(S)] : Flattens(g, new, m) /\ Downloads!FlattenSeq(new) = g[m]
  BY FlattenIs
<1> DEFINE T == {i \in 1..m : g[i] = (IF i < k THEN h[i] ELSE h[i] \o new[k])}
<1>3. 1 \in T
  <2>1. g[1] = new[1] /\ h[1] = seqs[1]
    BY <1>1, <1>2 DEF Flattens
  <2>2. CASE k = 1
    <3>1. Void(h[1]) /\ new[k] \in Seq(S)
      BY <2>1, <2>2 DEF VoidFrom
    <3>2. h[1] \o new[k] = new[k]
      <4>1. h[1] \in Seq(S)
        OBVIOUS
      <4>2. QED
        BY <3>1, <4>1, ConcatNothing
    <3>3. g[1] = h[1] \o new[k] /\ ~(1 < k) /\ 1 \in 1..m
      BY <2>1, <2>2, <3>2
    <3>4. QED
      BY <3>3
  <2>3. CASE k # 1
    BY <2>1, <2>3 DEF SameBut
  <2>4. QED
    BY <2>2, <2>3
<1>4. ASSUME NEW i \in 1..m, i \in T, i + 1 <= m PROVE i + 1 \in T
  <2>1. g[i + 1] = g[i] \o new[i + 1] /\ h[i + 1] = h[i] \o seqs[i + 1]
    <3>1. i + 1 \in 2..m /\ (i + 1) - 1 = i
      BY <1>4
    <3>2. QED
      BY <1>1, <1>2, <3>1 DEF Flattens
  <2>2. i \in 1..m /\ i + 1 \in 1..m /\ h[i] \in Seq(S) /\ g[i] \in Seq(S) /\ new[k] \in Seq(S)
    <3> HIDE DEF T
    <3>1. QED
      BY <1>4
  <2>3. g[i] = (IF i < k THEN h[i] ELSE h[i] \o new[k])
    BY <1>4
  <2> HIDE DEF T
  <2>4. g[i + 1] = (IF i + 1 < k THEN h[i + 1] ELSE h[i + 1] \o new[k])
    <3>1. CASE i + 1 < k
      <4>1. new[i + 1] = seqs[i + 1] /\ g[i] = h[i]
        BY <2>2, <2>3, <3>1 DEF SameBut
      <4>2. QED
        BY <2>1, <3>1, <4>1
    <3>2. CASE i + 1 = k
      <4>1. g[i] = h[i] /\ Void(seqs[i + 1]) /\ new[i + 1] = new[k]
        BY <2>2, <2>3, <3>2 DEF VoidFrom
      <4>2. h[i + 1] = h[i]
        BY <2>1, <2>2, <4>1, ConcatNothing
      <4>3. g[i + 1] = h[i + 1] \o new[k]
        BY <2>1, <4>1, <4>2
      <4>4. ~(i + 1 < k)
        BY <2>2, <3>2
      <4>5. QED
        BY <4>3, <4>4
    <3>3. CASE k < i + 1
      <4>1. Void(new[i + 1]) /\ Void(seqs[i + 1])
        <5>1. i + 1 >= k /\ i + 1 # k
          BY <2>2, <3>3
        <5>2. Void(seqs[i + 1])
          BY <2>2, <5>1 DEF VoidFrom
        <5>3. new[i + 1] = seqs[i + 1]
          BY <2>2, <5>1 DEF SameBut
        <5>4. QED
          BY <5>2, <5>3
      <4>2. g[i] = h[i] \o new[k]
        <5>1. ~(i < k)
          BY <2>2, <3>3
        <5>2. QED
          BY <2>3, <5>1
      <4>3. h[i + 1] = h[i] /\ g[i + 1] = g[i]
        BY <2>1, <2>2, <4>1, ConcatNothing
      <4>4. QED
        <5>1. ~(i + 1 < k)
          BY <2>2, <3>3
        <5>2. QED
          BY <4>2, <4>3, <5>1
    <3>4. QED
      BY <3>1, <3>2, <3>3
  <2>5. QED
    BY <2>2, <2>4 DEF T
<1>5. T = 1..m
  <2>1. T \subseteq 1..m
    OBVIOUS
  <2> HIDE DEF T
  <2>2. QED
    BY <1>3, <1>4, <2>1, UpTo
<1>6. g[m] = h[m] \o new[k]
  <2>1. m \in T
    <3>1. m \in 1..m
      OBVIOUS
    <3> HIDE DEF T
    <3>2. QED
      BY <1>5, <3>1
  <2>2. ~(m < k)
    OBVIOUS
  <2>3. QED
    BY <2>1, <2>2
<1>7. QED
  BY <1>1, <1>2, <1>6 DEF EndsWith

\* Nothing, flattened, is nothing.
LEMMA FlattenNothing ==
  ASSUME NEW S, NEW m \in Nat \ {0}, NEW seqs \in [1..m -> Seq(S)],
         \A i \in 1..m : Void(seqs[i])
  PROVE  Downloads!FlattenSeq(seqs) = <<>>
<1>1. PICK h \in [1..m -> Seq(S)] : Flattens(h, seqs, m) /\ Downloads!FlattenSeq(seqs) = h[m]
  BY FlattenIs
<1> DEFINE T == {i \in 1..m : Void(h[i])}
<1>2. 1 \in T
  BY <1>1 DEF Flattens
<1>3. ASSUME NEW i \in 1..m, i \in T, i + 1 <= m PROVE i + 1 \in T
  <2>1. i + 1 \in 2..m /\ (i + 1) - 1 = i
    BY <1>3
  <2>2. h[i + 1] = h[i] \o seqs[i + 1]
    BY <1>1, <2>1 DEF Flattens
  <2>3. h[i] \in Seq(S) /\ Void(h[i]) /\ seqs[i + 1] \in Seq(S) /\ Void(seqs[i + 1])
    BY <1>3, <2>1
  <2>4. Void(h[i + 1])
    BY <2>2, <2>3, ConcatNothing
  <2>5. QED
    BY <1>3, <2>1, <2>4
<1>4. T = 1..m
  <2>1. T \subseteq 1..m
    OBVIOUS
  <2> HIDE DEF T
  <2>2. QED
    BY <1>2, <1>3, <2>1, UpTo
<1>5. m \in T
  <2>1. m \in 1..m
    OBVIOUS
  <2> HIDE DEF T
  <2>2. QED
    BY <1>4, <2>1
<1>6. h[m] \in Seq(S) /\ Void(h[m])
  <2>1. Void(h[m])
    BY <1>5
  <2>2. QED
    BY <2>1
<1>7. QED
  BY <1>1, <1>6 DEF Void

-----------------------------------------------------------------------------
(***************************************************************************)
(* The entries of some kinds.                                              *)
(***************************************************************************)
\* Where each entry of r comes from among the first k of items: no two from one place.
Origin(o, r, items, kinds, k) ==
  /\ o \in [1..Len(r) -> 1..k]
  /\ \A j \in 1..Len(r) : r[j] = items[o[j]] /\ items[o[j]].kind \in kinds
  /\ \A i, j \in 1..Len(r) : o[i] = o[j] => i = j

\* One more entry that is of the kinds.
LEMMA OriginTakes ==
  ASSUME NEW S, NEW items \in Seq(S), NEW kinds, NEW k \in Nat, k + 1 \in 1..Len(items),
         NEW r \in Seq(S), NEW o, Origin(o, r, items, kinds, k), items[k + 1].kind \in kinds
  PROVE  \E p : Origin(p, r \o <<items[k + 1]>>, items, kinds, k + 1)
<1>1. PICK l : l = Len(r) /\ l \in Nat
  OBVIOUS
<1>2. PICK s : s = r \o <<items[k + 1]>>
  OBVIOUS
<1>3. items[k + 1] \in S
  OBVIOUS
<1>4. Len(s) = l + 1 /\ s[l + 1] = items[k + 1] /\ \A j \in 1..l : s[j] = r[j]
  BY <1>1, <1>2, <1>3
<1>5. PICK p : p = [j \in 1..(l + 1) |-> IF j = l + 1 THEN k + 1 ELSE o[j]]
  OBVIOUS
<1>6. o \in [1..l -> 1..k] /\ (\A j \in 1..l : r[j] = items[o[j]] /\ items[o[j]].kind \in kinds)
      /\ \A i, j \in 1..l : o[i] = o[j] => i = j
  BY <1>1 DEF Origin
<1>7. p[l + 1] = k + 1 /\ \A j \in 1..l : p[j] = o[j] /\ p[j] \in 1..k
  <2>1. \A j \in 1..l : j # l + 1 /\ j \in 1..(l + 1)
    BY <1>1
  <2>2. l + 1 \in 1..(l + 1)
    BY <1>1
  <2>3. \A j \in 1..l : p[j] = o[j]
    BY <1>5, <2>1
  <2>4. p[l + 1] = k + 1
    BY <1>5, <2>2
  <2>5. QED
    BY <1>6, <2>3, <2>4
<1>8. p \in [1..(l + 1) -> 1..(k + 1)]
  BY <1>1, <1>5, <1>6
<1>9. ASSUME NEW j \in 1..(l + 1) PROVE s[j] = items[p[j]] /\ items[p[j]].kind \in kinds
  <2>1. CASE j = l + 1
    BY <1>4, <1>7, <2>1
  <2>2. CASE j # l + 1
    <3>1. j \in 1..l
      BY <1>1, <1>9, <2>2
    <3>2. QED
      BY <1>4, <1>6, <1>7, <3>1
  <2>3. QED
    BY <2>1, <2>2
<1>10. ASSUME NEW i \in 1..(l + 1), NEW j \in 1..(l + 1), p[i] = p[j] PROVE i = j
  <2>1. \A x \in 1..(l + 1) : x = l + 1 \/ x \in 1..l
    BY <1>1
  <2>2. \A x \in 1..l : p[x] # k + 1
    BY <1>7
  <2>3. CASE i \in 1..l /\ j \in 1..l
    BY <1>6, <1>7, <1>10, <2>3
  <2>4. CASE i = l + 1 /\ j = l + 1
    BY <2>4
  <2>5. CASE i = l + 1 /\ j \in 1..l
    BY <1>7, <1>10, <2>2, <2>5
  <2>6. CASE i \in 1..l /\ j = l + 1
    BY <1>7, <1>10, <2>2, <2>6
  <2>7. QED
    BY <1>10, <2>1, <2>3, <2>4, <2>5, <2>6
<1>11. Origin(p, s, items, kinds, k + 1)
  BY <1>4, <1>8, <1>9, <1>10 DEF Origin
<1>12. QED
  BY <1>2, <1>11

\* One more that is not.
LEMMA OriginSkips ==
  ASSUME NEW items, NEW kinds, NEW k \in Nat, NEW r, NEW o, Origin(o, r, items, kinds, k)
  PROVE  Origin(o, r, items, kinds, k + 1)
BY DEF Origin

\* The entries of some kinds are entries, each of a place of its own.
LEMMA OfIs ==
  ASSUME NEW S, NEW items \in Seq(S), NEW kinds, NEW r, r = Downloads!Of(items, kinds)
  PROVE  r \in Seq(S) /\ \E o : Origin(o, r, items, kinds, Len(items))
<1> DEFINE parts == [i \in DOMAIN items |-> IF items[i].kind \in kinds THEN <<items[i]>> ELSE <<>>]
<1>1. PICK m : m = Len(items) /\ m \in Nat /\ DOMAIN items = 1..m
  OBVIOUS
<1>2. r = Downloads!FlattenSeq(parts)
  BY DEF Downloads!Of
<1>3. CASE m = 0
  <2>1. parts = <<>> /\ Len(parts) = 0
    BY <1>1, <1>3
  <2>2. r = <<>>
    BY <1>2, <2>1 DEF Downloads!FlattenSeq
  <2>3. Origin(<<>>, r, items, kinds, Len(items))
    BY <2>2 DEF Origin
  <2>4. QED
    BY <2>2, <2>3
<1>4. CASE m # 0
  <2>1. parts \in [1..m -> Seq(S)]
    BY <1>1
  <2>2. \A i \in 1..m : parts[i] = (IF items[i].kind \in kinds THEN <<items[i]>> ELSE <<>>)
    BY <1>1
  <2> HIDE DEF parts
  <2>3. PICK h \in [1..m -> Seq(S)] : Flattens(h, parts, m) /\ r = h[m]
    <3>1. m \in Nat \ {0}
      BY <1>1, <1>4
    <3>2. PICK h \in [1..m -> Seq(S)] : Flattens(h, parts, m) /\ Downloads!FlattenSeq(parts) = h[m]
      BY <2>1, <3>1, FlattenIs
    <3>3. QED
      BY <1>2, <3>2
  <2> DEFINE T == {k \in 1..m : \E o : Origin(o, h[k], items, kinds, k)}
  <2>4. 1 \in T
    <3>1. h[1] = parts[1] /\ 1 \in 1..m
      BY <1>1, <1>4, <2>3 DEF Flattens
    <3>2. CASE items[1].kind \in kinds
      <4>1. h[1] = <<items[1]>>
        BY <2>2, <3>1, <3>2
      <4>2. Len(<<items[1]>>) = 1 /\ <<items[1]>>[1] = items[1]
        OBVIOUS
      <4>3. PICK one : one = [j \in 1..1 |-> 1]
        OBVIOUS
      <4>4. Origin(one, h[1], items, kinds, 1)
        BY <3>2, <4>1, <4>2, <4>3 DEF Origin
      <4>5. QED
        BY <3>1, <4>4
    <3>3. CASE items[1].kind \notin kinds
      <4>1. h[1] = <<>>
        BY <2>2, <3>1, <3>3
      <4>2. Origin(<<>>, h[1], items, kinds, 1)
        BY <4>1 DEF Origin
      <4>3. QED
        BY <3>1, <4>2
    <3>4. QED
      BY <3>2, <3>3
  <2>5. ASSUME NEW k \in 1..m, k \in T, k + 1 <= m PROVE k + 1 \in T
    <3>1. k + 1 \in 2..m /\ (k + 1) - 1 = k /\ k \in Nat /\ k + 1 \in 1..m
      BY <1>1, <2>5
    <3>2. h[k + 1] = h[k] \o parts[k + 1] /\ h[k] \in Seq(S)
      BY <2>3, <3>1 DEF Flattens
    <3>3. PICK o : Origin(o, h[k], items, kinds, k)
      BY <2>5
    <3>4. CASE items[k + 1].kind \in kinds
      <4>1. parts[k + 1] = <<items[k + 1]>>
        BY <2>2, <3>1, <3>4
      <4>2. \E p : Origin(p, h[k] \o <<items[k + 1]>>, items, kinds, k + 1)
        BY <1>1, <3>1, <3>2, <3>3, <3>4, OriginTakes
      <4>3. QED
        BY <3>1, <3>2, <4>1, <4>2
    <3>5. CASE items[k + 1].kind \notin kinds
      <4>1. parts[k + 1] = <<>>
        BY <2>2, <3>1, <3>5
      <4>2. h[k + 1] = h[k]
        BY <3>2, <4>1, ConcatEmptySeq
      <4>3. Origin(o, h[k], items, kinds, k + 1)
        BY <3>1, <3>3, OriginSkips
      <4>4. QED
        BY <3>1, <4>2, <4>3
    <3>6. QED
      BY <3>4, <3>5
  <2>6. T = 1..m
    <3>1. T \subseteq 1..m
      OBVIOUS
    <3> HIDE DEF T
    <3>2. QED
      BY <1>1, <2>4, <2>5, <3>1, UpTo
  <2>7. m \in T
    <3>1. m \in 1..m
      BY <1>1, <1>4
    <3> HIDE DEF T
    <3>2. QED
      BY <2>6, <3>1
  <2>8. QED
    BY <1>1, <2>3, <2>7
<1>5. QED
  BY <1>3, <1>4

-----------------------------------------------------------------------------
(***************************************************************************)
(* What is read of a body.                                                 *)
(***************************************************************************)
\* What a server answers with is whole.
LEMMA BodyIs ==
  ASSUME NEW b \in Bodies
  PROVE  /\ b \notin {Nil, Failed} /\ b.items \in Seq(Downloads!Items)
         /\ \A i \in 1..Len(b.items) : b.items[i].whole
<1>1. b \in Downloads!Answers /\ b \notin {Nil, Failed}
  BY ConstantsTyped DEF Downloads!ConstantsTyped
<1>2. b.items \in Seq([kind : STRING \cup Downloads!Kinds, whole : {TRUE}])
  BY <1>1 DEF Downloads!Answers
<1>3. ASSUME NEW i \in 1..Len(b.items)
      PROVE  b.items[i] \in Downloads!Items /\ b.items[i].whole
  <2>1. b.items[i] \in [kind : STRING \cup Downloads!Kinds, whole : {TRUE}]
    <3>1. ASSUME NEW R, NEW s \in Seq(R), NEW j \in 1..Len(s) PROVE s[j] \in R
      BY <3>1
    <3>2. QED
      BY <1>2, <1>3, <3>1
  <2>2. ASSUME NEW K, NEW x \in [kind : K, whole : {TRUE}]
        PROVE  x \in [kind : K, whole : BOOLEAN] /\ x.whole = TRUE
    BY <2>2
  <2>3. b.items[i] \in Downloads!Items /\ b.items[i].whole = TRUE
    BY <2>1, <2>2 DEF Downloads!Items
  <2>4. QED
    BY <2>3
<1>4. b.items \in Seq(Downloads!Items)
  BY <1>2, <1>3
<1>5. QED
  BY <1>1, <1>3, <1>4

\* Every entry that is read is whole but the last of base64 that is cut, and JSON
\* that is cut is none.
LEMMA CutIs ==
  ASSUME NEW b \in Bodies, NEW c, c = Downloads!Cut(b)
  PROVE  /\ Len(b.items) <= MaxBody => c = b
         /\ c.items \in Seq(Downloads!Items)
         /\ Len(b.items) > MaxBody =>
              /\ c.format # "json"
              /\ \A i \in 1..Len(c.items) : ~c.items[i].whole => i = MaxBody
<1>1. b.items \in Seq(Downloads!Items) /\ \A i \in 1..Len(b.items) : b.items[i].whole
  BY BodyIs
<1>2. MaxBody \in Nat \ {0}
  BY ConstantsTyped DEF Downloads!ConstantsTyped
<1>3. CASE Len(b.items) <= MaxBody
  <2>1. c = b
    BY <1>3 DEF Downloads!Cut
  <2>2. ~(Len(b.items) > MaxBody)
    BY <1>1, <1>2, <1>3
  <2>3. QED
    BY <1>1, <2>1, <2>2
<1>4. CASE ~(Len(b.items) <= MaxBody) /\ b.format # "base64"
  <2>1. c = [b EXCEPT !.format = "other"]
    BY <1>4 DEF Downloads!Cut
  <2>2. b \in Downloads!Answers
    BY ConstantsTyped DEF Downloads!ConstantsTyped
  <2>3. c.format = "other" /\ c.items = b.items
    BY <2>1, <2>2 DEF Downloads!Answers
  <2>4. QED
    BY <1>1, <1>4, <2>3
<1>5. CASE ~(Len(b.items) <= MaxBody) /\ b.format = "base64"
  <2>1. PICK u : u = SubSeq(b.items, 1, MaxBody)
    OBVIOUS
  <2>2. PICK v : v = [u EXCEPT ![MaxBody].whole = FALSE]
    OBVIOUS
  <2>3. c = [b EXCEPT !.items = v]
    BY <1>5, <2>1, <2>2 DEF Downloads!Cut
  <2>4. b \in Downloads!Answers
    BY ConstantsTyped DEF Downloads!ConstantsTyped
  <2>5. c.format = "base64" /\ c.items = v
    BY <1>5, <2>3, <2>4 DEF Downloads!Answers
  <2>6. MaxBody \in 1..Len(b.items) /\ Len(b.items) \in Nat
    BY <1>1, <1>2, <1>5
  <2>7. u \in Seq(Downloads!Items) /\ Len(u) = MaxBody /\ \A i \in 1..MaxBody : u[i] = b.items[i]
    BY <1>1, <1>2, <2>1, <2>6
  <2>8. \A i \in 1..MaxBody : u[i] \in Downloads!Items /\ u[i].whole
    BY <1>1, <1>2, <2>6, <2>7
  <2>9. MaxBody \in 1..MaxBody /\ DOMAIN u = 1..MaxBody
    BY <1>2, <2>7
  <2>10. DOMAIN v = 1..MaxBody /\ v[MaxBody] = [u[MaxBody] EXCEPT !.whole = FALSE]
         /\ \A i \in 1..MaxBody : i # MaxBody => v[i] = u[i]
    BY <2>2, <2>9
  <2>11. [u[MaxBody] EXCEPT !.whole = FALSE] \in Downloads!Items
    BY <2>8, <2>9 DEF Downloads!Items
  <2>12. \A i \in 1..MaxBody : v[i] \in Downloads!Items
    BY <2>8, <2>10, <2>11
  <2>13. v \in Seq(Downloads!Items) /\ Len(v) = MaxBody
    <3>1. v = [i \in 1..MaxBody |-> v[i]]
      BY <2>2, <2>9, <2>10
    <3>2. QED
      BY <1>2, <2>12, <3>1
  <2>14. \A i \in 1..Len(v) : ~v[i].whole => i = MaxBody
    BY <2>8, <2>10, <2>13
  <2>15. QED
    BY <1>5, <2>5, <2>13, <2>14
<1>6. QED
  BY <1>3, <1>4, <1>5

\* Entries that are whole; of which one at most is not; of which one place may not be.
AllWhole(s) == \A i \in 1..Len(s) : s[i].whole
OneAtMost(s) == \A i, j \in 1..Len(s) : ~s[i].whole /\ ~s[j].whole => i = j
OnlyAt(s, q) == \A i \in 1..Len(s) : ~s[i].whole => i = q

\* Of entries of which one at most is not whole, one at most of some kinds is not,
\* and it is of those kinds.
LEMMA OneCut ==
  ASSUME NEW items \in Seq(Downloads!Items), NEW q, OnlyAt(items, q),
         NEW kinds, NEW r, r = Downloads!Of(items, kinds)
  PROVE  /\ r \in Seq(Downloads!Items) /\ OneAtMost(r)
         /\ AllWhole(r) \/ (q \in 1..Len(items) /\ ~items[q].whole /\ items[q].kind \in kinds)
<1>1. r \in Seq(Downloads!Items)
  BY OfIs
<1>2. PICK o : Origin(o, r, items, kinds, Len(items))
  BY OfIs
<1>3. ASSUME NEW i \in 1..Len(r), ~r[i].whole
      PROVE  o[i] = q /\ q \in 1..Len(items) /\ ~items[q].whole /\ items[q].kind \in kinds
  <2>1. r[i] = items[o[i]] /\ items[o[i]].kind \in kinds /\ o[i] \in 1..Len(items)
    BY <1>2, <1>3 DEF Origin
  <2>2. o[i] = q
    BY <1>3, <2>1 DEF OnlyAt
  <2>3. QED
    BY <1>3, <2>1, <2>2
<1>4. ASSUME NEW i \in 1..Len(r), NEW j \in 1..Len(r), ~r[i].whole, ~r[j].whole PROVE i = j
  <2>1. o[i] = o[j]
    BY <1>3, <1>4
  <2>2. QED
    BY <1>2, <1>4, <2>1 DEF Origin
<1>5. QED
  BY <1>1, <1>3, <1>4 DEF AllWhole, OneAtMost

-----------------------------------------------------------------------------
\* The links that are not whole.
CutsOf(u, v) ==
  {<<"uri", i>> : i \in {i \in DOMAIN u : ~u[i].whole}}
    \cup {<<"vpn", i>> : i \in {i \in DOMAIN v : ~v[i].whole}}

\* What is joined to the links adds those of its own that are not whole.
LEMMA CutsJoin ==
  ASSUME NEW S, NEW u \in Seq(S), NEW v \in Seq(S), NEW a \in Seq(S), NEW b \in Seq(S),
         NEW x, EndsWith(x, u, a), NEW y, EndsWith(y, v, b), NEW c \in CutsOf(x, y)
  PROVE  \/ c \in CutsOf(u, v)
         \/ \E i \in 1..Len(a) : ~a[i].whole /\ c = <<"uri", Len(u) + i>>
         \/ \E i \in 1..Len(b) : ~b[i].whole /\ c = <<"vpn", Len(v) + i>>
<1>0. c \in CutsOf(u \o a, v \o b)
  BY DEF EndsWith
<1>1. ASSUME NEW s \in Seq(S), NEW t \in Seq(S), NEW i \in DOMAIN (s \o t)
      PROVE  \/ i \in DOMAIN s /\ (s \o t)[i] = s[i]
             \/ \E j \in 1..Len(t) : i = Len(s) + j /\ (s \o t)[i] = t[j]
  <2>1. i \in 1..(Len(s) + Len(t)) /\ Len(s) \in Nat /\ Len(t) \in Nat /\ DOMAIN s = 1..Len(s)
    BY <1>1
  <2>2. CASE i <= Len(s)
    BY <1>1, <2>1, <2>2
  <2>3. CASE ~(i <= Len(s))
    <3>1. i - Len(s) \in 1..Len(t) /\ i = Len(s) + (i - Len(s))
      BY <2>1, <2>3
    <3>2. (s \o t)[i] = t[i - Len(s)]
      BY <1>1, <2>1, <2>3
    <3>3. QED
      BY <3>1, <3>2
  <2>4. QED
    BY <2>2, <2>3
<1>2. CASE \E i \in DOMAIN (u \o a) : ~(u \o a)[i].whole /\ c = <<"uri", i>>
  <2>1. PICK i \in DOMAIN (u \o a) : ~(u \o a)[i].whole /\ c = <<"uri", i>>
    BY <1>2
  <2>2. CASE i \in DOMAIN u /\ (u \o a)[i] = u[i]
    BY <2>1, <2>2 DEF CutsOf
  <2>3. CASE \E j \in 1..Len(a) : i = Len(u) + j /\ (u \o a)[i] = a[j]
    BY <2>1, <2>3
  <2>4. QED
    BY <1>1, <2>1, <2>2, <2>3
<1>3. CASE \E i \in DOMAIN (v \o b) : ~(v \o b)[i].whole /\ c = <<"vpn", i>>
  <2>1. PICK i \in DOMAIN (v \o b) : ~(v \o b)[i].whole /\ c = <<"vpn", i>>
    BY <1>3
  <2>2. CASE i \in DOMAIN v /\ (v \o b)[i] = v[i]
    BY <2>1, <2>2 DEF CutsOf
  <2>3. CASE \E j \in 1..Len(b) : i = Len(v) + j /\ (v \o b)[i] = b[j]
    BY <2>1, <2>3
  <2>4. QED
    BY <1>1, <2>1, <2>2, <2>3
<1>4. QED
  BY <1>0, <1>2, <1>3 DEF CutsOf

\* Entries that are whole add none.
LEMMA CutsStay ==
  ASSUME NEW S, NEW u \in Seq(S), NEW v \in Seq(S), NEW a \in Seq(S), NEW b \in Seq(S),
         NEW x, EndsWith(x, u, a), NEW y, EndsWith(y, v, b), AllWhole(a), AllWhole(b)
  PROVE  CutsOf(x, y) \subseteq CutsOf(u, v)
<1>1. ASSUME NEW c \in CutsOf(x, y) PROVE c \in CutsOf(u, v)
  <2>1. \/ c \in CutsOf(u, v)
        \/ \E i \in 1..Len(a) : ~a[i].whole /\ c = <<"uri", Len(u) + i>>
        \/ \E i \in 1..Len(b) : ~b[i].whole /\ c = <<"vpn", Len(v) + i>>
    BY <1>1, CutsJoin
  <2>2. QED
    BY <2>1 DEF AllWhole
<1>2. QED
  BY <1>1

\* At most one more.
OneMoreAtMost(D, C) == \E z : D \subseteq C \cup {z}

\* Entries of which one is not whole add one.
LEMMA CutsGrow ==
  ASSUME NEW S, NEW u \in Seq(S), NEW v \in Seq(S), NEW a \in Seq(S), NEW b \in Seq(S),
         NEW x, EndsWith(x, u, a), NEW y, EndsWith(y, v, b),
         OneAtMost(a), OneAtMost(b), AllWhole(a) \/ AllWhole(b)
  PROVE  OneMoreAtMost(CutsOf(x, y), CutsOf(u, v))
<1>1. CASE \E i \in 1..Len(a) : ~a[i].whole
  <2>1. PICK i \in 1..Len(a) : ~a[i].whole
    BY <1>1
  <2>2. CutsOf(x, y) \subseteq CutsOf(u, v) \cup {<<"uri", Len(u) + i>>}
    <3>1. ASSUME NEW c \in CutsOf(x, y)
          PROVE  c \in CutsOf(u, v) \/ c = <<"uri", Len(u) + i>>
      <4>1. \/ c \in CutsOf(u, v)
            \/ \E j \in 1..Len(a) : ~a[j].whole /\ c = <<"uri", Len(u) + j>>
            \/ \E j \in 1..Len(b) : ~b[j].whole /\ c = <<"vpn", Len(v) + j>>
        BY <3>1, CutsJoin
      <4>2. \A j \in 1..Len(b) : b[j].whole
        BY <2>1 DEF AllWhole
      <4>3. \A j \in 1..Len(a) : ~a[j].whole => j = i
        BY <2>1 DEF OneAtMost
      <4>4. QED
        BY <4>1, <4>2, <4>3
    <3>2. QED
      BY <3>1
  <2>3. QED
    BY <2>2 DEF OneMoreAtMost
<1>2. CASE \E i \in 1..Len(b) : ~b[i].whole
  <2>1. PICK i \in 1..Len(b) : ~b[i].whole
    BY <1>2
  <2>2. CutsOf(x, y) \subseteq CutsOf(u, v) \cup {<<"vpn", Len(v) + i>>}
    <3>1. ASSUME NEW c \in CutsOf(x, y)
          PROVE  c \in CutsOf(u, v) \/ c = <<"vpn", Len(v) + i>>
      <4>1. \/ c \in CutsOf(u, v)
            \/ \E j \in 1..Len(a) : ~a[j].whole /\ c = <<"uri", Len(u) + j>>
            \/ \E j \in 1..Len(b) : ~b[j].whole /\ c = <<"vpn", Len(v) + j>>
        BY <3>1, CutsJoin
      <4>2. \A j \in 1..Len(a) : a[j].whole
        BY <2>1 DEF AllWhole
      <4>3. \A j \in 1..Len(b) : ~b[j].whole => j = i
        BY <2>1 DEF OneAtMost
      <4>4. QED
        BY <4>1, <4>2, <4>3
    <3>2. QED
      BY <3>1
  <2>3. QED
    BY <2>2 DEF OneMoreAtMost
<1>3. CASE (\A i \in 1..Len(a) : a[i].whole) /\ (\A i \in 1..Len(b) : b[i].whole)
  <2>1. AllWhole(a) /\ AllWhole(b)
    BY <1>3 DEF AllWhole
  <2>2. CutsOf(x, y) \subseteq CutsOf(u, v)
    BY <2>1, CutsStay
  <2>3. QED
    BY <2>2 DEF OneMoreAtMost
<1>4. QED
  BY <1>1, <1>2, <1>3

\* What one URL was found to list.
YieldOf(b, format, kinds) ==
  IF b \in {Nil, Failed} THEN <<>>
  ELSE IF b.format = format /\ Len(b.items) <= MaxBody THEN Downloads!Of(b.items, kinds)
  ELSE <<>>
PartsOf(g, m, format, kinds) == [k \in 1..m |-> YieldOf(g[k], format, kinds)]

\* It is entries.
LEMMA YieldIs ==
  ASSUME NEW b \in Bodies \cup {Nil, Failed}, NEW format, NEW kinds
  PROVE  YieldOf(b, format, kinds) \in Seq(Downloads!Items)
<1>1. CASE b \in {Nil, Failed}
  BY <1>1 DEF YieldOf
<1>2. CASE b \in Bodies
  <2>1. b.items \in Seq(Downloads!Items)
    BY <1>2, BodyIs
  <2>2. Downloads!Of(b.items, kinds) \in Seq(Downloads!Items)
    BY <2>1, OfIs
  <2>3. QED
    BY <2>2 DEF YieldOf
<1>3. QED
  BY <1>1, <1>2

\* Nothing was taken yet from a URL on.
NilFrom(g, k, m) == \A i \in 1..m : i >= k => g[i] = Nil

\* What the next URL lists comes after what those before it do.
LEMMA ListedGrows ==
  ASSUME NEW m \in Nat \ {0}, NEW g \in [1..m -> Bodies \cup {Nil, Failed}], NEW k \in 1..m,
         NilFrom(g, k, m),
         NEW b \in Bodies \cup {Nil, Failed}, NEW f, f = [g EXCEPT ![k] = b],
         NEW format, NEW kinds
  PROVE  EndsWith(Downloads!FlattenSeq(PartsOf(f, m, format, kinds)),
                  Downloads!FlattenSeq(PartsOf(g, m, format, kinds)), YieldOf(b, format, kinds))
<1>1. PICK p, q : p = PartsOf(g, m, format, kinds) /\ q = PartsOf(f, m, format, kinds)
  OBVIOUS
<1>2. f \in [1..m -> Bodies \cup {Nil, Failed}] /\ f[k] = b /\ \A i \in 1..m : i # k => f[i] = g[i]
  OBVIOUS
<1>3. \A i \in 1..m : p[i] = YieldOf(g[i], format, kinds) /\ q[i] = YieldOf(f[i], format, kinds)
  BY <1>1 DEF PartsOf
<1>4. p \in [1..m -> Seq(Downloads!Items)]
  BY <1>1, YieldIs DEF PartsOf
<1>5. q \in [1..m -> Seq(Downloads!Items)]
  BY <1>1, <1>2, YieldIs DEF PartsOf
<1>6. VoidFrom(p, k, m)
  BY <1>3 DEF VoidFrom, Void, YieldOf, NilFrom
<1>7. SameBut(q, p, k, m)
  BY <1>2, <1>3 DEF SameBut
<1>8. EndsWith(Downloads!FlattenSeq(q), Downloads!FlattenSeq(p), q[k])
  BY <1>4, <1>5, <1>6, <1>7, FlattenLast
<1>9. EndsWith(Downloads!FlattenSeq(q), Downloads!FlattenSeq(p), YieldOf(b, format, kinds))
  BY <1>2, <1>3, <1>8
<1>10. QED
  BY <1>1, <1>9

\* What was listed is entries; at first nothing.
LEMMA ListedIs ==
  ASSUME NEW m \in Nat \ {0}, NEW g \in [1..m -> Bodies \cup {Nil, Failed}], NEW format, NEW kinds
  PROVE  /\ Downloads!FlattenSeq(PartsOf(g, m, format, kinds)) \in Seq(Downloads!Items)
         /\ (\A i \in 1..m : g[i] = Nil) => Downloads!FlattenSeq(PartsOf(g, m, format, kinds)) = <<>>
<1>1. PICK p : p = PartsOf(g, m, format, kinds)
  OBVIOUS
<1>2. p \in [1..m -> Seq(Downloads!Items)] /\ \A i \in 1..m : p[i] = YieldOf(g[i], format, kinds)
  BY <1>1, YieldIs DEF PartsOf
<1>3. PICK h \in [1..m -> Seq(Downloads!Items)] : Flattens(h, p, m) /\ Downloads!FlattenSeq(p) = h[m]
  BY <1>2, FlattenIs
<1>4. Downloads!FlattenSeq(p) \in Seq(Downloads!Items)
  BY <1>3
<1>5. ASSUME \A i \in 1..m : g[i] = Nil PROVE Downloads!FlattenSeq(p) = <<>>
  <2>1. \A i \in 1..m : Void(p[i])
    BY <1>2, <1>5 DEF Void, YieldOf
  <2>2. QED
    BY <1>2, <2>1, FlattenNothing
<1>6. QED
  BY <1>1, <1>4, <1>5

-----------------------------------------------------------------------------
(***************************************************************************)
(* The inductive invariant of the downloads.                               *)
(***************************************************************************)
\* What is not taken yet yielded nothing, and what was collected is entries, ...
DTyped ==
  /\ urls \in Seq(Urls) /\ Len(urls) # 0 /\ Downloads!TypeOK
  /\ got \in [1..Len(urls) -> Bodies \cup {Nil, Failed}]
  /\ \A k \in 1..Len(urls) : k >= download => got[k] = Nil
  /\ downloadPc \in {"request", "body"} => download <= Len(urls)
  /\ {gotJson, gotUris, gotVpns} \subseteq Seq(Downloads!Items)
\* ... no failure is told of before it is one, ...
DTold == \A line \in lines : line.step = "failed" => line.n \in 1..(download - 1)
\* ... the links that are not whole are finitely many, ...
DCuts == IsFiniteSet(Downloads!CutLinks) /\ Downloads!CutOnlyLong
\* ... and a request has the headers that were made for it.
DAgent == downloadPc = "request" => sent = Downloads!RequestHeaders

DInv ==
  /\ DTyped /\ DTold /\ DCuts /\ DAgent
  /\ Downloads!NothingLeaks /\ Downloads!ReasonTold /\ Downloads!NoneLost

\* A request's headers hold one user agent.
LEMMA AgentIsOne == DAgent => Downloads!OneUserAgent
<1> SUFFICES ASSUME downloadPc = "request", sent = Downloads!RequestHeaders PROVE Downloads!OneUserAgent
  BY DEF DAgent, Downloads!OneUserAgent
<1> DEFINE overrides == DOMAIN headers \cap AgentNames
           first == IF "User-Agent" \in overrides THEN "User-Agent" ELSE CHOOSE h \in overrides : TRUE
           own == IF overrides = {} THEN Downloads!Resolved ELSE headers[first]
           values == IF overrides = {} THEN {Downloads!Resolved} ELSE {headers[h] : h \in overrides}
<1>1. sent = {<<"User-Agent", own>>} \cup {<<h, headers[h]>> : h \in DOMAIN headers \ AgentNames}
  BY DEF Downloads!RequestHeaders
<1>2. "User-Agent" \in AgentNames
  BY ConstantsTyped DEF Downloads!ConstantsTyped
<1>3. overrides # {} => first \in overrides
  OBVIOUS
<1> HIDE DEF first
<1>4. own \in values
  BY <1>3
<1> HIDE DEF own
<1>5. {h \in sent : h[1] \in AgentNames} = {<<"User-Agent", own>>}
  BY <1>1, <1>2
<1> HIDE DEF values
<1>6. \E value \in values : {h \in sent : h[1] \in AgentNames} = {<<"User-Agent", value>>}
  BY <1>4, <1>5
<1>7. QED
  BY <1>6 DEF Downloads!OneUserAgent, values

\* The invariant is the property.
LEMMA DInvHolds == DInv => DownloadsHold
BY AgentIsOne DEF DInv, DTyped, DCuts, DownloadsHold

\* What none took of another's, as a function of what the URLs yielded.
SmallOf(g, m) == \A k \in 1..m : g[k] \in {Nil, Failed} \/ Len(g[k].items) <= MaxBody
LostOf(g, m, j, u, v) ==
  SmallOf(g, m) =>
    /\ j = Downloads!FlattenSeq(PartsOf(g, m, "json", Downloads!Supported))
    /\ u = Downloads!FlattenSeq(PartsOf(g, m, "base64", Downloads!Supported))
    /\ v = Downloads!FlattenSeq(PartsOf(g, m, "base64", {"vpn"}))

\* It is the property.
LEMMA LostIs ==
  urls \in Seq(Urls) =>
    (Downloads!NoneLost <=> LostOf(got, Len(urls), gotJson, gotUris, gotVpns))
<1> SUFFICES ASSUME urls \in Seq(Urls)
             PROVE  Downloads!NoneLost <=> LostOf(got, Len(urls), gotJson, gotUris, gotVpns)
  OBVIOUS
<1>1. DOMAIN urls = 1..Len(urls)
  OBVIOUS
<1>2. ASSUME NEW format, NEW kinds
      PROVE  Downloads!Listed(format, kinds) = Downloads!FlattenSeq(PartsOf(got, Len(urls), format, kinds))
  BY <1>1 DEF Downloads!Listed, Downloads!Yield, PartsOf, YieldOf
<1>3. QED
  BY <1>1, <1>2 DEF Downloads!NoneLost, Downloads!SmallBodies, LostOf, SmallOf

\* The lists that are longer than what is read of them, and the cut links, of the state.
LongOf(g, m) == {k \in 1..m : g[k] \notin {Nil, Failed} /\ Len(g[k].items) > MaxBody}
LEMMA CutsAre ==
  urls \in Seq(Urls) =>
    Downloads!CutLinks = CutsOf(gotUris, gotVpns) /\ Downloads!LongLists = LongOf(got, Len(urls))
BY DEF Downloads!CutLinks, Downloads!LongLists, CutsOf, LongOf

\* A step's bounds.
LEMMA DAt ==
  ASSUME DInv
  PROVE  /\ urls \in Seq(Urls) /\ Len(urls) \in Nat \ {0} /\ DOMAIN urls = 1..Len(urls)
         /\ download \in 1..Len(urls) + 1 /\ Downloads!TypeOK
         /\ download <= Len(urls) => download \in 1..Len(urls) /\ urls[download] \in Urls
         /\ downloadPc \in {"request", "body"} => download <= Len(urls)
         /\ got \in [1..Len(urls) -> Bodies \cup {Nil, Failed}]
         /\ \A k \in 1..Len(urls) : k >= download => got[k] = Nil
<1>1. /\ urls \in Seq(Urls) /\ Len(urls) # 0 /\ download \in 1..Len(urls) + 1 /\ Downloads!TypeOK
      /\ downloadPc \in {"request", "body"} => download <= Len(urls)
      /\ got \in [1..Len(urls) -> Bodies \cup {Nil, Failed}]
      /\ \A k \in 1..Len(urls) : k >= download => got[k] = Nil
  BY DEF DInv, DTyped, Downloads!TypeOK
<1>2. Len(urls) \in Nat \ {0} /\ DOMAIN urls = 1..Len(urls)
  BY <1>1
<1>3. ASSUME NEW k \in 1..Len(urls) PROVE urls[k] \in Urls
  BY <1>1, <1>2
<1>4. download <= Len(urls) => download \in 1..Len(urls)
  BY <1>1, <1>2
<1>5. QED
  BY <1>1, <1>2, <1>3, <1>4

\* A step that collects nothing.
LEMMA DStays ==
  ASSUME DInv, UNCHANGED <<urls, got, gotJson, gotUris, gotVpns>>
  PROVE  DCuts' /\ Downloads!NoneLost'
<1>1. DCuts'
  BY DEF DInv, DCuts, Downloads!CutLinks, Downloads!LongLists, Downloads!CutOnlyLong
<1>2. Downloads!NoneLost'
  BY DEF DInv, Downloads!NoneLost, Downloads!SmallBodies, Downloads!Listed, Downloads!Yield
<1>3. QED
  BY <1>1, <1>2

\* What is shown of a URL holds nothing secret.
LEMMA RedactIs ==
  ASSUME NEW url \in Urls
  PROVE  Downloads!RedactUrl(url) \cap Downloads!Secrets = {}
<1>1. \A w \in Downloads!RedactUrl(url) : w = url.host \/ w = "<redacted>"
  BY DEF Downloads!RedactUrl
<1>2. url.host \notin Downloads!Secrets /\ "<redacted>" \notin Downloads!Secrets
  BY ConstantsTyped DEF Downloads!ConstantsTyped, Downloads!OwnWords
<1>3. QED
  BY <1>1, <1>2

\* What is told of a failure: nothing secret, and which it was.
Reason(r) == r \cap Downloads!Secrets = {} /\ r \cap (Downloads!Variants \cup {Downloads!Refusal}) # {}

\* A download that fails is told of, and takes nothing.
LEMMA DFails ==
  ASSUME DInv, NEW r, Reason(r), download <= Len(urls), Downloads!Fail(r)
  PROVE  DInv'
<1> DEFINE line == [n |-> download, step |-> "failed",
                    words |-> Downloads!RedactUrl(urls[download]) \cup r]
<1>1. /\ lines' = lines \cup {line} /\ got' = [got EXCEPT ![download] = Failed]
      /\ download' = download + 1 /\ downloadPc' = "next" /\ body' = Nil
      /\ UNCHANGED <<urls, agent, headers, hops, sent, gotJson, gotUris, gotVpns>>
  BY DEF Downloads!Fail, Downloads!Say, Downloads!FailureMessage, Downloads!config, Downloads!collected
<1>2. /\ urls \in Seq(Urls) /\ Len(urls) \in Nat \ {0} /\ DOMAIN urls = 1..Len(urls)
      /\ download \in 1..Len(urls) /\ urls[download] \in Urls
      /\ got \in [1..Len(urls) -> Bodies \cup {Nil, Failed}]
      /\ \A k \in 1..Len(urls) : k >= download => got[k] = Nil
  BY DAt
<1>3. /\ got' \in [1..Len(urls) -> Bodies \cup {Nil, Failed}] /\ got'[download] = Failed
      /\ \A k \in 1..Len(urls) : k # download => got'[k] = got[k]
  BY <1>1, <1>2
<1>4. DTyped'
  <2>1. \A k \in 1..Len(urls) : k >= download + 1 => got'[k] = Nil
    BY <1>2, <1>3
  <2>2. Downloads!TypeOK'
    BY <1>1, <1>2 DEF DInv, DTyped, Downloads!TypeOK
  <2>3. QED
    BY <1>1, <1>2, <1>3, <2>1, <2>2 DEF DInv, DTyped
<1>5. DTold'
  <2>1. ASSUME NEW l \in lines', l.step = "failed" PROVE l.n \in 1..download
    <3>1. CASE l \in lines
      <4>1. l.n \in 1..(download - 1)
        BY <2>1, <3>1 DEF DInv, DTold
      <4>2. QED
        BY <1>2, <4>1
    <3>2. CASE l = line
      BY <1>2, <3>2
    <3>3. QED
      BY <1>1, <2>1, <3>1, <3>2
  <2>2. download' - 1 = download
    BY <1>1, <1>2
  <2>3. QED
    BY <2>1, <2>2 DEF DTold
<1>6. DCuts'
  <2>1. Nil # Failed
    BY ConstantsTyped DEF Downloads!ConstantsTyped
  <2>2. LongOf(got', Len(urls)) = LongOf(got, Len(urls))
    BY <1>2, <1>3 DEF LongOf
  <2>3. Downloads!LongLists' = Downloads!LongLists
    BY <1>1, <1>2, <2>2 DEF LongOf, Downloads!LongLists
  <2>4. Downloads!CutLinks' = Downloads!CutLinks
    BY <1>1 DEF Downloads!CutLinks
  <2>5. QED
    BY <2>3, <2>4 DEF DInv, DCuts, Downloads!CutOnlyLong
<1>7. DAgent'
  BY <1>1 DEF DAgent
<1>8. Downloads!NothingLeaks'
  <2>1. line.words \cap Downloads!Secrets = {}
    BY <1>2, RedactIs DEF Reason
  <2>2. QED
    BY <1>1, <2>1 DEF DInv, Downloads!NothingLeaks, Downloads!Secrets
<1>9. Downloads!ReasonTold'
  <2> DEFINE Named == Downloads!Variants \cup {Downloads!Refusal}
             Tells(l, k) == l.n = k /\ l.step = "failed" /\ l.words \cap Named # {}
  <2>1. Tells(line, download)
    BY DEF Reason
  <2>2. \A k : k # download => ~Tells(line, k)
    OBVIOUS
  <2>3. \A k \in 1..Len(urls) : got[k] = Failed <=> \E l \in lines : Tells(l, k)
    BY <1>2 DEF DInv, Downloads!ReasonTold
  <2> HIDE DEF Tells, line
  <2>4. \A k \in 1..Len(urls) : got'[k] = Failed <=> \E l \in lines' : Tells(l, k)
    BY <1>1, <1>2, <1>3, <2>1, <2>2, <2>3
  <2>5. QED
    BY <1>1, <1>2, <2>4 DEF Downloads!ReasonTold, Tells, Downloads!Variants, Downloads!Refusal
<1>10. Downloads!NoneLost'
  <2>1. \A k \in 1..Len(urls) : got'[k] \in {Nil, Failed} <=> got[k] \in {Nil, Failed}
    BY <1>2, <1>3
  <2>2. SmallOf(got', Len(urls)) => SmallOf(got, Len(urls))
    BY <1>2, <1>3 DEF SmallOf
  <2>3. ASSUME NEW format, NEW kinds
        PROVE  PartsOf(got', Len(urls), format, kinds) = PartsOf(got, Len(urls), format, kinds)
    <3>1. ASSUME NEW k \in 1..Len(urls)
          PROVE  YieldOf(got'[k], format, kinds) = YieldOf(got[k], format, kinds)
      <4>1. CASE k = download
        BY <1>2, <1>3, <4>1 DEF YieldOf
      <4>2. CASE k # download
        BY <1>3, <3>1, <4>2
      <4>3. QED
        BY <4>1, <4>2
    <3>2. QED
      BY <3>1 DEF PartsOf
  <2>4. LostOf(got, Len(urls), gotJson, gotUris, gotVpns)
    BY <1>2, LostIs DEF DInv
  <2>5. LostOf(got', Len(urls)', gotJson', gotUris', gotVpns')
    BY <1>1, <2>2, <2>3, <2>4 DEF LostOf
  <2>6. (urls \in Seq(Urls) =>
          (Downloads!NoneLost <=> LostOf(got, Len(urls), gotJson, gotUris, gotVpns)))'
    BY LostIs, PTL
  <2>7. QED
    BY <1>1, <1>2, <2>5, <2>6
<1>11. QED
  BY <1>4, <1>5, <1>6, <1>7, <1>8, <1>9, <1>10 DEF DInv

\* Subscription counts as everyone does.
LEMMA SizeIs ==
  ASSUME NEW S PROVE Downloads!Cardinality(S) = Cardinality(S)
BY DEF Downloads!Cardinality, Cardinality

\* The initial states of the downloads are the invariant's.
LEMMA DInitHolds == Downloads!Init => DInv
<1> SUFFICES ASSUME Downloads!Init PROVE DInv
  OBVIOUS
<1>1. /\ Downloads!ConstantsTyped /\ MaxUrls \in Nat /\ MaxRedirects \in Nat
      /\ Nil \notin Bodies /\ Nil # Failed
  BY ConstantsTyped DEF Downloads!ConstantsTyped
<1>2. urls \in Seq(Urls) /\ Len(urls) \in Nat \ {0} /\ DOMAIN urls = 1..Len(urls)
  <2>1. PICK k \in 1..MaxUrls : urls \in [1..k -> Urls]
    BY DEF Downloads!Init
  <2>2. QED
    BY <1>1, <2>1
<1>3. /\ download = 1 /\ downloadPc = "next" /\ hops = 0 /\ body = Nil
      /\ gotJson = <<>> /\ gotUris = <<>> /\ gotVpns = <<>> /\ lines = {}
      /\ got = [k \in 1..Len(urls) |-> Nil]
  BY <1>2 DEF Downloads!Init
<1>4. got \in [1..Len(urls) -> Bodies \cup {Nil, Failed}] /\ \A k \in 1..Len(urls) : got[k] = Nil
  BY <1>3
<1>5. DTyped
  <2>1. Downloads!TypeOK
    BY <1>1, <1>2, <1>3 DEF Downloads!TypeOK
  <2>2. {gotJson, gotUris, gotVpns} \subseteq Seq(Downloads!Items)
    BY <1>3
  <2>3. QED
    BY <1>2, <1>3, <1>4, <2>1, <2>2 DEF DTyped
<1>6. DTold /\ DAgent /\ Downloads!NothingLeaks
  BY <1>3 DEF DTold, DAgent, Downloads!NothingLeaks
<1>7. DCuts
  <2>1. Downloads!CutLinks = {}
    BY <1>3 DEF Downloads!CutLinks
  <2>2. Downloads!LongLists = {}
    BY <1>2, <1>4 DEF Downloads!LongLists
  <2>3. QED
    BY <2>1, <2>2, SizeIs, FS_EmptySet DEF DCuts, Downloads!CutOnlyLong
<1>8. Downloads!ReasonTold
  BY <1>1, <1>2, <1>3, <1>4 DEF Downloads!ReasonTold
<1>9. Downloads!NoneLost
  <2>1. \A format, kinds : Downloads!FlattenSeq(PartsOf(got, Len(urls), format, kinds)) = <<>>
    BY <1>2, <1>4, ListedIs
  <2>2. LostOf(got, Len(urls), gotJson, gotUris, gotVpns)
    BY <1>3, <2>1 DEF LostOf
  <2>3. QED
    BY <1>2, <2>2, LostIs
<1>10. QED
  BY <1>5, <1>6, <1>7, <1>8, <1>9 DEF DInv

\* What describe_fetch_error says of a failure.
LEMMA DescribeIs ==
  ASSUME NEW variant \in Downloads!Variants, NEW words
  PROVE  /\ variant # "Io" => Reason(Downloads!Describe(Downloads!Failure(variant, words)))
         /\ words \in {{}, {"os"}} => Reason(Downloads!Describe(Downloads!Failure(variant, words)))
<1>1. ASSUME NEW w \in Downloads!Variants \cup {"os"} PROVE w \notin Downloads!Secrets
  BY <1>1, ConstantsTyped DEF Downloads!ConstantsTyped, Downloads!OwnWords
<1>2. Downloads!Failure(variant, words).variant = variant
      /\ Downloads!Failure(variant, words).inner = Nil
      /\ Downloads!Failure(variant, words).words = words
  BY DEF Downloads!Failure
<1>3. CASE variant # "Io"
  <2>1. Downloads!Describe(Downloads!Failure(variant, words)) = {variant}
    BY <1>2, <1>3 DEF Downloads!Describe
  <2>2. QED
    BY <1>1, <1>3, <2>1 DEF Reason
<1>4. CASE variant = "Io" /\ words \in {{}, {"os"}}
  <2>1. Downloads!Describe(Downloads!Failure(variant, words)) = {"Io"} \cup words
    BY <1>2, <1>4 DEF Downloads!Describe
  <2>2. QED
    BY <1>1, <1>4, <2>1 DEF Reason
<1>5. QED
  BY <1>3, <1>4

\* ... and of one that an io::Error wraps.
LEMMA DescribeWrapped ==
  ASSUME NEW variant \in Downloads!Variants,
         NEW words \in SUBSET ({"os", ServerWord} \cup UNION {Downloads!UrlWords(url) : url \in Urls})
  PROVE  Reason(Downloads!Describe(Downloads!Wrapped(Downloads!Failure(variant, words))))
<1> DEFINE f == Downloads!Failure(variant, words)
<1>1. f \in Downloads!Failures
  BY DEF Downloads!Failure, Downloads!Failures
<1>2. f # Nil
  BY <1>1, ConstantsTyped DEF Downloads!ConstantsTyped
<1>3. f.variant = variant
  BY DEF Downloads!Failure
<1> HIDE DEF f
<1>4. Downloads!Wrapped(f).variant = "Io" /\ Downloads!Wrapped(f).inner = f
  BY DEF Downloads!Wrapped
<1>5. Downloads!Describe(Downloads!Wrapped(f)) = {variant}
  BY <1>2, <1>3, <1>4 DEF Downloads!Describe
<1>6. variant \notin Downloads!Secrets
  BY ConstantsTyped DEF Downloads!ConstantsTyped, Downloads!OwnWords
<1>7. QED
  BY <1>5, <1>6 DEF Reason, f

\* A line that tells no failure, and nothing secret.
Quiet(line) == line.step # "failed" /\ line.words \cap Downloads!Secrets = {}

\* Lines that tell a URL's failure.
ToldOf(told, k) ==
  \E line \in told : /\ line.n = k /\ line.step = "failed"
                     /\ line.words \cap (Downloads!Variants \cup {Downloads!Refusal}) # {}

\* Such lines leave what is told of failures as it is.
LEMMA DQuiet ==
  ASSUME NEW new, lines' = lines \cup new, \A line \in new : Quiet(line)
  PROVE  /\ Downloads!NothingLeaks => Downloads!NothingLeaks'
         /\ \A k : ToldOf(lines', k) <=> ToldOf(lines, k)
         /\ \A line \in lines' : line.step = "failed" => line \in lines
<1>1. Downloads!NothingLeaks => Downloads!NothingLeaks'
  BY DEF Downloads!NothingLeaks, Quiet, Downloads!Secrets
<1>2. \A line \in lines' : line.step = "failed" => line \in lines
  BY DEF Quiet
<1>3. \A k : ToldOf(lines', k) <=> ToldOf(lines, k)
  BY <1>2 DEF ToldOf
<1>4. QED
  BY <1>1, <1>2, <1>3

\* A step of a download that goes on.
LEMMA DGoesOn ==
  ASSUME DInv, UNCHANGED <<urls, download, got, gotJson, gotUris, gotVpns>>,
         Downloads!TypeOK', downloadPc' \in {"request", "body"} => download <= Len(urls), DAgent',
         NEW new, lines' = lines \cup new, \A line \in new : Quiet(line)
  PROVE  DInv'
<1>1. DTyped'
  BY DEF DInv, DTyped
<1>2. DTold'
  BY DQuiet DEF DInv, DTold
<1>3. DCuts' /\ Downloads!NoneLost'
  BY DStays
<1>4. Downloads!NothingLeaks'
  BY DQuiet DEF DInv
<1>5. Downloads!ReasonTold'
  <2>1. \A k \in DOMAIN urls : got[k] = Failed <=> ToldOf(lines, k)
    BY DEF DInv, Downloads!ReasonTold, ToldOf
  <2>2. \A k \in DOMAIN urls : got'[k] = Failed <=> ToldOf(lines', k)
    BY <2>1, DQuiet
  <2>3. QED
    BY <2>2 DEF Downloads!ReasonTold, ToldOf
<1>6. QED
  BY <1>1, <1>2, <1>3, <1>4, <1>5 DEF DInv

\* ... without a word.
LEMMA DSilent ==
  ASSUME DInv, UNCHANGED <<urls, download, lines, got, gotJson, gotUris, gotVpns>>,
         Downloads!TypeOK', downloadPc' \in {"request", "body"} => download <= Len(urls), DAgent'
  PROVE  DInv'
<1>1. PICK new : new = {}
  OBVIOUS
<1>2. lines' = lines \cup new /\ \A line \in new : Quiet(line)
  BY <1>1
<1>3. QED
  BY <1>2, DGoesOn

\* Every step before a server's answer keeps the invariant, ...
LEMMA DAsks ==
  ASSUME DInv, Downloads!Begin \/ Downloads!Refuse \/ Downloads!Request \/ Downloads!NetworkFails
               \/ Downloads!IoFails \/ Downloads!BadRedirect \/ Downloads!Redirect
  PROVE  DInv'
<1>1. CASE Downloads!Begin
  <2> DEFINE new == {[n |-> download, step |-> "downloading",
                      words |-> Downloads!RedactUrl(urls[download])]}
  <2>1. /\ download <= Len(urls) /\ lines' = lines \cup new
        /\ UNCHANGED <<urls, agent, headers, download, downloadPc, hops, sent, body,
                       gotJson, gotUris, gotVpns, got>>
    BY <1>1 DEF Downloads!Begin, Downloads!Say, Downloads!config, Downloads!collected
  <2>2. \A line \in new : Quiet(line)
    BY <2>1, DAt, RedactIs DEF Quiet
  <2> HIDE DEF new
  <2>3. Downloads!TypeOK' /\ (downloadPc' \in {"request", "body"} => download <= Len(urls))
    BY <2>1, DAt DEF Downloads!TypeOK
  <2>4. DAgent'
    BY <2>1 DEF DInv, DAgent, Downloads!RequestHeaders, Downloads!Resolved
  <2>5. QED
    BY <2>1, <2>2, <2>3, <2>4, DGoesOn
<1>2. CASE Downloads!Refuse
  <2>1. Reason({Downloads!Refusal})
    BY ConstantsTyped DEF Reason, Downloads!ConstantsTyped, Downloads!OwnWords
  <2>2. QED
    BY <1>2, <2>1, DFails DEF Downloads!Refuse
<1>3. CASE Downloads!Request
  <2>1. /\ download <= Len(urls) /\ UNCHANGED lines /\ downloadPc = "next"
        /\ downloadPc' = "request" /\ hops' = 0 /\ sent' = Downloads!RequestHeaders
        /\ UNCHANGED <<urls, agent, headers, download, body, gotJson, gotUris, gotVpns, got>>
    BY <1>3 DEF Downloads!Request, Downloads!config, Downloads!collected
  <2>2. Downloads!TypeOK'
    BY <2>1, DAt, ConstantsTyped DEF Downloads!TypeOK, Downloads!ConstantsTyped
  <2>3. DAgent'
    BY <2>1 DEF DAgent, Downloads!RequestHeaders, Downloads!Resolved
  <2>4. QED
    BY <2>1, <2>2, <2>3, DSilent
<1>4. CASE Downloads!NetworkFails
  <2>1. PICK variant \in {"HostNotFound", "ConnectionFailed", "Tls", "Timeout", "StatusCode"} :
          Downloads!Fail(Downloads!Describe(Downloads!Failure(variant, {})))
    BY <1>4 DEF Downloads!NetworkFails
  <2>2. Reason(Downloads!Describe(Downloads!Failure(variant, {})))
    BY DescribeIs DEF Downloads!Variants
  <2>3. QED
    BY <1>4, <2>1, <2>2, DFails, DAt DEF Downloads!NetworkFails
<1>5. CASE Downloads!IoFails
  <2>1. Reason(Downloads!Describe(Downloads!Failure("Io", {"os"})))
    BY DescribeIs DEF Downloads!Variants
  <2>2. QED
    BY <1>5, <2>1, DFails, DAt DEF Downloads!IoFails
<1>6. CASE Downloads!BadRedirect
  <2>1. PICK variant \in {"Protocol", "BadUri"}, text \in Downloads!ServerTexts :
          Downloads!Fail(Downloads!Describe(Downloads!Failure(variant, text)))
    BY <1>6 DEF Downloads!BadRedirect
  <2>2. Reason(Downloads!Describe(Downloads!Failure(variant, text)))
    BY DescribeIs DEF Downloads!Variants
  <2>3. QED
    BY <1>6, <2>1, <2>2, DFails, DAt DEF Downloads!BadRedirect
<1>7. CASE Downloads!Redirect
  <2>1. CASE hops < MaxRedirects
    <3>1. /\ UNCHANGED lines /\ downloadPc = "request" /\ hops' = hops + 1
          /\ UNCHANGED <<urls, agent, headers, download, downloadPc, body, sent,
                         gotJson, gotUris, gotVpns, got>>
      BY <1>7, <2>1 DEF Downloads!Redirect, Downloads!config, Downloads!collected
    <3>2. Downloads!TypeOK'
      BY <2>1, <3>1, DAt, ConstantsTyped DEF Downloads!TypeOK, Downloads!ConstantsTyped
    <3>3. DAgent'
      BY <3>1 DEF DInv, DAgent, Downloads!RequestHeaders, Downloads!Resolved
    <3>4. QED
      BY <3>1, <3>2, <3>3, DAt, DSilent
  <2>2. CASE ~(hops < MaxRedirects)
    <3>1. Downloads!Fail(Downloads!Describe(Downloads!Failure("TooManyRedirects", {})))
      BY <1>7, <2>2 DEF Downloads!Redirect
    <3>2. Reason(Downloads!Describe(Downloads!Failure("TooManyRedirects", {})))
      BY DescribeIs DEF Downloads!Variants
    <3>3. QED
      BY <1>7, <3>1, <3>2, DFails, DAt DEF Downloads!Redirect
  <2>3. QED
    BY <2>1, <2>2
<1>8. QED
  BY <1>1, <1>2, <1>3, <1>4, <1>5, <1>6, <1>7

\* ... and so does a body that is not read, and the end.
LEMMA DEnds ==
  ASSUME DInv, Downloads!Answer \/ Downloads!ReadFails \/ Downloads!Finish \/ Downloads!Done
  PROVE  DInv'
<1>1. CASE Downloads!Answer
  <2>1. /\ UNCHANGED lines /\ downloadPc = "request" /\ downloadPc' = "body" /\ body' \in Bodies
        /\ UNCHANGED <<urls, agent, headers, download, hops, sent, gotJson, gotUris, gotVpns, got>>
    BY <1>1 DEF Downloads!Answer, Downloads!config, Downloads!collected
  <2>2. Downloads!TypeOK' /\ DAgent'
    BY <2>1, DAt, ConstantsTyped DEF Downloads!TypeOK, Downloads!ConstantsTyped, DAgent
  <2>3. QED
    BY <2>1, <2>2, DAt, DSilent
<1>2. CASE Downloads!ReadFails
  <2>1. PICK r : Downloads!Fail(r) /\
          \/ r = Downloads!Describe(Downloads!Failure("Io", {"os"}))
          \/ \E text \in Downloads!ServerTexts :
               r = Downloads!Describe(Downloads!Wrapped(Downloads!Failure("Protocol", text)))
          \/ r = Downloads!Describe(Downloads!Wrapped(Downloads!Failure("Timeout", {})))
    BY <1>2 DEF Downloads!ReadFails
  <2>2. download <= Len(urls) /\ urls[download] \in Urls
    BY <1>2, DAt DEF Downloads!ReadFails
  <2>3. Reason(r)
    <3>1. CASE r = Downloads!Describe(Downloads!Failure("Io", {"os"}))
      BY <3>1, DescribeIs DEF Downloads!Variants
    <3>2. CASE \E text \in Downloads!ServerTexts :
                 r = Downloads!Describe(Downloads!Wrapped(Downloads!Failure("Protocol", text)))
      <4>1. PICK text \in Downloads!ServerTexts :
              r = Downloads!Describe(Downloads!Wrapped(Downloads!Failure("Protocol", text)))
        BY <3>2
      <4>2. text \in SUBSET ({"os", ServerWord} \cup UNION {Downloads!UrlWords(url) : url \in Urls})
        BY <2>2 DEF Downloads!ServerTexts
      <4>3. "Protocol" \in Downloads!Variants
        BY DEF Downloads!Variants
      <4>4. QED
        BY <4>1, <4>2, <4>3, DescribeWrapped
    <3>3. CASE r = Downloads!Describe(Downloads!Wrapped(Downloads!Failure("Timeout", {})))
      <4>1. "Timeout" \in Downloads!Variants
        BY DEF Downloads!Variants
      <4>2. QED
        BY <3>3, <4>1, DescribeWrapped
    <3>4. QED
      BY <2>1, <3>1, <3>2, <3>3
  <2>4. QED
    BY <2>1, <2>2, <2>3, DFails
<1>3. CASE Downloads!Finish
  <2>1. /\ UNCHANGED lines /\ downloadPc = "next" /\ downloadPc' = "done"
        /\ UNCHANGED <<urls, agent, headers, download, hops, sent, body, gotJson, gotUris, gotVpns, got>>
    BY <1>3 DEF Downloads!Finish, Downloads!config, Downloads!collected
  <2>2. Downloads!TypeOK' /\ DAgent'
    BY <2>1, DAt DEF Downloads!TypeOK, DAgent
  <2>3. QED
    BY <2>1, <2>2, DSilent
<1>4. CASE Downloads!Done
  <2>1. /\ UNCHANGED lines
        /\ UNCHANGED <<urls, agent, headers, download, downloadPc, hops, sent, body,
                       gotJson, gotUris, gotVpns, got>>
    BY <1>4 DEF Downloads!Done, Downloads!vars
  <2>2. Downloads!TypeOK' /\ DAgent'
    BY <2>1, DAt DEF Downloads!TypeOK, DInv, DAgent, Downloads!RequestHeaders, Downloads!Resolved
  <2>3. QED
    BY <2>1, <2>2, DAt, DSilent
<1>5. QED
  BY <1>1, <1>2, <1>3, <1>4

\* One more link that is not whole, for one more list that is too long, ...
LEMMA CutsCount ==
  ASSUME NEW C, IsFiniteSet(C), NEW x, NEW D, D \subseteq C \cup {x},
         NEW L, IsFiniteSet(L), NEW k, k \notin L, Cardinality(C) <= Cardinality(L)
  PROVE  IsFiniteSet(D) /\ Cardinality(D) <= Cardinality(L \cup {k})
<1>1. IsFiniteSet(C \cup {x}) /\ Cardinality(C \cup {x}) <= Cardinality(C) + 1
  <2>1. Cardinality(C) \in Nat
    BY FS_CardinalityType
  <2>2. /\ IsFiniteSet(C \cup {x})
        /\ Cardinality(C \cup {x}) = IF x \in C THEN Cardinality(C) ELSE Cardinality(C) + 1
    BY FS_AddElement
  <2>3. QED
    BY <2>1, <2>2
<1>2. IsFiniteSet(D) /\ Cardinality(D) <= Cardinality(C \cup {x})
  BY <1>1, FS_Subset
<1>3. Cardinality(L \cup {k}) = Cardinality(L) + 1
  BY FS_AddElement
<1>4. Cardinality(C) \in Nat /\ Cardinality(L) \in Nat /\ Cardinality(D) \in Nat
      /\ Cardinality(C \cup {x}) \in Nat
  BY <1>1, <1>2, FS_CardinalityType
<1>5. QED
  BY <1>1, <1>2, <1>3, <1>4

\* ... and none, for none.
LEMMA CutsKept ==
  ASSUME NEW C, IsFiniteSet(C), NEW D, D \subseteq C,
         NEW L, IsFiniteSet(L), Cardinality(C) <= Cardinality(L)
  PROVE  IsFiniteSet(D) /\ Cardinality(D) <= Cardinality(L)
<1>1. IsFiniteSet(D) /\ Cardinality(D) <= Cardinality(C)
  BY FS_Subset
<1>2. Cardinality(C) \in Nat /\ Cardinality(L) \in Nat /\ Cardinality(D) \in Nat
  BY <1>1, FS_CardinalityType
<1>3. QED
  BY <1>1, <1>2

\* What is added to one of the lists.
Added(fits, r) == IF fits THEN r ELSE <<>>

\* A body that is read: what is collected, and what of it is whole.
Collected(b, c, a, v) ==
  /\ b = body /\ b \in Bodies /\ download \in 1..Len(urls)
  /\ a = Downloads!Of(c.items, Downloads!Supported) /\ a \in Seq(Downloads!Items)
  /\ v = Downloads!Of(c.items, {"vpn"}) /\ v \in Seq(Downloads!Items)
  /\ OneAtMost(a) /\ OneAtMost(v) /\ (AllWhole(a) \/ AllWhole(v))
  /\ Len(b.items) <= MaxBody => c = b /\ AllWhole(a) /\ AllWhole(v)
  /\ c.format = "json" => AllWhole(a)
Adds(c, a, v) ==
  /\ gotJson' = gotJson \o Added(c.format = "json", a)
  /\ gotUris' = gotUris \o Added(c.format = "base64", a)
  /\ gotVpns' = gotVpns \o Added(c.format = "base64", v)

\* Every body that is read is collected so.
LEMMA BodyRead ==
  ASSUME DInv, Downloads!Read
  PROVE  \E b, c, a, v : Collected(b, c, a, v) /\ Adds(c, a, v)
<1>1. PICK b, c, a, v : /\ b = body /\ c = Downloads!Cut(body)
                        /\ a = Downloads!Of(c.items, Downloads!Supported)
                        /\ v = Downloads!Of(c.items, {"vpn"})
  OBVIOUS
<1>2. b \in Bodies /\ download \in 1..Len(urls)
  BY <1>1, DAt DEF Downloads!Read, Downloads!TypeOK
<1>3. /\ Len(b.items) <= MaxBody => c = b
      /\ c.items \in Seq(Downloads!Items)
      /\ Len(b.items) > MaxBody =>
           c.format # "json" /\ \A i \in 1..Len(c.items) : ~c.items[i].whole => i = MaxBody
  BY <1>1, <1>2, CutIs
<1>4. /\ b.items \in Seq(Downloads!Items) /\ Len(b.items) \in Nat /\ MaxBody \in Nat
      /\ \A i \in 1..Len(b.items) : b.items[i].whole
  BY <1>2, BodyIs, ConstantsTyped DEF Downloads!ConstantsTyped
<1>5. OnlyAt(c.items, MaxBody)
  BY <1>3, <1>4 DEF OnlyAt
<1>6. /\ a \in Seq(Downloads!Items) /\ OneAtMost(a)
      /\ \/ AllWhole(a)
         \/ /\ MaxBody \in 1..Len(c.items) /\ ~c.items[MaxBody].whole
            /\ c.items[MaxBody].kind \in Downloads!Supported
  BY <1>1, <1>3, <1>5, OneCut
<1>7. /\ v \in Seq(Downloads!Items) /\ OneAtMost(v)
      /\ \/ AllWhole(v)
         \/ /\ MaxBody \in 1..Len(c.items) /\ ~c.items[MaxBody].whole
            /\ c.items[MaxBody].kind \in {"vpn"}
  BY <1>1, <1>3, <1>5, OneCut
<1>8. AllWhole(a) \/ AllWhole(v)
  BY <1>6, <1>7 DEF Downloads!Supported
<1>9. Len(b.items) <= MaxBody => AllWhole(a) /\ AllWhole(v)
  BY <1>3, <1>4, <1>6, <1>7
<1>10. c.format = "json" => AllWhole(a)
  BY <1>3, <1>4, <1>9
<1>11. /\ gotJson' = gotJson \o Added(c.format = "json", a)
       /\ gotUris' = gotUris \o Added(c.format = "base64", a)
       /\ gotVpns' = gotVpns \o Added(c.format = "base64", v)
  <2>1. /\ gotJson' = IF c.format = "json" THEN gotJson \o a ELSE gotJson
        /\ gotUris' = IF c.format = "base64" THEN gotUris \o a ELSE gotUris
        /\ gotVpns' = IF c.format = "base64" THEN gotVpns \o v ELSE gotVpns
    BY <1>1 DEF Downloads!Read, Downloads!Collect
  <2>2. /\ gotJson \in Seq(Downloads!Items) /\ gotUris \in Seq(Downloads!Items)
        /\ gotVpns \in Seq(Downloads!Items)
    BY DEF DInv, DTyped
  <2>3. ASSUME NEW s \in Seq(Downloads!Items) PROVE s \o <<>> = s
    OBVIOUS
  <2>4. QED
    BY <2>1, <2>2, <2>3 DEF Added
<1>12. Collected(b, c, a, v)
  BY <1>1, <1>2, <1>3, <1>6, <1>7, <1>8, <1>9, <1>10 DEF Collected
<1>13. QED
  BY <1>11, <1>12 DEF Adds

\* A body that is read keeps the invariant.
LEMMA DReads ==
  ASSUME DInv, Downloads!Read
  PROVE  DInv'
<1> DEFINE m == Len(urls)
           line == [n |-> download, step |-> "downloaded",
                    words |-> Downloads!RedactUrl(urls[download]) \cup {"bytes"}]
<1>0. PICK b, c, a, v : Collected(b, c, a, v) /\ Adds(c, a, v)
  BY BodyRead
<1>1. /\ b = body /\ b \in Bodies /\ download \in 1..Len(urls)
      /\ a = Downloads!Of(c.items, Downloads!Supported) /\ a \in Seq(Downloads!Items)
      /\ v = Downloads!Of(c.items, {"vpn"}) /\ v \in Seq(Downloads!Items)
      /\ OneAtMost(a) /\ OneAtMost(v) /\ (AllWhole(a) \/ AllWhole(v))
      /\ Len(b.items) <= MaxBody => c = b /\ AllWhole(a) /\ AllWhole(v)
      /\ c.format = "json" => AllWhole(a)
      /\ gotJson' = gotJson \o Added(c.format = "json", a)
      /\ gotUris' = gotUris \o Added(c.format = "base64", a)
      /\ gotVpns' = gotVpns \o Added(c.format = "base64", v)
  BY <1>0 DEF Collected, Adds
<1>2. /\ urls \in Seq(Urls) /\ Len(urls) \in Nat \ {0} /\ DOMAIN urls = 1..Len(urls)
      /\ download \in 1..Len(urls) /\ urls[download] \in Urls /\ b \in Bodies
      /\ got \in [1..Len(urls) -> Bodies \cup {Nil, Failed}]
      /\ \A k \in 1..Len(urls) : k >= download => got[k] = Nil
  BY <1>1, DAt
<1>3. /\ lines' = lines \cup {line} /\ got' = [got EXCEPT ![download] = b]
      /\ download' = download + 1 /\ downloadPc' = "next" /\ body' = Nil
      /\ UNCHANGED <<urls, agent, headers, hops, sent>>
  BY <1>1 DEF Downloads!Read, Downloads!Say, Downloads!config
<1>4. /\ got' \in [1..Len(urls) -> Bodies \cup {Nil, Failed}] /\ got'[download] = b
      /\ \A k \in 1..Len(urls) : k # download => got'[k] = got[k]
  BY <1>2, <1>3
<1>5. b \notin {Nil, Failed} /\ Nil # Failed /\ Nil \notin Bodies
  BY <1>2, ConstantsTyped, BodyIs DEF Downloads!ConstantsTyped
<1>6. /\ gotJson \in Seq(Downloads!Items) /\ gotUris \in Seq(Downloads!Items)
      /\ gotVpns \in Seq(Downloads!Items)
  BY DEF DInv, DTyped
<1>7. Quiet(line)
  <2>1. "bytes" \notin Downloads!Secrets
    BY ConstantsTyped DEF Downloads!ConstantsTyped, Downloads!OwnWords
  <2>2. QED
    BY <1>2, <2>1, RedactIs DEF Quiet
<1>8. \A new : new = {line} => \A l \in new : Quiet(l)
  BY <1>7
<1> HIDE DEF line
<1>9. /\ Downloads!NothingLeaks'
      /\ \A k : ToldOf(lines', k) <=> ToldOf(lines, k)
      /\ \A l \in lines' : l.step = "failed" => l \in lines
  BY <1>3, <1>8, DQuiet DEF DInv
<1>10. DTyped'
  <2>1. \A k \in 1..Len(urls) : k >= download + 1 => got'[k] = Nil
    BY <1>2, <1>4
  <2>2. /\ gotJson' \in Seq(Downloads!Items) /\ gotUris' \in Seq(Downloads!Items)
        /\ gotVpns' \in Seq(Downloads!Items)
    <3>1. ASSUME NEW s \in Seq(Downloads!Items), NEW r \in Seq(Downloads!Items), NEW fits
          PROVE  s \o Added(fits, r) \in Seq(Downloads!Items)
      BY <3>1 DEF Added
    <3>2. QED
      BY <1>1, <1>6, <3>1
  <2>3. \A i \in DOMAIN gotJson' : gotJson'[i].whole
    <3>1. \A i \in DOMAIN gotJson : gotJson[i].whole
      BY DEF DInv, DTyped, Downloads!TypeOK
    <3>2. PICK r \in Seq(Downloads!Items) :
            gotJson' = gotJson \o r /\ \A i \in 1..Len(r) : r[i].whole
      <4>1. CASE c.format = "json"
        BY <1>1, <4>1 DEF Added, AllWhole
      <4>2. CASE c.format # "json"
        <5>1. PICK r \in Seq(Downloads!Items) : r = <<>> /\ AllWhole(r)
          <6>1. <<>> \in Seq(Downloads!Items) /\ AllWhole(<<>>)
            BY DEF AllWhole
          <6>2. QED
            BY <6>1
        <5>2. QED
          BY <1>1, <4>2, <5>1 DEF Added, AllWhole
      <4>3. QED
        BY <4>1, <4>2
    <3>3. ASSUME NEW i \in DOMAIN gotJson' PROVE gotJson'[i].whole
      <4>1. i \in 1..(Len(gotJson) + Len(r)) /\ Len(gotJson) \in Nat /\ Len(r) \in Nat
        BY <1>6, <3>2
      <4>2. CASE i <= Len(gotJson)
        BY <1>6, <3>1, <3>2, <4>1, <4>2
      <4>3. CASE ~(i <= Len(gotJson))
        <5>1. i - Len(gotJson) \in 1..Len(r) /\ (gotJson \o r)[i] = r[i - Len(gotJson)]
          BY <1>6, <4>1, <4>3
        <5>2. QED
          BY <3>2, <5>1
      <4>4. QED
        BY <4>2, <4>3
    <3>4. QED
      BY <3>3
  <2>4. Downloads!TypeOK'
    BY <1>2, <1>3, <2>3 DEF DInv, DTyped, Downloads!TypeOK
  <2>5. QED
    BY <1>2, <1>3, <1>4, <2>1, <2>2, <2>4 DEF DTyped
<1>11. DTold'
  <2>1. ASSUME NEW l \in lines', l.step = "failed" PROVE l.n \in 1..download
    BY <1>2, <1>9, <2>1 DEF DInv, DTold
  <2>2. download' - 1 = download
    BY <1>2, <1>3
  <2>3. QED
    BY <2>1, <2>2 DEF DTold
<1>12. DAgent'
  BY <1>3 DEF DAgent
<1>13. Downloads!ReasonTold'
  <2>1. \A k \in 1..Len(urls) : got[k] = Failed <=> ToldOf(lines, k)
    BY <1>2 DEF DInv, Downloads!ReasonTold, ToldOf
  <2>2. \A k \in 1..Len(urls) : got'[k] = Failed <=> ToldOf(lines', k)
    <3>1. got[download] = Nil
      BY <1>2
    <3>2. QED
      BY <1>4, <1>5, <1>9, <2>1, <3>1
  <2>3. QED
    BY <1>2, <1>3, <2>2 DEF Downloads!ReasonTold, ToldOf
<1>14. DCuts'
  <2> DEFINE C == CutsOf(gotUris, gotVpns)
             D == CutsOf(gotUris', gotVpns')
             L == LongOf(got, Len(urls))
             M == LongOf(got', Len(urls))
  <2>1. Downloads!CutLinks = C /\ Downloads!LongLists = L
    BY <1>2, CutsAre
  <2>2. Downloads!CutLinks' = D /\ Downloads!LongLists' = M
    <3>1. (urls \in Seq(Urls) =>
             Downloads!CutLinks = CutsOf(gotUris, gotVpns)
             /\ Downloads!LongLists = LongOf(got, Len(urls)))'
      BY CutsAre, PTL
    <3>2. QED
      BY <1>2, <1>3, <3>1
  <2>3. IsFiniteSet(L)
    <3>1. L \subseteq 1..Len(urls)
      BY DEF LongOf
    <3>2. IsFiniteSet(1..Len(urls))
      BY <1>2, FS_Interval
    <3>3. QED
      BY <3>1, <3>2, FS_Subset
  <2>4. IsFiniteSet(C) /\ Cardinality(C) <= Cardinality(L)
    BY <2>1, SizeIs DEF DInv, DCuts, Downloads!CutOnlyLong
  <2>5. CASE ~(Len(b.items) > MaxBody)
    <3>1. M = L
      BY <1>2, <1>4, <1>5, <2>5 DEF LongOf
    <3>2. Len(b.items) <= MaxBody
      BY <1>1, <2>5, BodyIs, ConstantsTyped DEF Downloads!ConstantsTyped
    <3>3. D \subseteq C
      <4>1. CASE c.format = "base64"
        <5>1. EndsWith(gotUris', gotUris, a) /\ EndsWith(gotVpns', gotVpns, v)
          BY <1>1, <4>1 DEF Added, EndsWith
        <5>2. QED
          BY <1>1, <1>6, <3>2, <5>1, CutsStay
      <4>2. CASE c.format # "base64"
        BY <1>1, <1>6, <4>2 DEF Added
      <4>3. QED
        BY <4>1, <4>2
    <3> HIDE DEF C, D, L, M
    <3>4. QED
      BY <2>2, <2>3, <2>4, <3>1, <3>3, CutsKept, SizeIs DEF DCuts, Downloads!CutOnlyLong
  <2>6. CASE Len(b.items) > MaxBody
    <3>1. M = L \cup {download} /\ download \notin L
      BY <1>2, <1>4, <1>5, <2>6 DEF LongOf
    <3>2. \E x : D \subseteq C \cup {x}
      <4>1. CASE c.format = "base64"
        <5>1. EndsWith(gotUris', gotUris, a) /\ EndsWith(gotVpns', gotVpns, v)
          BY <1>1, <4>1 DEF Added, EndsWith
        <5>2. OneMoreAtMost(CutsOf(gotUris', gotVpns'), CutsOf(gotUris, gotVpns))
          <6>1. OneAtMost(a) /\ OneAtMost(v) /\ (AllWhole(a) \/ AllWhole(v))
                /\ a \in Seq(Downloads!Items) /\ v \in Seq(Downloads!Items)
            BY <1>1
          <6>2. QED
            BY <1>6, <5>1, <6>1, CutsGrow
        <5>3. QED
          BY <5>2 DEF OneMoreAtMost
      <4>2. CASE c.format # "base64"
        BY <1>1, <1>6, <4>2 DEF Added
      <4>3. QED
        BY <4>1, <4>2
    <3>3. PICK x : D \subseteq C \cup {x}
      BY <3>2
    <3> HIDE DEF C, D, L, M
    <3>4. QED
      BY <2>2, <2>3, <2>4, <3>1, <3>3, CutsCount, SizeIs DEF DCuts, Downloads!CutOnlyLong
  <2>7. QED
    BY <2>5, <2>6
<1>15. Downloads!NoneLost'
  <2>1. LostOf(got, Len(urls), gotJson, gotUris, gotVpns)
    BY <1>2, LostIs DEF DInv
  <2>2. SmallOf(got', Len(urls)) => SmallOf(got, Len(urls)) /\ c = b
    <3>1. ASSUME SmallOf(got', Len(urls)) PROVE SmallOf(got, Len(urls)) /\ c = b
      <4>1. Len(b.items) <= MaxBody
        BY <1>2, <1>4, <1>5, <3>1 DEF SmallOf
      <4>2. SmallOf(got, Len(urls))
        BY <1>2, <1>4, <3>1 DEF SmallOf
      <4>3. QED
        BY <1>1, <4>1, <4>2
    <3>2. QED
      BY <3>1
  <2>3. ASSUME NEW format, NEW kinds
        PROVE  EndsWith(Downloads!FlattenSeq(PartsOf(got', Len(urls), format, kinds)),
                        Downloads!FlattenSeq(PartsOf(got, Len(urls), format, kinds)),
                        YieldOf(b, format, kinds))
    <3>1. NilFrom(got, download, Len(urls))
      BY <1>2 DEF NilFrom
    <3>2. b \in Bodies \cup {Nil, Failed} /\ Len(urls) \in Nat \ {0}
      BY <1>2
    <3>3. QED
      BY <1>2, <1>3, <3>1, <3>2, ListedGrows
  <2>4. ASSUME SmallOf(got', Len(urls)), NEW format, NEW kinds
        PROVE  YieldOf(b, format, kinds) = Added(c.format = format, Downloads!Of(c.items, kinds))
    <3>1. c = b /\ Len(b.items) <= MaxBody
      BY <1>2, <1>4, <1>5, <2>2, <2>4 DEF SmallOf
    <3>2. QED
      BY <1>5, <3>1 DEF YieldOf, Added
  <2>5. LostOf(got', Len(urls)', gotJson', gotUris', gotVpns')
    <3>1. ASSUME SmallOf(got', Len(urls))
          PROVE  /\ gotJson' = Downloads!FlattenSeq(PartsOf(got', Len(urls), "json", Downloads!Supported))
                 /\ gotUris' = Downloads!FlattenSeq(PartsOf(got', Len(urls), "base64", Downloads!Supported))
                 /\ gotVpns' = Downloads!FlattenSeq(PartsOf(got', Len(urls), "base64", {"vpn"}))
      <4>1. /\ gotJson = Downloads!FlattenSeq(PartsOf(got, Len(urls), "json", Downloads!Supported))
            /\ gotUris = Downloads!FlattenSeq(PartsOf(got, Len(urls), "base64", Downloads!Supported))
            /\ gotVpns = Downloads!FlattenSeq(PartsOf(got, Len(urls), "base64", {"vpn"}))
        BY <2>1, <2>2, <3>1 DEF LostOf
      <4>2. ASSUME NEW format, NEW kinds, NEW old, NEW new,
                   old = Downloads!FlattenSeq(PartsOf(got, Len(urls), format, kinds)),
                   EndsWith(new, old, Added(c.format = format, Downloads!Of(c.items, kinds)))
            PROVE  new = Downloads!FlattenSeq(PartsOf(got', Len(urls), format, kinds))
        <5>1. YieldOf(b, format, kinds) = Added(c.format = format, Downloads!Of(c.items, kinds))
          BY <2>4, <3>1
        <5>2. EndsWith(Downloads!FlattenSeq(PartsOf(got', Len(urls), format, kinds)), old,
                       YieldOf(b, format, kinds))
          BY <2>3, <4>2
        <5>3. QED
          BY <4>2, <5>1, <5>2 DEF EndsWith
      <4>3. /\ EndsWith(gotJson', gotJson, Added(c.format = "json", a))
            /\ EndsWith(gotUris', gotUris, Added(c.format = "base64", a))
            /\ EndsWith(gotVpns', gotVpns, Added(c.format = "base64", v))
        BY <1>1 DEF EndsWith
      <4>4. a = Downloads!Of(c.items, Downloads!Supported) /\ v = Downloads!Of(c.items, {"vpn"})
        BY <1>1
      <4>5. gotJson' = Downloads!FlattenSeq(PartsOf(got', Len(urls), "json", Downloads!Supported))
        BY <4>1, <4>2, <4>3, <4>4
      <4>6. gotUris' = Downloads!FlattenSeq(PartsOf(got', Len(urls), "base64", Downloads!Supported))
        BY <4>1, <4>2, <4>3, <4>4
      <4>7. gotVpns' = Downloads!FlattenSeq(PartsOf(got', Len(urls), "base64", {"vpn"}))
        BY <4>1, <4>2, <4>3, <4>4
      <4>8. QED
        BY <4>5, <4>6, <4>7
    <3>2. QED
      BY <1>3, <3>1 DEF LostOf
  <2>6. (urls \in Seq(Urls) =>
          (Downloads!NoneLost <=> LostOf(got, Len(urls), gotJson, gotUris, gotVpns)))'
    BY LostIs, PTL
  <2>7. QED
    BY <1>2, <1>3, <2>5, <2>6
<1>16. QED
  BY <1>9, <1>10, <1>11, <1>12, <1>13, <1>14, <1>15 DEF DInv

\* Every step of the downloads keeps the invariant.
LEMMA DNextHolds == DInv /\ [Downloads!Next]_(Downloads!vars) => DInv'
<1> SUFFICES ASSUME DInv, [Downloads!Next]_(Downloads!vars) PROVE DInv'
  OBVIOUS
<1>1. CASE Downloads!Next
  BY <1>1, DAsks, DEnds, DReads DEF Downloads!Next
<1>2. CASE UNCHANGED Downloads!vars
  <2>1. UNCHANGED <<urls, agent, headers, download, downloadPc, hops, sent, body,
                    gotJson, gotUris, gotVpns, lines, got>>
    BY <1>2 DEF Downloads!vars
  <2>2. Downloads!TypeOK' /\ DAgent'
    BY <2>1, DAt DEF Downloads!TypeOK, DInv, DAgent, Downloads!RequestHeaders, Downloads!Resolved
  <2>3. QED
    BY <2>1, <2>2, DAt, DSilent
<1>3. QED
  BY <1>1, <1>2

-----------------------------------------------------------------------------
(***************************************************************************)
(* Outbound: one outbound, read and written.                               *)
(***************************************************************************)
Fields ==
  {"protocol", "host", "port", "uuid", "encryption", "flow", "alter_id", "vmess_security",
   "password", "method", "network", "security", "sni", "fingerprint", "alpn", "path", "host_header",
   "service_name", "mode", "header_type"}

\* Parameters in which every field has a value.
Full(p) == DOMAIN p = Fields /\ \A f \in Fields : p[f] # Absent

\* The defaults of ProxyParams.
LEMMA DefaultsAre ==
  /\ Full(Out!DefaultParams)
  /\ Absent # Out!Empty /\ Absent # "none" /\ Absent # "auto" /\ Absent # "tcp" /\ Absent # <<>>
  /\ Out!DefaultParams.alter_id = 0 /\ Out!DefaultParams.header_type = Out!Empty
<1>1. DOMAIN Out!DefaultParams = Fields
  BY DEF Out!DefaultParams, Fields
<1>2. \A field \in Fields : Absent # Out!DefaultParams[field]
  BY <1>1, ConstantsTyped DEF Out!ConstantsTyped
<1>3. /\ Out!DefaultParams["flow"] = Out!Empty /\ Out!DefaultParams["encryption"] = "none"
      /\ Out!DefaultParams["vmess_security"] = "auto" /\ Out!DefaultParams["network"] = "tcp"
      /\ Out!DefaultParams["alpn"] = <<>> /\ Out!DefaultParams.alter_id = 0
      /\ Out!DefaultParams.header_type = Out!Empty
  BY DEF Out!DefaultParams
<1>4. {"flow", "encryption", "vmess_security", "network", "alpn"} \subseteq Fields
  BY DEF Fields
<1>5. QED
  BY <1>1, <1>2, <1>3, <1>4 DEF Full

\* Parameters are those of every field a value, and their numbers within their types.
LEMMA ParamsAre ==
  ASSUME NEW p
  PROVE  Out!IsParams(p) <=>
           /\ Full(p) /\ p.protocol \in Out!Protocols
           /\ p.port \in 0..Out!MaxPort /\ p.alter_id \in 0..AlterIds - 1
<1>1. DOMAIN Out!DefaultParams = Fields
  BY DefaultsAre DEF Full
<1>2. QED
  BY <1>1, Zenon DEF Out!IsParams, Full

\* What a key is read as has a value.
LEMMA GetIs ==
  ASSUME NEW v, NEW d, d # Absent
  PROVE  Out!Get(v, d) # Absent /\ (v = Absent => Out!Get(v, d) = d) /\ (v # Absent => Out!Get(v, d) = v)
BY DEF Out!Get

\* Parameters with the fields of a protocol, a network or a stream set.
WithPassword(p, a) ==
  [p EXCEPT !.password = a]
WithMethod(p, a, b) ==
  [p EXCEPT !.method = a, !.password = b]
WithUser(p, a, b, c) ==
  [p EXCEPT !.uuid = a, !.encryption = b, !.flow = c]
WithVmess(p, a, b, c) ==
  [p EXCEPT !.uuid = a, !.alter_id = b, !.vmess_security = c]
WithServer(p, a, b, c) ==
  [p EXCEPT !.protocol = a, !.host = b, !.port = c]
WithGrpc(p, a, b) ==
  [p EXCEPT !.service_name = a, !.mode = b]
WithPath(p, a, b) ==
  [p EXCEPT !.path = a, !.host_header = b]
WithHttp(p, a, b, c) ==
  [p EXCEPT !.header_type = a, !.path = b, !.host_header = c]
WithStream(p, a, b, c, d, e) ==
  [p EXCEPT !.network = a, !.security = b, !.sni = c, !.fingerprint = d, !.alpn = e]

\* Those fields are set to what they are given, and the others are as they were.
LEMMA WithPasswordIs ==
  ASSUME NEW p, Full(p), NEW a, a # Absent, NEW q,
         q = WithPassword(p, a)
  PROVE  /\ Full(q) /\ q.password = a
         /\ \A f \in Fields \ {"password"} : q[f] = p[f]
BY DEF Fields, Full, WithPassword
LEMMA WithMethodIs ==
  ASSUME NEW p, Full(p), NEW a, a # Absent, NEW b, b # Absent, NEW q,
         q = WithMethod(p, a, b)
  PROVE  /\ Full(q) /\ q.method = a /\ q.password = b
         /\ \A f \in Fields \ {"method", "password"} : q[f] = p[f]
BY DEF Fields, Full, WithMethod
LEMMA WithUserIs ==
  ASSUME NEW p, Full(p), NEW a, a # Absent, NEW b, b # Absent, NEW c, c # Absent, NEW q,
         q = WithUser(p, a, b, c)
  PROVE  /\ Full(q) /\ q.uuid = a /\ q.encryption = b /\ q.flow = c
         /\ \A f \in Fields \ {"uuid", "encryption", "flow"} : q[f] = p[f]
BY DEF Fields, Full, WithUser
LEMMA WithVmessIs ==
  ASSUME NEW p, Full(p), NEW a, a # Absent, NEW b, b # Absent, NEW c, c # Absent, NEW q,
         q = WithVmess(p, a, b, c)
  PROVE  /\ Full(q) /\ q.uuid = a /\ q.alter_id = b /\ q.vmess_security = c
         /\ \A f \in Fields \ {"uuid", "alter_id", "vmess_security"} : q[f] = p[f]
BY DEF Fields, Full, WithVmess
LEMMA WithServerIs ==
  ASSUME NEW p, Full(p), NEW a, a # Absent, NEW b, b # Absent, NEW c, c # Absent, NEW q,
         q = WithServer(p, a, b, c)
  PROVE  /\ Full(q) /\ q.protocol = a /\ q.host = b /\ q.port = c
         /\ \A f \in Fields \ {"protocol", "host", "port"} : q[f] = p[f]
BY DEF Fields, Full, WithServer
LEMMA WithGrpcIs ==
  ASSUME NEW p, Full(p), NEW a, a # Absent, NEW b, b # Absent, NEW q,
         q = WithGrpc(p, a, b)
  PROVE  /\ Full(q) /\ q.service_name = a /\ q.mode = b
         /\ \A f \in Fields \ {"service_name", "mode"} : q[f] = p[f]
BY DEF Fields, Full, WithGrpc
LEMMA WithPathIs ==
  ASSUME NEW p, Full(p), NEW a, a # Absent, NEW b, b # Absent, NEW q,
         q = WithPath(p, a, b)
  PROVE  /\ Full(q) /\ q.path = a /\ q.host_header = b
         /\ \A f \in Fields \ {"path", "host_header"} : q[f] = p[f]
BY DEF Fields, Full, WithPath
LEMMA WithHttpIs ==
  ASSUME NEW p, Full(p), NEW a, a # Absent, NEW b, b # Absent, NEW c, c # Absent, NEW q,
         q = WithHttp(p, a, b, c)
  PROVE  /\ Full(q) /\ q.header_type = a /\ q.path = b /\ q.host_header = c
         /\ \A f \in Fields \ {"header_type", "path", "host_header"} : q[f] = p[f]
BY DEF Fields, Full, WithHttp
LEMMA WithStreamIs ==
  ASSUME NEW p, Full(p), NEW a, a # Absent, NEW b, b # Absent, NEW c, c # Absent,
         NEW d, d # Absent, NEW e, e # Absent, NEW q,
         q = WithStream(p, a, b, c, d, e)
  PROVE  /\ Full(q) /\ q.network = a /\ q.security = b /\ q.sni = c /\ q.fingerprint = d /\ q.alpn = e
         /\ \A f \in Fields \ {"network", "security", "sni", "fingerprint", "alpn"} : q[f] = p[f]
<1>1. DOMAIN q = Fields /\ q.network = a /\ q.security = b /\ q.sni = c /\ q.fingerprint = d /\ q.alpn = e
      /\ \A f \in Fields \ {"network", "security", "sni", "fingerprint", "alpn"} : q[f] = p[f]
  BY DEF Fields, Full, WithStream
<1>2. QED
  BY <1>1 DEF Full

\* A port that is read is one; an alterId fits its type.
LEMMA PortIs ==
  ASSUME NEW x \in Nat \cup {Absent}, Out!ExtractPort(x) # Refused
  PROVE  x \in 0..Out!MaxPort /\ Out!ExtractPort(x) = x /\ Out!ExtractPort(x) # Absent
<1>1. Absent \notin Nat
  BY ConstantsTyped DEF Out!ConstantsTyped
<1>2. QED
  BY <1>1 DEF Out!ExtractPort, Out!MaxPort
LEMMA AlterIdIs ==
  ASSUME NEW x \in Nat \cup {Absent}
  PROVE  Out!ExtractAlterId(x) \in 0..AlterIds - 1 /\ Out!ExtractAlterId(x) # Absent
<1>1. AlterIds \in Nat \ {0} /\ Absent \notin Nat
  BY ConstantsTyped DEF Out!ConstantsTyped
<1>2. Out!ExtractAlterId(x) \in 0..AlterIds - 1
  BY <1>1 DEF Out!ExtractAlterId
<1>3. QED
  BY <1>1, <1>2

\* The settings that are read of an outbound with the keys k.
SettingsRead(p, o, k) ==
  /\ p.protocol = o.protocol /\ p.host = o.settings.address /\ p.port = o.settings.port
  /\ o.protocol = "vless" =>
       /\ p.uuid = k.id /\ p.encryption = Out!Get(k.encryption, "none")
       /\ p.flow = Out!Get(k.flow, Out!Empty)
  /\ o.protocol = "vmess" =>
       /\ p.uuid = k.id /\ p.alter_id = Out!ExtractAlterId(k.alterId)
       /\ p.vmess_security = Out!Get(k.security, "auto")
  /\ o.protocol = "trojan" => p.password = k.password
  /\ o.protocol = "shadowsocks" => p.method = k.method /\ p.password = k.password

\* ReadSettings of an outbound that is not skipped.
LEMMA SettingsAre ==
  ASSUME NEW o, {o.settings.port, o.settings.keys.alterId} \subseteq Nat \cup {Absent},
         ~Out!Unreadable(o), NEW p, p = Out!ReadSettings(o), NEW k, k = o.settings.keys
  PROVE  Out!IsParams(p) /\ p.header_type = Out!Empty /\ SettingsRead(p, o, k)
<1>1. PICK d : d = WithServer(Out!DefaultParams, o.protocol, o.settings.address,
                                 Out!ExtractPort(o.settings.port))
  OBVIOUS
<1>2. /\ o.protocol \in Out!Protocols /\ o.settings.address # Absent
      /\ Out!ExtractPort(o.settings.port) # Refused
      /\ \A key \in Out!Needed(o.protocol) : k[key] # Absent
  BY DEF Out!Unreadable
<1>3. /\ o.settings.port \in 0..Out!MaxPort /\ Out!ExtractPort(o.settings.port) = o.settings.port
      /\ Out!ExtractPort(o.settings.port) # Absent
  <2>1. o.settings.port \in Nat \cup {Absent}
    OBVIOUS
  <2>2. QED
    BY <1>2, <2>1, PortIs, Zenon
<1>4. Out!ExtractAlterId(k.alterId) \in 0..AlterIds - 1 /\ Out!ExtractAlterId(k.alterId) # Absent
  BY AlterIdIs
<1>5. /\ Out!Get(k.encryption, "none") # Absent /\ Out!Get(k.flow, Out!Empty) # Absent
      /\ Out!Get(k.security, "auto") # Absent
  BY DefaultsAre, GetIs
<1>6. Absent \notin Out!Protocols
  BY ConstantsTyped DEF Out!ConstantsTyped
<1>7. /\ Full(d) /\ d.protocol = o.protocol /\ d.host = o.settings.address /\ d.port = o.settings.port
      /\ d.alter_id = 0 /\ d.header_type = Out!Empty
  <2>1. /\ Full(d) /\ d.protocol = o.protocol /\ d.host = o.settings.address
        /\ d.port = Out!ExtractPort(o.settings.port)
        /\ \A f \in Fields \ {"protocol", "host", "port"} : d[f] = Out!DefaultParams[f]
    <3>1. o.protocol # Absent
      BY <1>2, <1>6
    <3>2. QED
      BY <1>1, <1>2, <1>3, <3>1, DefaultsAre, WithServerIs
  <2>2. {"alter_id", "header_type"} \subseteq Fields \ {"protocol", "host", "port"}
    BY DEF Fields
  <2>3. QED
    BY <1>3, <2>1, <2>2, DefaultsAre, Zenon
<1>8. 0 \in 0..AlterIds - 1
  BY ConstantsTyped DEF Out!ConstantsTyped
<1>9. CASE o.protocol = "vless"
  <2>1. p = WithUser(d, k.id, Out!Get(k.encryption, "none"), Out!Get(k.flow, Out!Empty))
    BY <1>1, <1>9 DEF Out!ReadSettings, WithServer, WithUser
  <2>2. k.id # Absent
    BY <1>2, <1>9 DEF Out!Needed
  <2>3. /\ Full(p) /\ p.uuid = k.id /\ p.encryption = Out!Get(k.encryption, "none")
        /\ p.flow = Out!Get(k.flow, Out!Empty)
        /\ \A f \in Fields \ {"uuid", "encryption", "flow"} : p[f] = d[f]
    BY <1>5, <1>7, <2>1, <2>2, WithUserIs
  <2>4. {"protocol", "host", "port", "alter_id", "header_type"}
          \subseteq Fields \ {"uuid", "encryption", "flow"}
    BY DEF Fields
  <2>5. QED
    BY <1>2, <1>3, <1>7, <1>8, <1>9, <2>3, <2>4, ParamsAre, Zenon DEF SettingsRead
<1>10. CASE o.protocol = "vmess"
  <2>1. p = WithVmess(d, k.id, Out!ExtractAlterId(k.alterId), Out!Get(k.security, "auto"))
    BY <1>1, <1>10 DEF Out!ReadSettings, WithServer, WithVmess
  <2>2. k.id # Absent
    BY <1>2, <1>10 DEF Out!Needed
  <2>3. /\ Full(p) /\ p.uuid = k.id /\ p.alter_id = Out!ExtractAlterId(k.alterId)
        /\ p.vmess_security = Out!Get(k.security, "auto")
        /\ \A f \in Fields \ {"uuid", "alter_id", "vmess_security"} : p[f] = d[f]
    BY <1>4, <1>5, <1>7, <2>1, <2>2, WithVmessIs
  <2>4. {"protocol", "host", "port", "header_type"}
          \subseteq Fields \ {"uuid", "alter_id", "vmess_security"}
    BY DEF Fields
  <2>5. QED
    BY <1>2, <1>3, <1>4, <1>7, <1>10, <2>3, <2>4, ParamsAre, Zenon DEF SettingsRead
<1>11. CASE o.protocol = "trojan"
  <2>1. p = WithPassword(d, k.password)
    BY <1>1, <1>11 DEF Out!ReadSettings, WithServer, WithPassword
  <2>2. k.password # Absent
    BY <1>2, <1>11 DEF Out!Needed
  <2>3. Full(p) /\ p.password = k.password /\ \A f \in Fields \ {"password"} : p[f] = d[f]
    BY <1>7, <2>1, <2>2, WithPasswordIs
  <2>4. {"protocol", "host", "port", "alter_id", "header_type"} \subseteq Fields \ {"password"}
    BY DEF Fields
  <2>5. QED
    BY <1>2, <1>3, <1>7, <1>8, <1>11, <2>3, <2>4, ParamsAre, Zenon DEF SettingsRead
<1>12. CASE o.protocol = "shadowsocks"
  <2>1. p = WithMethod(d, k.method, k.password)
    BY <1>1, <1>12 DEF Out!ReadSettings, WithServer, WithMethod
  <2>2. k.method # Absent /\ k.password # Absent
    BY <1>2, <1>12 DEF Out!Needed
  <2>3. /\ Full(p) /\ p.method = k.method /\ p.password = k.password
        /\ \A f \in Fields \ {"method", "password"} : p[f] = d[f]
    BY <1>7, <2>1, <2>2, WithMethodIs
  <2>4. {"protocol", "host", "port", "alter_id", "header_type"} \subseteq Fields \ {"method", "password"}
    BY DEF Fields
  <2>5. QED
    BY <1>2, <1>3, <1>7, <1>8, <1>12, <2>3, <2>4, ParamsAre, Zenon DEF SettingsRead
<1>13. QED
  BY <1>2, <1>9, <1>10, <1>11, <1>12 DEF Out!Protocols

\* No text is another.
LEMMA EmptyIs == Out!Empty # "http" /\ Out!Empty # "multi" /\ Out!Empty # "/" /\ Out!Empty # "reality"
BY Zenon DEF Out!Empty

\* What is read of the stream s with the transport t.
StreamRead(q, s, t) ==
  /\ q.network = Out!Get(s.network, "tcp") /\ q.security = Out!Get(s.security, Out!Empty)
  /\ q.sni = Out!Get(s.serverName, Out!Empty) /\ q.fingerprint = Out!Get(s.fingerprint, Out!Empty)
  /\ q.alpn = Out!Get(s.alpn, <<>>)
  /\ q.network = "grpc" =>
       /\ q.service_name = Out!Get(t.serviceName, Out!Empty)
       /\ q.mode = (IF t.multiMode = TRUE THEN "multi" ELSE Out!Empty)
  /\ q.network \in {"ws", "h2"} \/ (q.network = "tcp" /\ t.headerType = "http") =>
       q.path = Out!Get(t.path, Out!Empty) /\ q.host_header = Out!Get(t.host, Out!Empty)
  /\ q.network = "tcp" => ((q.header_type = "http") <=> (t.headerType = "http"))

\* ReadStream for an outbound that is not skipped: the settings stay as they are.
LEMMA StreamAre ==
  ASSUME NEW s, NEW p, Out!IsParams(p), p.header_type = Out!Empty, NEW q, q = Out!ReadStream(p, s),
         NEW t, t = s.transport, Out!Get(s.network, "tcp") \in Out!Networks,
         NEW o, NEW k, SettingsRead(p, o, k)
  PROVE  Out!IsParams(q) /\ SettingsRead(q, o, k) /\ StreamRead(q, s, t)
<1> DEFINE Others == {"protocol", "host", "port", "uuid", "encryption", "flow", "alter_id",
                      "vmess_security", "password", "method"}
           Mode == IF t.multiMode = TRUE THEN "multi" ELSE Out!Empty
           Same(x, y, S) == \A f \in Fields \ S : x[f] = y[f]
<1>1. PICK r : r = WithStream(p, Out!Get(s.network, "tcp"), Out!Get(s.security, Out!Empty),
                              Out!Get(s.serverName, Out!Empty), Out!Get(s.fingerprint, Out!Empty),
                              Out!Get(s.alpn, <<>>))
  OBVIOUS
<1>2. Full(p) /\ p.protocol \in Out!Protocols /\ p.port \in 0..Out!MaxPort /\ p.alter_id \in 0..AlterIds - 1
  BY ParamsAre
<1>3. \A v : /\ Out!Get(v, Out!Empty) # Absent /\ Out!Get(v, "tcp") # Absent /\ Out!Get(v, <<>>) # Absent
  BY DefaultsAre, GetIs
<1>4. Mode # Absent /\ "http" # Absent
  <2>1. Absent # "http" /\ Absent # "multi"
    BY ConstantsTyped DEF Out!ConstantsTyped
  <2>2. QED
    BY <2>1, DefaultsAre
<1>5. /\ Full(r) /\ r.network = Out!Get(s.network, "tcp") /\ r.security = Out!Get(s.security, Out!Empty)
      /\ r.sni = Out!Get(s.serverName, Out!Empty) /\ r.fingerprint = Out!Get(s.fingerprint, Out!Empty)
      /\ r.alpn = Out!Get(s.alpn, <<>>)
      /\ Same(r, p, {"network", "security", "sni", "fingerprint", "alpn"})
  BY <1>1, <1>2, <1>3, WithStreamIs
<1> DEFINE FieldsKept == Others \cup {"network", "security", "sni", "fingerprint", "alpn"}
<1>6. SUFFICES
        /\ Full(q) /\ \A f \in FieldsKept : q[f] = r[f]
        /\ r.network = "grpc" => q.service_name = Out!Get(t.serviceName, Out!Empty) /\ q.mode = Mode
        /\ r.network \in {"ws", "h2"} \/ (r.network = "tcp" /\ t.headerType = "http") =>
             /\ q.path = Out!Get(t.path, Out!Empty) /\ q.host_header = Out!Get(t.host, Out!Empty)
        /\ r.network = "tcp" => ((q.header_type = "http") <=> (t.headerType = "http"))
  <2>1. Others \subseteq Fields \ {"network", "security", "sni", "fingerprint", "alpn"}
    BY DEF Fields
  <2>2. \A f \in Others : q[f] = p[f]
    BY <1>5, <1>6, <2>1
  <2>3. q.protocol = p.protocol /\ q.port = p.port /\ q.alter_id = p.alter_id
    BY <2>2
  <2>4. Out!IsParams(q)
    BY <1>2, <1>6, <2>3, ParamsAre
  <2>5. /\ q.network = r.network /\ q.security = r.security /\ q.sni = r.sni
        /\ q.fingerprint = r.fingerprint /\ q.alpn = r.alpn
    BY <1>6
  <2>6. SettingsRead(q, o, k)
    <3>1. /\ q.protocol = p.protocol /\ q.host = p.host /\ q.port = p.port /\ q.uuid = p.uuid
          /\ q.encryption = p.encryption /\ q.flow = p.flow /\ q.alter_id = p.alter_id
          /\ q.vmess_security = p.vmess_security /\ q.password = p.password /\ q.method = p.method
      BY <2>2
    <3>2. QED
      BY <3>1, Zenon DEF SettingsRead
  <2>7. QED
    BY <1>5, <1>6, <2>4, <2>5, <2>6, Zenon DEF StreamRead
<1>7. r.header_type # "http"
  <2>1. "header_type" \in Fields \ {"network", "security", "sni", "fingerprint", "alpn"}
    BY DEF Fields
  <2>2. QED
    BY <1>5, <2>1, EmptyIs
<1>8. CASE r.network = "grpc"
  <2>1. q = WithGrpc(r, Out!Get(t.serviceName, Out!Empty), Mode)
    BY <1>1, <1>8 DEF Out!ReadStream, WithGrpc, WithStream
  <2>2. /\ Full(q) /\ q.service_name = Out!Get(t.serviceName, Out!Empty) /\ q.mode = Mode
        /\ Same(q, r, {"service_name", "mode"})
    BY <1>3, <1>4, <1>5, <2>1, WithGrpcIs
  <2>3. FieldsKept \subseteq Fields \ {"service_name", "mode"}
    BY DEF Fields
  <2>4. QED
    BY <1>8, <2>2, <2>3
<1>9. CASE r.network \in {"ws", "h2"}
  <2>1. q = WithPath(r, Out!Get(t.path, Out!Empty), Out!Get(t.host, Out!Empty))
    BY <1>1, <1>9 DEF Out!ReadStream, WithPath, WithStream
  <2>2. /\ Full(q) /\ q.path = Out!Get(t.path, Out!Empty) /\ q.host_header = Out!Get(t.host, Out!Empty)
        /\ Same(q, r, {"path", "host_header"})
    BY <1>3, <1>5, <2>1, WithPathIs
  <2>3. FieldsKept \subseteq Fields \ {"path", "host_header"}
    BY DEF Fields
  <2>4. QED
    BY <1>9, <2>2, <2>3
<1>10. CASE r.network = "tcp" /\ t.headerType = "http"
  <2>1. q = WithHttp(r, "http", Out!Get(t.path, Out!Empty), Out!Get(t.host, Out!Empty))
    BY <1>1, <1>10 DEF Out!ReadStream, WithHttp, WithStream
  <2>2. /\ Full(q) /\ q.header_type = "http" /\ q.path = Out!Get(t.path, Out!Empty)
        /\ q.host_header = Out!Get(t.host, Out!Empty)
        /\ Same(q, r, {"header_type", "path", "host_header"})
    BY <1>3, <1>4, <1>5, <2>1, WithHttpIs
  <2>3. FieldsKept \subseteq Fields \ {"header_type", "path", "host_header"}
    BY DEF Fields
  <2>4. QED
    BY <1>10, <2>2, <2>3
<1>11. CASE r.network = "tcp" /\ t.headerType # "http"
  <2>1. q = r
    BY <1>1, <1>11 DEF Out!ReadStream, WithStream
  <2>2. QED
    BY <1>5, <1>7, <1>11, <2>1
<1>12. QED
  BY <1>5, <1>8, <1>9, <1>10, <1>11 DEF Out!Networks

\* What is put into a key is read of it again.
LEMMA PutIs ==
  ASSUME NEW v, v # Absent
  PROVE  Out!Get(Out!Put(v), Out!Empty) = v /\ Out!Get(v, "tcp") = v /\ Out!Get(v, "none") = v
         /\ Out!Get(v, "auto") = v /\ Out!Get(v, 0) = v /\ Out!Get(v, Out!Empty) = v
BY DefaultsAre DEF Out!Get, Out!Put

\* What is written of parameters.
LEMMA KeysAre ==
  ASSUME NEW p, Out!IsParams(p), NEW w, w = Out!Written(p), NEW k, k = w.settings.keys
  PROVE  /\ w.protocol = p.protocol /\ w.settings.address = p.host /\ w.settings.port = p.port
         /\ p.protocol = "vless" =>
              k.id = p.uuid /\ k.encryption = p.encryption /\ k.flow = Out!Put(p.flow) /\ k.alterId = Absent
         /\ p.protocol = "vmess" =>
              k.id = p.uuid /\ k.alterId = p.alter_id /\ k.security = p.vmess_security
         /\ p.protocol = "trojan" => k.password = p.password /\ k.alterId = Absent
         /\ p.protocol = "shadowsocks" =>
              k.method = p.method /\ k.password = p.password /\ k.alterId = Absent
<1>1. /\ w.protocol = p.protocol /\ w.settings = Out!BuildOutboundSettings(p)
  BY DEF Out!Written
<1>2. p.protocol \in Out!Protocols
  BY ParamsAre
<1> DEFINE none == [id |-> Absent, encryption |-> Absent, flow |-> Absent,
                    alterId |-> Absent, security |-> Absent, method |-> Absent, password |-> Absent]
<1>3. w.settings.address = p.host /\ w.settings.port = p.port
  BY <1>1 DEF Out!BuildOutboundSettings
<1>4. CASE p.protocol = "vless"
  <2>1. k = [none EXCEPT !.id = p.uuid, !.encryption = p.encryption, !.flow = Out!Put(p.flow)]
    BY <1>1, <1>4 DEF Out!BuildOutboundSettings
  <2>2. k.id = p.uuid /\ k.encryption = p.encryption /\ k.flow = Out!Put(p.flow) /\ k.alterId = Absent
    BY <2>1
  <2>3. QED
    BY <1>1, <1>3, <1>4, <2>2
<1>5. CASE p.protocol = "vmess"
  <2>1. k = [none EXCEPT !.id = p.uuid, !.alterId = p.alter_id, !.security = p.vmess_security]
    BY <1>1, <1>5 DEF Out!BuildOutboundSettings
  <2>2. k.id = p.uuid /\ k.alterId = p.alter_id /\ k.security = p.vmess_security
    BY <2>1
  <2>3. QED
    BY <1>1, <1>3, <1>5, <2>2
<1>6. CASE p.protocol = "trojan"
  <2>1. k = [none EXCEPT !.password = p.password]
    BY <1>1, <1>6 DEF Out!BuildOutboundSettings
  <2>2. k.password = p.password /\ k.alterId = Absent
    BY <2>1
  <2>3. QED
    BY <1>1, <1>3, <1>6, <2>2
<1>7. CASE p.protocol = "shadowsocks"
  <2>1. k = [none EXCEPT !.method = p.method, !.password = p.password]
    BY <1>1, <1>7 DEF Out!BuildOutboundSettings
  <2>2. k.method = p.method /\ k.password = p.password /\ k.alterId = Absent
    BY <2>1
  <2>3. QED
    BY <1>1, <1>3, <1>7, <2>2
<1>8. QED
  BY <1>2, <1>4, <1>5, <1>6, <1>7 DEF Out!Protocols

LEMMA TransportIs ==
  ASSUME NEW p, NEW t, t = Out!Transport(p), p.network \in Out!Networks
  PROVE  /\ p.network = "grpc" =>
              /\ t.serviceName = Out!Put(p.service_name)
              /\ t.multiMode = (IF p.mode = Out!Empty THEN Absent ELSE p.mode = "multi")
         /\ p.network \in {"ws", "h2"} =>
              t.path = Out!Put(p.path) /\ t.host = Out!Put(p.host_header)
         /\ p.network = "tcp" /\ p.header_type = "http" =>
              /\ t.headerType = "http" /\ t.path = (IF p.path = Out!Empty THEN "/" ELSE p.path)
              /\ t.host = (IF p.host_header = Out!Empty THEN p.host ELSE p.host_header)
         /\ p.network = "tcp" /\ p.header_type # "http" => t.headerType = Absent
<1>1. CASE p.network = "grpc"
  BY <1>1 DEF Out!Transport, Out!NoTransport
<1>2. CASE p.network \in {"ws", "h2"}
  BY <1>2 DEF Out!Transport, Out!NoTransport
<1>3. CASE p.network = "tcp" /\ p.header_type = "http"
  BY <1>3 DEF Out!Transport, Out!NoTransport
<1>4. CASE p.network = "tcp" /\ p.header_type # "http"
  BY <1>4 DEF Out!Transport, Out!NoTransport
<1>5. QED
  BY <1>1, <1>2, <1>3, <1>4 DEF Out!Networks

LEMMA StreamWritten ==
  ASSUME NEW p, NEW w, w = Out!Written(p), NEW s, s = w.stream
  PROVE  /\ s.network = p.network /\ s.security = p.security /\ s.serverName = Out!Put(p.sni)
         /\ s.fingerprint = Out!Put(p.fingerprint)
         /\ s.alpn = (IF p.alpn = <<>> THEN Absent ELSE p.alpn) /\ s.transport = Out!Transport(p)
<1>1. s = Out!BuildStreamSettings(p)
  BY DEF Out!Written
<1>2. QED
  BY <1>1 DEF Out!BuildStreamSettings

-----------------------------------------------------------------------------
\* What parameters mean to xray once they are written.
AccountOf(p) ==
  CASE p.protocol = "vless" -> <<p.uuid, p.encryption, p.flow>>
    [] p.protocol = "vmess" -> <<p.uuid, p.alter_id, p.vmess_security>>
    [] p.protocol = "trojan" -> <<p.password>>
    [] p.protocol = "shadowsocks" -> <<p.method, p.password>>
HttpOf(p) == p.network = "tcp" /\ p.header_type = "http"
PathOf(p) ==
  IF p.network \in {"ws", "h2"} THEN p.path
  ELSE IF HttpOf(p) THEN IF p.path = Out!Empty THEN "/" ELSE p.path ELSE Out!Empty
HostOf(p) ==
  IF p.network \in {"ws", "h2"} THEN p.host_header
  ELSE IF HttpOf(p) THEN IF p.host_header = Out!Empty THEN p.host ELSE p.host_header ELSE Out!Empty
ServiceOf(p) == IF p.network = "grpc" THEN <<p.service_name, p.mode = "multi">> ELSE <<>>
MeaningOf(p) ==
  [protocol |-> p.protocol, address |-> p.host, port |-> p.port, account |-> AccountOf(p),
   security |-> p.security, network |-> p.network, tls |-> <<p.sni, p.fingerprint, p.alpn>>,
   path |-> PathOf(p), host |-> HostOf(p), service |-> ServiceOf(p), http |-> HttpOf(p)]

\* What an outbound means, part by part.
AccountIn(o) ==
  LET k == o.settings.keys
  IN  CASE o.protocol = "vless" -> <<k.id, Out!Get(k.encryption, "none"), Out!Get(k.flow, Out!Empty)>>
        [] o.protocol = "vmess" -> <<k.id, Out!Get(k.alterId, 0), Out!Get(k.security, "auto")>>
        [] o.protocol = "trojan" -> <<k.password>>
        [] o.protocol = "shadowsocks" -> <<k.method, k.password>>
HttpIn(s) == Out!Get(s.network, "tcp") = "tcp" /\ s.transport.headerType = "http"
PathIn(s) ==
  IF Out!Get(s.network, "tcp") \in {"ws", "h2"} \/ HttpIn(s)
  THEN Out!Get(s.transport.path, Out!Empty) ELSE Out!Empty
HostIn(s) ==
  IF Out!Get(s.network, "tcp") \in {"ws", "h2"} \/ HttpIn(s)
  THEN Out!Get(s.transport.host, Out!Empty) ELSE Out!Empty
ServiceIn(s) ==
  IF Out!Get(s.network, "tcp") = "grpc"
  THEN <<Out!Get(s.transport.serviceName, Out!Empty), s.transport.multiMode = TRUE>> ELSE <<>>

\* Parts that agree mean the same.
LEMMA MeaningIs ==
  ASSUME NEW o, NEW p, o.protocol = p.protocol, o.settings.address = p.host, o.settings.port = p.port,
         AccountIn(o) = AccountOf(p), Out!Get(o.stream.security, Out!Empty) = p.security,
         Out!Get(o.stream.network, "tcp") = p.network,
         Out!Get(o.stream.serverName, Out!Empty) = p.sni,
         Out!Get(o.stream.fingerprint, Out!Empty) = p.fingerprint, Out!Get(o.stream.alpn, <<>>) = p.alpn,
         PathIn(o.stream) = PathOf(p), HostIn(o.stream) = HostOf(p),
         ServiceIn(o.stream) = ServiceOf(p), HttpIn(o.stream) = HttpOf(p)
  PROVE  Out!Meaning(o) = MeaningOf(p)
<1>1. Out!Meaning(o) =
        [protocol |-> o.protocol, address |-> o.settings.address, port |-> o.settings.port,
         account |-> AccountIn(o), security |-> Out!Get(o.stream.security, Out!Empty),
         network |-> Out!Get(o.stream.network, "tcp"),
         tls |-> <<Out!Get(o.stream.serverName, Out!Empty), Out!Get(o.stream.fingerprint, Out!Empty),
                   Out!Get(o.stream.alpn, <<>>)>>,
         path |-> PathIn(o.stream), host |-> HostIn(o.stream), service |-> ServiceIn(o.stream),
         http |-> HttpIn(o.stream)]
  BY Zenon DEF Out!Meaning, AccountIn, PathIn, HostIn, ServiceIn, HttpIn
<1>2. QED
  BY <1>1, Zenon DEF MeaningOf

\* What is written of parameters means what they mean, and is readable.
LEMMA WrittenMeans ==
  ASSUME NEW p, Out!IsParams(p), p.network \in Out!Networks, NEW w, w = Out!Written(p)
  PROVE  Out!Meaning(w) = MeaningOf(p)
<1> DEFINE k == w.settings.keys
           s == w.stream
           t == s.transport
<1>1. Full(p) /\ p.protocol \in Out!Protocols
  BY ParamsAre
<1>2. \A f \in Fields : p[f] # Absent
  BY <1>1 DEF Full
<1>3. /\ w.protocol = p.protocol /\ w.settings.address = p.host /\ w.settings.port = p.port
      /\ p.protocol = "vless" => k.id = p.uuid /\ k.encryption = p.encryption /\ k.flow = Out!Put(p.flow)
      /\ p.protocol = "vmess" =>
           k.id = p.uuid /\ k.alterId = p.alter_id /\ k.security = p.vmess_security
      /\ p.protocol = "trojan" => k.password = p.password
      /\ p.protocol = "shadowsocks" => k.method = p.method /\ k.password = p.password
  BY KeysAre
<1>4. /\ s.network = p.network /\ s.security = p.security /\ s.serverName = Out!Put(p.sni)
      /\ s.fingerprint = Out!Put(p.fingerprint)
      /\ s.alpn = (IF p.alpn = <<>> THEN Absent ELSE p.alpn) /\ t = Out!Transport(p)
  BY StreamWritten
<1>5. AccountIn(w) = AccountOf(p)
  <2>1. /\ Out!Get(p.encryption, "none") = p.encryption /\ Out!Get(Out!Put(p.flow), Out!Empty) = p.flow
        /\ Out!Get(p.alter_id, 0) = p.alter_id /\ Out!Get(p.vmess_security, "auto") = p.vmess_security
    <3>1. p.encryption # Absent /\ p.flow # Absent /\ p.alter_id # Absent /\ p.vmess_security # Absent
      BY <1>2 DEF Fields
    <3>2. QED
      BY <3>1, PutIs
  <2>2. CASE p.protocol = "vless"
    BY <1>3, <2>1, <2>2 DEF AccountIn, AccountOf
  <2>3. CASE p.protocol = "vmess"
    BY <1>3, <2>1, <2>3 DEF AccountIn, AccountOf
  <2>4. CASE p.protocol = "trojan"
    BY <1>3, <2>1, <2>4 DEF AccountIn, AccountOf
  <2>5. CASE p.protocol = "shadowsocks"
    BY <1>3, <2>1, <2>5 DEF AccountIn, AccountOf
  <2>6. QED
    BY <1>1, <2>2, <2>3, <2>4, <2>5 DEF Out!Protocols
<1>6. /\ Out!Get(s.security, Out!Empty) = p.security /\ Out!Get(s.network, "tcp") = p.network
      /\ Out!Get(s.serverName, Out!Empty) = p.sni /\ Out!Get(s.fingerprint, Out!Empty) = p.fingerprint
      /\ Out!Get(s.alpn, <<>>) = p.alpn
  <2>1. /\ p.security # Absent /\ p.network # Absent /\ p.sni # Absent /\ p.fingerprint # Absent
        /\ p.alpn # Absent
    BY <1>2 DEF Fields
  <2>2. Out!Get(s.alpn, <<>>) = p.alpn
    BY <1>4, <2>1 DEF Out!Get
  <2>3. QED
    BY <1>4, <2>1, <2>2, PutIs
<1>7. /\ PathIn(s) = PathOf(p) /\ HostIn(s) = HostOf(p)
      /\ ServiceIn(s) = ServiceOf(p) /\ HttpIn(s) = HttpOf(p)
  <2>1. /\ p.path # Absent /\ p.host_header # Absent /\ p.host # Absent /\ p.service_name # Absent
        /\ "/" # Absent /\ "http" # Absent
    <3>1. "/" # Absent /\ "http" # Absent
      BY ConstantsTyped DEF Out!ConstantsTyped
    <3>2. QED
      BY <1>2, <3>1 DEF Fields
  <2>2. CASE p.network = "grpc"
    <3>1. /\ t.serviceName = Out!Put(p.service_name)
          /\ t.multiMode = (IF p.mode = Out!Empty THEN Absent ELSE p.mode = "multi")
      BY <1>4, <2>2, TransportIs
    <3>2. (t.multiMode = TRUE) = (p.mode = "multi")
      <4>1. CASE p.mode = Out!Empty
        <5>1. Absent # TRUE /\ p.mode # "multi"
          BY <4>1, EmptyIs, ConstantsTyped DEF Out!ConstantsTyped
        <5>2. QED
          BY <3>1, <4>1, <5>1, Zenon
      <4>2. CASE p.mode # Out!Empty
        <5>1. t.multiMode = (p.mode = "multi")
          BY <3>1, <4>2
        <5>2. QED
          BY <5>1, Zenon
      <4>3. QED
        BY <4>1, <4>2
    <3>3. /\ ServiceIn(s) = <<Out!Get(t.serviceName, Out!Empty), t.multiMode = TRUE>>
          /\ ServiceOf(p) = <<p.service_name, p.mode = "multi">>
      BY <1>6, <2>2, Zenon DEF ServiceIn, ServiceOf
    <3>4. ServiceIn(s) = ServiceOf(p)
      <4>1. Out!Get(t.serviceName, Out!Empty) = p.service_name
        BY <2>1, <3>1, PutIs
      <4>2. QED
        BY <3>2, <3>3, <4>1, Zenon
    <3>5. ~HttpIn(s) /\ ~HttpOf(p)
      BY <1>6, <2>2 DEF HttpIn, HttpOf
    <3>6. PathIn(s) = PathOf(p) /\ HostIn(s) = HostOf(p)
      BY <1>6, <2>2, <3>5 DEF PathIn, PathOf, HostIn, HostOf
    <3>7. QED
      BY <3>4, <3>5, <3>6, Zenon DEF HttpIn, HttpOf
  <2>3. CASE p.network \in {"ws", "h2"}
    <3>1. t.path = Out!Put(p.path) /\ t.host = Out!Put(p.host_header)
      BY <1>4, <2>3, TransportIs
    <3>2. ~HttpIn(s) /\ ~HttpOf(p)
      BY <1>6, <2>3 DEF HttpIn, HttpOf
    <3>3. Out!Get(t.path, Out!Empty) = p.path /\ Out!Get(t.host, Out!Empty) = p.host_header
      BY <2>1, <3>1, PutIs
    <3>4. PathIn(s) = PathOf(p) /\ HostIn(s) = HostOf(p) /\ ServiceIn(s) = ServiceOf(p)
      BY <1>6, <2>3, <3>3 DEF PathIn, PathOf, HostIn, HostOf, ServiceIn, ServiceOf
    <3>5. QED
      BY <3>2, <3>4, Zenon DEF HttpIn, HttpOf
  <2>4. CASE p.network = "tcp" /\ p.header_type = "http"
    <3>1. /\ t.headerType = "http" /\ t.path = (IF p.path = Out!Empty THEN "/" ELSE p.path)
          /\ t.host = (IF p.host_header = Out!Empty THEN p.host ELSE p.host_header)
      BY <1>4, <2>4, TransportIs
    <3>2. HttpIn(s) /\ HttpOf(p)
      BY <1>6, <2>4, <3>1 DEF HttpIn, HttpOf
    <3>3. Out!Get(t.path, Out!Empty) = t.path /\ Out!Get(t.host, Out!Empty) = t.host
      BY <2>1, <3>1, PutIs
    <3>4. PathIn(s) = PathOf(p) /\ HostIn(s) = HostOf(p) /\ ServiceIn(s) = ServiceOf(p)
      BY <1>6, <2>4, <3>1, <3>2, <3>3 DEF PathIn, PathOf, HostIn, HostOf, ServiceIn, ServiceOf
    <3>5. QED
      BY <3>2, <3>4, Zenon DEF HttpIn, HttpOf
  <2>5. CASE p.network = "tcp" /\ p.header_type # "http"
    <3>1. t.headerType = Absent
      BY <1>4, <2>5, TransportIs
    <3>2. ~HttpIn(s) /\ ~HttpOf(p)
      BY <2>1, <2>5, <3>1 DEF HttpIn, HttpOf
    <3>3. PathIn(s) = PathOf(p) /\ HostIn(s) = HostOf(p) /\ ServiceIn(s) = ServiceOf(p)
      BY <1>6, <2>5, <3>2 DEF PathIn, PathOf, HostIn, HostOf, ServiceIn, ServiceOf
    <3>4. QED
      BY <3>2, <3>3, Zenon DEF HttpIn, HttpOf
  <2>6. QED
    BY <2>2, <2>3, <2>4, <2>5 DEF Out!Networks
<1>8. QED
  BY <1>3, <1>5, <1>6, <1>7, MeaningIs

\* What is read of an outbound that is not skipped.
LEMMA ReadIs ==
  ASSUME NEW o, {o.settings.port, o.settings.keys.alterId} \subseteq Nat \cup {Absent},
         ~Out!Unreadable(o), NEW q, q = Out!ParamsFromOutbound(o)
  PROVE  /\ Out!IsParams(q) /\ q.network \in Out!Networks
         /\ SettingsRead(q, o, o.settings.keys) /\ StreamRead(q, o.stream, o.stream.transport)
<1>1. PICK p : p = Out!ReadSettings(o)
  OBVIOUS
<1>2. q = Out!ReadStream(p, o.stream)
  BY <1>1 DEF Out!ParamsFromOutbound
<1>3. Out!Get(o.stream.network, "tcp") \in Out!Networks
  BY DEF Out!Unreadable
<1>4. Out!IsParams(p) /\ p.header_type = Out!Empty /\ SettingsRead(p, o, o.settings.keys)
  BY <1>1, SettingsAre
<1>5. /\ Out!IsParams(q) /\ SettingsRead(q, o, o.settings.keys)
      /\ StreamRead(q, o.stream, o.stream.transport)
  BY <1>2, <1>3, <1>4, StreamAre
<1>6. QED
  BY <1>3, <1>5 DEF StreamRead

\* What is read of an outbound means what the outbound does, but for the
\* defaults of an http header and an alterId that does not fit.
LEMMA ReadMeans ==
  ASSUME NEW o, {o.settings.port, o.settings.keys.alterId} \subseteq Nat \cup {Absent},
         ~Out!Unreadable(o), NEW q, q = Out!ParamsFromOutbound(o),
         HttpIn(o.stream) =>
           /\ Out!Get(o.stream.transport.path, Out!Empty) # Out!Empty
           /\ \/ Out!Get(o.stream.transport.host, Out!Empty) # Out!Empty
              \/ Out!Get(o.stream.transport.host, Out!Empty) = o.settings.address,
         o.protocol = "vmess" => Out!Get(o.settings.keys.alterId, 0) < AlterIds
  PROVE  Out!Meaning(o) = MeaningOf(q)
<1>1. PICK k, s, t : k = o.settings.keys /\ s = o.stream /\ t = s.transport
  OBVIOUS
<1>2. /\ Out!IsParams(q) /\ q.network \in Out!Networks
      /\ SettingsRead(q, o, k) /\ StreamRead(q, s, t)
  BY <1>1, ReadIs, Zenon
<1>3. q.protocol = o.protocol /\ q.host = o.settings.address /\ q.port = o.settings.port
  BY <1>2 DEF SettingsRead
<1>4. q.protocol \in Out!Protocols
  BY <1>2, <1>3, ParamsAre
<1>5. AccountIn(o) = AccountOf(q)
  <2>1. CASE o.protocol = "vless"
    BY <1>1, <1>2, <1>3, <2>1 DEF AccountIn, AccountOf, SettingsRead
  <2>2. CASE o.protocol = "vmess"
    <3>1. Out!ExtractAlterId(k.alterId) = Out!Get(k.alterId, 0)
      <4>1. AlterIds \in Nat \ {0} /\ Absent \notin Nat
        BY ConstantsTyped DEF Out!ConstantsTyped
      <4>2. ASSUME NEW x \in Nat \cup {Absent}, Out!Get(x, 0) < AlterIds
            PROVE  Out!ExtractAlterId(x) = Out!Get(x, 0)
        <5>1. CASE x = Absent
          BY <5>1 DEF Out!ExtractAlterId, Out!Get
        <5>2. CASE x # Absent
          BY <4>1, <4>2, <5>2 DEF Out!ExtractAlterId, Out!Get
        <5>3. QED
          BY <5>1, <5>2
      <4>3. k.alterId \in Nat \cup {Absent} /\ Out!Get(k.alterId, 0) < AlterIds
        BY <1>1, <2>2
      <4>4. QED
        BY <4>2, <4>3
    <3>2. QED
      BY <1>1, <1>2, <1>3, <2>2, <3>1 DEF AccountIn, AccountOf, SettingsRead
  <2>3. CASE o.protocol = "trojan"
    BY <1>1, <1>2, <1>3, <2>3 DEF AccountIn, AccountOf, SettingsRead
  <2>4. CASE o.protocol = "shadowsocks"
    BY <1>1, <1>2, <1>3, <2>4 DEF AccountIn, AccountOf, SettingsRead
  <2>5. QED
    BY <1>3, <1>4, <2>1, <2>2, <2>3, <2>4 DEF Out!Protocols
<1>6. /\ PathIn(s) = PathOf(q) /\ HostIn(s) = HostOf(q)
      /\ ServiceIn(s) = ServiceOf(q) /\ HttpIn(s) = HttpOf(q)
  <2>1. HttpIn(s) <=> HttpOf(q)
    BY <1>1, <1>2 DEF HttpIn, HttpOf, StreamRead
  <2>2. HttpIn(s) = HttpOf(q)
    BY <2>1, Zenon DEF HttpIn, HttpOf
  <2>3. CASE q.network = "grpc"
    <3>1. (t.multiMode = TRUE) = (q.mode = "multi")
      <4>1. CASE t.multiMode = TRUE
        <5>1. q.mode = "multi"
          BY <1>2, <2>3, <4>1 DEF StreamRead
        <5>2. QED
          BY <4>1, <5>1, Zenon
      <4>2. CASE t.multiMode # TRUE
        <5>1. q.mode # "multi"
          BY <1>2, <2>3, <4>2, EmptyIs DEF StreamRead
        <5>2. QED
          BY <4>2, <5>1, Zenon
      <4>3. QED
        BY <4>1, <4>2
    <3>2. /\ ServiceIn(s) = <<Out!Get(t.serviceName, Out!Empty), t.multiMode = TRUE>>
          /\ ServiceOf(q) = <<q.service_name, q.mode = "multi">>
      <4>1. Out!Get(s.network, "tcp") = "grpc"
        BY <1>2, <2>3 DEF StreamRead
      <4>2. QED
        BY <1>1, <2>3, <4>1, Zenon DEF ServiceIn, ServiceOf
    <3>3. ServiceIn(s) = ServiceOf(q)
      <4>1. Out!Get(t.serviceName, Out!Empty) = q.service_name
        BY <1>2, <2>3 DEF StreamRead
      <4>2. QED
        BY <3>1, <3>2, <4>1, Zenon
    <3>4. ~HttpOf(q) /\ ~HttpIn(s)
      BY <2>1, <2>3 DEF HttpOf
    <3>5. PathIn(s) = PathOf(q) /\ HostIn(s) = HostOf(q)
      BY <1>2, <2>3, <3>4 DEF StreamRead, PathIn, PathOf, HostIn, HostOf
    <3>6. QED
      BY <2>2, <3>3, <3>5
  <2>4. CASE q.network \in {"ws", "h2"}
    <3>1. q.path = Out!Get(t.path, Out!Empty) /\ q.host_header = Out!Get(t.host, Out!Empty)
      BY <1>2, <2>4 DEF StreamRead
    <3>2. PathIn(s) = PathOf(q) /\ HostIn(s) = HostOf(q) /\ ServiceIn(s) = ServiceOf(q)
      BY <1>1, <1>2, <2>4, <3>1 DEF StreamRead, PathIn, PathOf, HostIn, HostOf, ServiceIn, ServiceOf
    <3>3. QED
      BY <2>2, <3>2
  <2>5. CASE q.network = "tcp" /\ t.headerType = "http"
    <3>1. q.path = Out!Get(t.path, Out!Empty) /\ q.host_header = Out!Get(t.host, Out!Empty)
      BY <1>2, <2>5 DEF StreamRead
    <3>2. HttpIn(s) /\ HttpOf(q)
      BY <1>1, <1>2, <2>1, <2>5 DEF HttpIn, StreamRead
    <3>3. q.path # Out!Empty /\ (q.host_header # Out!Empty \/ q.host_header = q.host)
      BY <1>1, <1>2, <1>3, <3>1, <3>2
    <3>4. PathIn(s) = q.path /\ HostIn(s) = q.host_header
      BY <1>1, <3>1, <3>2 DEF PathIn, HostIn
    <3>5. PathOf(q) = q.path
      BY <2>5, <3>2, <3>3 DEF PathOf
    <3>6. HostOf(q) = q.host_header
      BY <2>5, <3>2, <3>3 DEF HostOf
    <3>7. ServiceIn(s) = ServiceOf(q)
      BY <1>2, <2>5 DEF StreamRead, ServiceIn, ServiceOf
    <3>8. QED
      BY <2>2, <3>4, <3>5, <3>6, <3>7
  <2>6. CASE q.network = "tcp" /\ t.headerType # "http"
    <3>1. ~HttpIn(s) /\ ~HttpOf(q)
      BY <1>1, <2>1, <2>6 DEF HttpIn
    <3>2. PathIn(s) = PathOf(q) /\ HostIn(s) = HostOf(q) /\ ServiceIn(s) = ServiceOf(q)
      BY <1>2, <2>6, <3>1 DEF StreamRead, PathIn, PathOf, HostIn, HostOf, ServiceIn, ServiceOf
    <3>3. QED
      BY <2>2, <3>2
  <2>7. QED
    BY <1>2, <2>3, <2>4, <2>5, <2>6 DEF Out!Networks
<1>7. QED
  BY <1>1, <1>2, <1>3, <1>5, <1>6, MeaningIs DEF StreamRead

-----------------------------------------------------------------------------
\* What is written of parameters is readable, if they are of a network and a
\* security that are.
LEMMA WrittenReadable ==
  ASSUME NEW p, Out!IsParams(p), NEW w, w = Out!Written(p), Out!Representable(w)
  PROVE  /\ p.network \in Out!Networks /\ p.security # "reality"
         /\ {w.settings.port, w.settings.keys.alterId} \subseteq Nat \cup {Absent}
         /\ ~Out!Unreadable(w)
<1>1. Full(p) /\ p.protocol \in Out!Protocols /\ p.port \in 0..Out!MaxPort /\ p.alter_id \in 0..AlterIds - 1
  BY ParamsAre
<1>2. \A f \in Fields : p[f] # Absent
  BY <1>1 DEF Full
<1>3. PICK k, s : k = w.settings.keys /\ s = w.stream
  OBVIOUS
<1>4. /\ w.protocol = p.protocol /\ w.settings.address = p.host /\ w.settings.port = p.port
      /\ p.protocol = "vless" =>
           k.id = p.uuid /\ k.encryption = p.encryption /\ k.flow = Out!Put(p.flow) /\ k.alterId = Absent
      /\ p.protocol = "vmess" =>
           k.id = p.uuid /\ k.alterId = p.alter_id /\ k.security = p.vmess_security
      /\ p.protocol = "trojan" => k.password = p.password /\ k.alterId = Absent
      /\ p.protocol = "shadowsocks" =>
           k.method = p.method /\ k.password = p.password /\ k.alterId = Absent
  BY <1>3, KeysAre
<1>5. s.network = p.network /\ s.security = p.security
  BY <1>3, StreamWritten
<1>6. p.network \in Out!Networks /\ p.security # "reality"
  <2>1. p.network # Absent /\ p.security # Absent
    BY <1>2 DEF Fields
  <2>2. Out!Get(s.network, "tcp") = p.network /\ Out!Get(s.security, Out!Empty) = p.security
    BY <1>5, <2>1, PutIs
  <2>3. QED
    BY <1>3, <2>2 DEF Out!Representable
<1>7. {w.settings.port, w.settings.keys.alterId} \subseteq Nat \cup {Absent}
  <2>1. AlterIds \in Nat /\ Out!MaxPort \in Nat
    BY ConstantsTyped DEF Out!ConstantsTyped, Out!MaxPort
  <2>2. p.port \in Nat /\ p.alter_id \in Nat
    BY <1>1, <2>1
  <2>3. k.alterId \in Nat \cup {Absent}
    BY <1>1, <1>4, <2>2 DEF Out!Protocols
  <2>4. QED
    BY <1>3, <1>4, <2>2, <2>3
<1>8. ~Out!Unreadable(w)
  <2>1. w.protocol \in Out!Protocols /\ w.settings.address # Absent
    BY <1>1, <1>2, <1>4 DEF Fields
  <2>2. Out!ExtractPort(w.settings.port) # Refused
    <3>1. p.port \in Nat /\ p.port <= Out!MaxPort /\ p.port # Absent
      <4>1. Out!MaxPort \in Nat
        BY DEF Out!MaxPort
      <4>2. QED
        BY <1>1, <1>2, <4>1 DEF Fields
    <3>2. Refused \notin Nat
      BY ConstantsTyped DEF Out!ConstantsTyped
    <3>3. QED
      BY <1>4, <3>1, <3>2 DEF Out!ExtractPort
  <2>3. \A key \in Out!Needed(w.protocol) : k[key] # Absent
    <3>1. p.uuid # Absent /\ p.password # Absent /\ p.method # Absent
      BY <1>2 DEF Fields
    <3>2. QED
      BY <1>1, <1>4, <3>1 DEF Out!Needed, Out!Protocols
  <2>4. Out!Get(s.network, "tcp") \in Out!Networks /\ Out!Get(s.security, Out!Empty) # "reality"
    BY <1>3 DEF Out!Representable
  <2>5. QED
    BY <1>3, <2>1, <2>2, <2>3, <2>4 DEF Out!Unreadable
<1>9. QED
  BY <1>6, <1>7, <1>8

\* The settings that are read of what was written are those that were.
LEMMA SettingsAgain ==
  ASSUME NEW p, Out!IsParams(p), NEW w, w = Out!Written(p), Out!Representable(w),
         NEW q, q = Out!ParamsFromOutbound(w)
  PROVE  Out!Written(q).settings = w.settings
<1>1. PICK k : k = w.settings.keys
  OBVIOUS
<1>2. SettingsRead(q, w, k) /\ Out!IsParams(q)
  BY <1>1, WrittenReadable, ReadIs
<1>3. /\ w.protocol = p.protocol /\ w.settings.address = p.host /\ w.settings.port = p.port
      /\ p.protocol = "vless" =>
           k.id = p.uuid /\ k.encryption = p.encryption /\ k.flow = Out!Put(p.flow) /\ k.alterId = Absent
      /\ p.protocol = "vmess" =>
           k.id = p.uuid /\ k.alterId = p.alter_id /\ k.security = p.vmess_security
      /\ p.protocol = "trojan" => k.password = p.password /\ k.alterId = Absent
      /\ p.protocol = "shadowsocks" =>
           k.method = p.method /\ k.password = p.password /\ k.alterId = Absent
  BY <1>1, KeysAre
<1>4. Full(p) /\ p.protocol \in Out!Protocols /\ p.port \in 0..Out!MaxPort /\ p.alter_id \in 0..AlterIds - 1
  BY ParamsAre
<1>5. \A f \in Fields : p[f] # Absent
  BY <1>4 DEF Full
<1>6. Out!BuildOutboundSettings(q) = Out!BuildOutboundSettings(p)
  <2>1. q.protocol = p.protocol /\ q.host = p.host /\ q.port = p.port
    BY <1>2, <1>3 DEF SettingsRead
  <2>2. CASE p.protocol = "vless"
    <3>1. q.uuid = p.uuid /\ q.encryption = p.encryption /\ q.flow = p.flow
      <4>1. p.encryption # Absent /\ p.flow # Absent
        BY <1>5 DEF Fields
      <4>2. Out!Get(p.encryption, "none") = p.encryption /\ Out!Get(Out!Put(p.flow), Out!Empty) = p.flow
        BY <4>1, PutIs
      <4>3. QED
        BY <1>2, <1>3, <2>2, <4>2 DEF SettingsRead
    <3>2. QED
      BY <2>1, <2>2, <3>1 DEF Out!BuildOutboundSettings
  <2>3. CASE p.protocol = "vmess"
    <3>1. q.uuid = p.uuid /\ q.alter_id = p.alter_id /\ q.vmess_security = p.vmess_security
      <4>1. p.vmess_security # Absent /\ p.alter_id # Absent
        BY <1>5 DEF Fields
      <4>2. Out!Get(p.vmess_security, "auto") = p.vmess_security
        BY <4>1, PutIs
      <4>3. AlterIds \in Nat \ {0}
        BY ConstantsTyped DEF Out!ConstantsTyped
      <4>4. ASSUME NEW x \in 0..AlterIds - 1 PROVE x % AlterIds = x
        BY <4>3
      <4>5. Out!ExtractAlterId(p.alter_id) = p.alter_id
        BY <1>4, <4>1, <4>4 DEF Out!ExtractAlterId
      <4>6. QED
        BY <1>2, <1>3, <2>3, <4>2, <4>5 DEF SettingsRead
    <3>2. QED
      BY <2>1, <2>3, <3>1 DEF Out!BuildOutboundSettings
  <2>4. CASE p.protocol = "trojan"
    <3>1. q.password = p.password
      BY <1>2, <1>3, <2>4 DEF SettingsRead
    <3>2. QED
      BY <2>1, <2>4, <3>1 DEF Out!BuildOutboundSettings
  <2>5. CASE p.protocol = "shadowsocks"
    <3>1. q.method = p.method /\ q.password = p.password
      BY <1>2, <1>3, <2>5 DEF SettingsRead
    <3>2. QED
      BY <2>1, <2>5, <3>1 DEF Out!BuildOutboundSettings
  <2>6. QED
    BY <1>4, <2>2, <2>3, <2>4, <2>5 DEF Out!Protocols
<1>7. QED
  BY <1>6 DEF Out!Written

\* The stream that is read of what was written is the one that was, but for a
\* grpc mode that is not "multi" and the defaults of an http header.
LEMMA StreamAgain ==
  ASSUME NEW p, Out!IsParams(p), NEW w, w = Out!Written(p), Out!Representable(w),
         NEW q, q = Out!ParamsFromOutbound(w)
  PROVE  Out!SameStream(p, q)
<1>1. PICK s, t : s = w.stream /\ t = s.transport
  OBVIOUS
<1>2. p.network \in Out!Networks /\ StreamRead(q, s, t)
  BY <1>1, WrittenReadable, ReadIs
<1>3. /\ s.network = p.network /\ s.security = p.security /\ s.serverName = Out!Put(p.sni)
      /\ s.fingerprint = Out!Put(p.fingerprint)
      /\ s.alpn = (IF p.alpn = <<>> THEN Absent ELSE p.alpn) /\ t = Out!Transport(p)
  BY <1>1, StreamWritten
<1>4. Full(p)
  BY ParamsAre
<1>5. \A f \in Fields : p[f] # Absent
  BY <1>4 DEF Full
<1>6. /\ p.network # Absent /\ p.security # Absent /\ p.sni # Absent /\ p.fingerprint # Absent
      /\ p.alpn # Absent /\ p.path # Absent /\ p.host_header # Absent /\ p.host # Absent
      /\ p.service_name # Absent
  BY <1>5 DEF Fields
<1>7. /\ q.network = p.network /\ q.security = p.security /\ q.sni = p.sni
      /\ q.fingerprint = p.fingerprint /\ q.alpn = p.alpn
  <2>1. Out!Get(s.alpn, <<>>) = p.alpn
    BY <1>3, <1>6 DEF Out!Get
  <2>2. /\ Out!Get(s.network, "tcp") = p.network /\ Out!Get(s.security, Out!Empty) = p.security
        /\ Out!Get(s.serverName, Out!Empty) = p.sni /\ Out!Get(s.fingerprint, Out!Empty) = p.fingerprint
    BY <1>3, <1>6, PutIs
  <2>3. QED
    BY <1>2, <2>1, <2>2 DEF StreamRead
<1>8. p.network \in {"ws", "h2"} => p.path = q.path /\ p.host_header = q.host_header
  <2> SUFFICES ASSUME p.network \in {"ws", "h2"} PROVE p.path = q.path /\ p.host_header = q.host_header
    OBVIOUS
  <2>1. t.path = Out!Put(p.path) /\ t.host = Out!Put(p.host_header)
    BY <1>2, <1>3, TransportIs
  <2>2. Out!Get(t.path, Out!Empty) = p.path /\ Out!Get(t.host, Out!Empty) = p.host_header
    BY <1>6, <2>1, PutIs
  <2>3. QED
    BY <1>2, <1>7, <2>2 DEF StreamRead
<1>9. p.network = "grpc" => p.service_name = q.service_name /\ (p.mode = "multi" <=> q.mode = "multi")
  <2> SUFFICES ASSUME p.network = "grpc"
               PROVE  p.service_name = q.service_name /\ (p.mode = "multi" <=> q.mode = "multi")
    OBVIOUS
  <2>1. /\ t.serviceName = Out!Put(p.service_name)
        /\ t.multiMode = (IF p.mode = Out!Empty THEN Absent ELSE p.mode = "multi")
    BY <1>2, <1>3, TransportIs
  <2>2. /\ q.service_name = p.service_name
        /\ q.mode = (IF t.multiMode = TRUE THEN "multi" ELSE Out!Empty)
    <3>1. Out!Get(t.serviceName, Out!Empty) = p.service_name
      BY <1>6, <2>1, PutIs
    <3>2. QED
      BY <1>2, <1>7, <3>1 DEF StreamRead
  <2>3. (t.multiMode = TRUE) <=> p.mode = "multi"
    <3>1. Absent # TRUE
      BY ConstantsTyped DEF Out!ConstantsTyped
    <3>2. CASE p.mode = Out!Empty
      <4>1. t.multiMode = Absent
        BY <2>1, <3>2
      <4>2. QED
        BY <3>1, <3>2, <4>1, EmptyIs, Zenon
    <3>3. CASE p.mode # Out!Empty
      <4>1. t.multiMode = (p.mode = "multi")
        BY <2>1, <3>3
      <4>2. QED
        BY <4>1, Zenon
    <3>4. QED
      BY <3>2, <3>3
  <2>4. QED
    <3>1. CASE t.multiMode = TRUE
      BY <2>2, <2>3, <3>1
    <3>2. CASE t.multiMode # TRUE
      BY <2>2, <2>3, <3>2, EmptyIs
    <3>3. QED
      BY <3>1, <3>2
<1>10. p.network = "tcp" =>
         /\ p.header_type = "http" <=> q.header_type = "http"
         /\ p.header_type = "http" =>
              /\ q.path = (IF p.path = Out!Empty THEN "/" ELSE p.path)
              /\ q.host_header = (IF p.host_header = Out!Empty THEN p.host ELSE p.host_header)
  <2> SUFFICES ASSUME p.network = "tcp"
               PROVE  /\ p.header_type = "http" <=> q.header_type = "http"
                      /\ p.header_type = "http" =>
                           /\ q.path = (IF p.path = Out!Empty THEN "/" ELSE p.path)
                           /\ q.host_header =
                                (IF p.host_header = Out!Empty THEN p.host ELSE p.host_header)
    OBVIOUS
  <2>1. Absent # "http" /\ Absent # "/"
    BY ConstantsTyped DEF Out!ConstantsTyped
  <2>2. CASE p.header_type = "http"
    <3>1. /\ t.headerType = "http" /\ t.path = (IF p.path = Out!Empty THEN "/" ELSE p.path)
          /\ t.host = (IF p.host_header = Out!Empty THEN p.host ELSE p.host_header)
      BY <1>2, <1>3, <2>2, TransportIs
    <3>2. t.path # Absent /\ t.host # Absent
      BY <1>6, <2>1, <3>1
    <3>3. Out!Get(t.path, Out!Empty) = t.path /\ Out!Get(t.host, Out!Empty) = t.host
      BY <3>2, PutIs
    <3>4. q.header_type = "http" /\ q.path = t.path /\ q.host_header = t.host
      BY <1>2, <1>7, <3>1, <3>3 DEF StreamRead
    <3>5. QED
      BY <2>2, <3>1, <3>4
  <2>3. CASE p.header_type # "http"
    <3>1. t.headerType = Absent
      BY <1>2, <1>3, <2>3, TransportIs
    <3>2. q.header_type # "http"
      BY <1>2, <1>7, <2>1, <3>1 DEF StreamRead
    <3>3. QED
      BY <2>3, <3>2
  <2>4. QED
    BY <2>2, <2>3
<1>11. QED
  BY <1>7, <1>8, <1>9, <1>10 DEF Out!SameStream

\* What was written and is read means what it meant when it is written again.
LEMMA MeansAgain ==
  ASSUME NEW p, Out!IsParams(p), NEW w, w = Out!Written(p), Out!Representable(w),
         NEW q, q = Out!ParamsFromOutbound(w)
  PROVE  Out!Meaning(Out!Written(q)) = Out!Meaning(w)
<1>1. /\ p.network \in Out!Networks
      /\ {w.settings.port, w.settings.keys.alterId} \subseteq Nat \cup {Absent}
      /\ ~Out!Unreadable(w)
  BY WrittenReadable
<1>2. Out!IsParams(q) /\ q.network \in Out!Networks
  BY <1>1, ReadIs
<1>3. Out!Meaning(Out!Written(q)) = MeaningOf(q)
  BY <1>2, WrittenMeans
<1>4. w.protocol = "vmess" => Out!Get(w.settings.keys.alterId, 0) < AlterIds
  <2>1. w.protocol = p.protocol /\ (p.protocol = "vmess" => w.settings.keys.alterId = p.alter_id)
    BY KeysAre
  <2>2. p.alter_id \in 0..AlterIds - 1 /\ AlterIds \in Nat
    BY ParamsAre, ConstantsTyped DEF Out!ConstantsTyped
  <2>3. p.alter_id # Absent
    BY <2>2, ConstantsTyped DEF Out!ConstantsTyped
  <2>4. p.alter_id < AlterIds
    BY <2>2
  <2>5. Out!Get(p.alter_id, 0) = p.alter_id
    BY <2>3, PutIs
  <2>6. QED
    BY <2>1, <2>4, <2>5
<1>5. HttpIn(w.stream) =>
        /\ Out!Get(w.stream.transport.path, Out!Empty) # Out!Empty
        /\ \/ Out!Get(w.stream.transport.host, Out!Empty) # Out!Empty
           \/ Out!Get(w.stream.transport.host, Out!Empty) = w.settings.address
  <2> SUFFICES ASSUME HttpIn(w.stream)
               PROVE  /\ Out!Get(w.stream.transport.path, Out!Empty) # Out!Empty
                      /\ \/ Out!Get(w.stream.transport.host, Out!Empty) # Out!Empty
                         \/ Out!Get(w.stream.transport.host, Out!Empty) = w.settings.address
    OBVIOUS
  <2>1. PICK s, t : s = w.stream /\ t = s.transport
    OBVIOUS
  <2>2. s.network = p.network /\ t = Out!Transport(p)
    BY <2>1, StreamWritten
  <2>3. Full(p)
    BY ParamsAre
  <2>4. p.network # Absent /\ p.path # Absent /\ p.host_header # Absent /\ p.host # Absent
    BY <2>3 DEF Full, Fields
  <2>5. Absent # "http" /\ Absent # "/"
    BY ConstantsTyped DEF Out!ConstantsTyped
  <2>6. Out!Get(s.network, "tcp") = p.network
    BY <2>2, <2>4, PutIs
  <2>7. p.network = "tcp" /\ t.headerType = "http"
    BY <2>1, <2>6 DEF HttpIn
  <2>8. p.header_type = "http"
    BY <1>1, <2>2, <2>5, <2>7, TransportIs
  <2>9. /\ t.path = (IF p.path = Out!Empty THEN "/" ELSE p.path)
        /\ t.host = (IF p.host_header = Out!Empty THEN p.host ELSE p.host_header)
    BY <1>1, <2>2, <2>7, <2>8, TransportIs
  <2>10. /\ t.path # Out!Empty /\ t.path # Absent /\ t.host # Absent
         /\ (t.host # Out!Empty \/ t.host = p.host)
    BY <2>4, <2>5, <2>9, EmptyIs
  <2>11. Out!Get(t.path, Out!Empty) = t.path /\ Out!Get(t.host, Out!Empty) = t.host
    BY <2>10, PutIs
  <2>12. w.settings.address = p.host
    BY KeysAre
  <2>13. QED
    BY <2>1, <2>10, <2>11, <2>12
<1>6. Out!Meaning(w) = MeaningOf(q)
  BY <1>1, <1>4, <1>5, ReadMeans
<1>7. QED
  BY <1>3, <1>6

-----------------------------------------------------------------------------
\* The parameters are the account's of a link, or what is read of what was
\* offered; what is written was made of them.
OInv ==
  /\ offered \in Offers \cup {Absent}
  /\ offered = Absent => params \in Shares
  /\ offered # Absent => params \in {Absent, Out!ParamsFromOutbound(offered)}
  /\ written # Absent => params \notin {Absent, Refused} /\ written = Out!Written(params)

\* OInv starts.
LEMMA OInitHolds == Out!Init => OInv
BY ConstantsTyped DEF Out!Init, OInv, Out!ConstantsTyped

\* OInv is kept.
LEMMA ONextHolds == OInv /\ [Out!Next]_(Out!vars) => OInv'
<1> SUFFICES ASSUME OInv, [Out!Next]_(Out!vars) PROVE OInv'
  OBVIOUS
<1>1. CASE Out!Read
  <2>1. offered # Absent /\ written = Absent
    BY <1>1, ConstantsTyped DEF OInv, Out!Read, Out!ConstantsTyped
  <2>2. QED
    BY <1>1, <2>1 DEF OInv, Out!Read
<1>2. CASE Out!Write
  BY <1>2 DEF OInv, Out!Write
<1>3. CASE UNCHANGED Out!vars
  BY <1>3 DEF OInv, Out!vars
<1>4. QED
  BY <1>1, <1>2, <1>3 DEF Out!Next

\* The parameters that corvex works with are parameters.
LEMMA OTyped ==
  ASSUME OInv, params \notin {Absent, Refused}
  PROVE  /\ Out!IsParams(params)
         /\ offered # Absent =>
              /\ {offered.settings.port, offered.settings.keys.alterId} \subseteq Nat \cup {Absent}
              /\ ~Out!Unreadable(offered) /\ params = Out!ParamsFromOutbound(offered)
<1>1. CASE offered = Absent
  BY <1>1, ConstantsTyped DEF OInv, Out!ConstantsTyped
<1>2. CASE offered # Absent
  <2>1. {offered.settings.port, offered.settings.keys.alterId} \subseteq Nat \cup {Absent}
    BY <1>2, ConstantsTyped DEF OInv, Out!ConstantsTyped
  <2>2. params = Out!ParamsFromOutbound(offered)
    BY <1>2 DEF OInv
  <2>3. ~Out!Unreadable(offered)
    BY <2>2 DEF Out!ParamsFromOutbound
  <2>4. QED
    BY <2>1, <2>2, <2>3, ReadIs
<1>3. QED
  BY <1>1, <1>2

\* OInv is what was meant.
LEMMA OMeant == OInv => OutboundIsMeant
<1> SUFFICES ASSUME OInv PROVE OutboundIsMeant
  OBVIOUS
<1>1. Out!TypeOK
  <2>1. written # Absent => written.protocol = params.protocol
    BY DEF OInv, Out!Written
  <2>2. QED
    BY <2>1, OTyped DEF Out!TypeOK
<1>2. Out!MeansTheSame
  <2> SUFFICES ASSUME offered # Absent, written # Absent, ~Out!HeaderDefaults(offered),
                      ~(offered.protocol = "vmess" /\ Out!Get(offered.settings.keys.alterId, 0) >= AlterIds)
               PROVE  Out!Meaning(written) = Out!Meaning(offered)
    BY DEF Out!MeansTheSame
  <2>1. params \notin {Absent, Refused} /\ written = Out!Written(params)
    BY DEF OInv
  <2>2. /\ Out!IsParams(params)
        /\ {offered.settings.port, offered.settings.keys.alterId} \subseteq Nat \cup {Absent}
        /\ ~Out!Unreadable(offered) /\ params = Out!ParamsFromOutbound(offered)
    BY <2>1, OTyped
  <2>3. params.network \in Out!Networks
    BY <2>2, ReadIs
  <2>4. Out!Meaning(written) = MeaningOf(params)
    BY <2>1, <2>2, <2>3, WrittenMeans
  <2>5. HttpIn(offered.stream) =>
          /\ Out!Get(offered.stream.transport.path, Out!Empty) # Out!Empty
          /\ Out!Get(offered.stream.transport.host, Out!Empty) # Out!Empty
    BY DEF HttpIn, Out!HeaderDefaults
  <2>6. offered.protocol = "vmess" => Out!Get(offered.settings.keys.alterId, 0) < AlterIds
    <3>1. AlterIds \in Nat
      BY ConstantsTyped DEF Out!ConstantsTyped
    <3>2. ASSUME NEW x \in Nat \cup {Absent} PROVE Out!Get(x, 0) \in Nat
      BY DEF Out!Get
    <3>3. Out!Get(offered.settings.keys.alterId, 0) \in Nat
      BY <2>2, <3>2
    <3>4. QED
      BY <3>1, <3>3
  <2>7. Out!Meaning(offered) = MeaningOf(params)
    BY <2>2, <2>5, <2>6, ReadMeans
  <2>8. QED
    BY <2>4, <2>7
<1>3. Out!RefusesTheRest
  <2> SUFFICES ASSUME offered # Absent, params \notin {Absent, Refused}
               PROVE  Out!Representable(offered)
    BY DEF Out!RefusesTheRest
  <2>1. /\ {offered.settings.port, offered.settings.keys.alterId} \subseteq Nat \cup {Absent}
        /\ ~Out!Unreadable(offered)
    BY OTyped
  <2>2. Out!ExtractPort(offered.settings.port) # Refused
    BY <2>1 DEF Out!Unreadable
  <2>3. offered.settings.port # Absent /\ offered.settings.port <= Out!MaxPort
    BY <2>2 DEF Out!ExtractPort
  <2>4. QED
    BY <2>1, <2>3 DEF Out!Unreadable, Out!Representable
<1>4. Out!ReadsItsOwn
  <2> SUFFICES ASSUME written # Absent, Out!Representable(written),
                      NEW again, again = Out!ParamsFromOutbound(written)
               PROVE  /\ ~Out!Unreadable(written)
                      /\ Out!SameStream(params, again)
                      /\ Out!Written(again).settings = written.settings
                      /\ Out!Meaning(Out!Written(again)) = Out!Meaning(written)
    BY DEF Out!ReadsItsOwn
  <2>1. params \notin {Absent, Refused} /\ written = Out!Written(params)
    BY DEF OInv
  <2>2. Out!IsParams(params)
    BY <2>1, OTyped
  <2>3. QED
    BY <2>1, <2>2, WrittenReadable, SettingsAgain, StreamAgain, MeansAgain
<1>5. QED
  BY <1>1, <1>2, <1>3, <1>4 DEF OutboundIsMeant

-----------------------------------------------------------------------------
(***************************************************************************)
(* ShareLink: what is cut from a text at a separator.                      *)
(***************************************************************************)
Misses(t, c) == \A i \in DOMAIN t : t[i] # c
JoinedAt(t, u, c, v) == t = u \o <<c>> \o v
CutLast(t, c, u, v) ==
  LET i == Links!LastPlace(t, c)
  IN  Links!Places(t, c) # {} /\ Links!Before(t, i) = u /\ Links!After(t, i) = v
CutFirst(t, c, u, v) ==
  LET i == Links!FirstPlace(t, c)
  IN  Links!Places(t, c) # {} /\ Links!Before(t, i) = u /\ Links!After(t, i) = v

\* A text without a character has no place of it.
LEMMA NoPlace == \A t, c : Links!Places(t, c) = {} <=> Misses(t, c)
BY DEF Links!Places, Misses

\* What is joined misses what both parts miss.
LEMMA MissesBoth ==
  ASSUME NEW S, NEW u \in Seq(S), NEW v \in Seq(S), NEW c, Misses(u, c), Misses(v, c)
  PROVE  Misses(u \o v, c)
<1>1. ASSUME NEW i \in DOMAIN (u \o v) PROVE (u \o v)[i] # c
  <2>1. i \in 1..(Len(u) + Len(v)) /\ Len(u) \in Nat /\ Len(v) \in Nat
    BY <1>1
  <2>2. CASE i <= Len(u)
    BY <2>1, <2>2 DEF Misses
  <2>3. CASE ~(i <= Len(u))
    <3>1. i - Len(u) \in 1..Len(v) /\ (u \o v)[i] = v[i - Len(u)]
      BY <2>1, <2>3
    <3>2. QED
      BY <3>1 DEF Misses
  <2>4. QED
    BY <2>2, <2>3
<1>2. QED
  BY <1>1 DEF Misses

\* Where the parts of what is joined are.
PartsAt(t, u, c, v) ==
  /\ Len(t) = Len(u) + 1 + Len(v) /\ DOMAIN t = 1..Len(t)
  /\ Len(u) \in Nat /\ Len(v) \in Nat
  /\ t[Len(u) + 1] = c
  /\ \A i \in 1..Len(u) : t[i] = u[i]
  /\ \A i \in 1..Len(v) : t[Len(u) + 1 + i] = v[i]

\* They are there.
LEMMA JoinedIs ==
  ASSUME NEW S, NEW u \in Seq(S), NEW v \in Seq(S), NEW c \in S, NEW t, JoinedAt(t, u, c, v)
  PROVE  t \in Seq(S) /\ PartsAt(t, u, c, v)
<1>1. <<c>> \in Seq(S) /\ Len(<<c>>) = 1 /\ <<c>>[1] = c
  OBVIOUS
<1>2. PICK w : w = u \o <<c>>
  OBVIOUS
<1>3. w \in Seq(S) /\ Len(w) = Len(u) + 1 /\ w[Len(u) + 1] = c /\ \A i \in 1..Len(u) : w[i] = u[i]
  BY <1>1, <1>2
<1>4. t = w \o v
  BY <1>2 DEF JoinedAt
<1>5. /\ t \in Seq(S) /\ Len(t) = Len(w) + Len(v)
      /\ \A i \in 1..Len(w) : t[i] = w[i]
      /\ \A i \in 1..Len(v) : t[Len(w) + i] = v[i]
  <2>1. w \in Seq(S)
    BY <1>3
  <2>2. ASSUME NEW i \in 1..Len(v) PROVE (w \o v)[Len(w) + i] = v[i]
    <3>1. Len(w) + i \in 1..(Len(w) + Len(v)) /\ ~(Len(w) + i <= Len(w)) /\ Len(w) + i - Len(w) = i
      BY <2>1, <2>2
    <3>2. QED
      BY <2>1, <3>1
  <2>3. QED
    BY <1>4, <2>1, <2>2
<1>6. Len(u) \in Nat /\ Len(v) \in Nat
  OBVIOUS
<1>7. Len(u) + 1 \in 1..Len(w) /\ \A i \in 1..Len(u) : i \in 1..Len(w)
  BY <1>3, <1>6
<1>8. QED
  BY <1>3, <1>5, <1>6, <1>7 DEF PartsAt

\* A text cut at the place of a separator.
LEMMA CutAt ==
  ASSUME NEW S, NEW u \in Seq(S), NEW v \in Seq(S), NEW c \in S, NEW t, JoinedAt(t, u, c, v)
  PROVE  Links!Before(t, Len(u) + 1) = u /\ Links!After(t, Len(u) + 1) = v
<1>1. /\ t \in Seq(S) /\ Len(t) = Len(u) + 1 + Len(v)
      /\ Len(u) \in Nat /\ Len(v) \in Nat
      /\ \A i \in 1..Len(u) : t[i] = u[i]
      /\ \A i \in 1..Len(v) : t[Len(u) + 1 + i] = v[i]
  BY JoinedIs DEF PartsAt
<1>2. Links!Before(t, Len(u) + 1) = u
  <2>1. PICK b : b = SubSeq(t, 1, Len(u))
    OBVIOUS
  <2>2. Links!Before(t, Len(u) + 1) = b
    BY <1>1, <2>1 DEF Links!Before
  <2>3. b \in Seq(S) /\ Len(b) = Len(u) /\ \A i \in 1..Len(u) : b[i] = t[i]
    BY <1>1, <2>1
  <2>4. b = u
    BY <1>1, <2>3
  <2>5. QED
    BY <2>2, <2>4
<1>3. Links!After(t, Len(u) + 1) = v
  <2>1. PICK b : b = SubSeq(t, Len(u) + 2, Len(t))
    OBVIOUS
  <2>2. Links!After(t, Len(u) + 1) = b
    <3>1. (Len(u) + 1) + 1 = Len(u) + 2
      BY <1>1
    <3>2. QED
      BY <2>1, <3>1 DEF Links!After
  <2>3. b \in Seq(S) /\ Len(b) = Len(v) /\ \A i \in 1..Len(v) : b[i] = t[Len(u) + 1 + i]
    BY <1>1, <2>1
  <2>4. b = v
    BY <1>1, <2>3
  <2>5. QED
    BY <2>2, <2>4
<1>4. QED
  BY <1>2, <1>3

\* The last separator is the one after which none comes, ...
LEMMA LastIs ==
  ASSUME NEW S, NEW u \in Seq(S), NEW v \in Seq(S), NEW c \in S, NEW t, JoinedAt(t, u, c, v),
         Misses(v, c)
  PROVE  Links!LastPlace(t, c) = Len(u) + 1 /\ CutLast(t, c, u, v)
<1>1. /\ t \in Seq(S) /\ Len(t) = Len(u) + 1 + Len(v) /\ DOMAIN t = 1..Len(t)
      /\ Len(u) \in Nat /\ Len(v) \in Nat /\ t[Len(u) + 1] = c
      /\ \A i \in 1..Len(v) : t[Len(u) + 1 + i] = v[i]
  BY JoinedIs DEF PartsAt
<1>2. Len(u) + 1 \in Links!Places(t, c)
  BY <1>1 DEF Links!Places
<1>3. ASSUME NEW j \in Links!Places(t, c) PROVE j \in Nat /\ j <= Len(u) + 1
  <2>1. j \in 1..Len(t) /\ t[j] = c
    BY <1>1, <1>3 DEF Links!Places
  <2>2. ASSUME ~(j <= Len(u) + 1) PROVE FALSE
    <3>1. j - (Len(u) + 1) \in 1..Len(v) /\ Len(u) + 1 + (j - (Len(u) + 1)) = j
      BY <1>1, <2>1, <2>2
    <3>2. v[j - (Len(u) + 1)] = c
      BY <1>1, <2>1, <3>1
    <3>3. QED
      BY <3>1, <3>2 DEF Misses
  <2>3. QED
    BY <1>1, <2>1, <2>2
<1>4. Links!LastPlace(t, c) = Len(u) + 1
  <2>1. \A j \in Links!Places(t, c) : Len(u) + 1 >= j
    BY <1>1, <1>3
  <2>2. ASSUME NEW i \in Links!Places(t, c), \A j \in Links!Places(t, c) : i >= j
        PROVE  i = Len(u) + 1
    BY <1>1, <1>2, <1>3, <2>2
  <2>3. QED
    BY <1>2, <2>1, <2>2 DEF Links!LastPlace
<1>5. QED
  BY <1>2, <1>4, CutAt DEF CutLast

\* ... and the first the one before which none does.
LEMMA FirstIs ==
  ASSUME NEW S, NEW u \in Seq(S), NEW v \in Seq(S), NEW c \in S, NEW t, JoinedAt(t, u, c, v),
         Misses(u, c)
  PROVE  Links!FirstPlace(t, c) = Len(u) + 1 /\ CutFirst(t, c, u, v)
<1>1. /\ t \in Seq(S) /\ Len(t) = Len(u) + 1 + Len(v) /\ DOMAIN t = 1..Len(t)
      /\ Len(u) \in Nat /\ Len(v) \in Nat /\ t[Len(u) + 1] = c
      /\ \A i \in 1..Len(u) : t[i] = u[i]
  BY JoinedIs DEF PartsAt
<1>2. Len(u) + 1 \in Links!Places(t, c)
  BY <1>1 DEF Links!Places
<1>3. ASSUME NEW j \in Links!Places(t, c) PROVE j \in Nat /\ Len(u) + 1 <= j
  <2>1. j \in 1..Len(t) /\ t[j] = c
    BY <1>1, <1>3 DEF Links!Places
  <2>2. ASSUME ~(Len(u) + 1 <= j) PROVE FALSE
    <3>1. j \in 1..Len(u)
      BY <1>1, <2>1, <2>2
    <3>2. u[j] = c
      BY <1>1, <2>1, <3>1
    <3>3. QED
      BY <3>1, <3>2 DEF Misses
  <2>3. QED
    BY <1>1, <2>1, <2>2
<1>4. Links!FirstPlace(t, c) = Len(u) + 1
  <2>1. \A j \in Links!Places(t, c) : Len(u) + 1 <= j
    BY <1>3
  <2>2. ASSUME NEW i \in Links!Places(t, c), \A j \in Links!Places(t, c) : i <= j
        PROVE  i = Len(u) + 1
    BY <1>1, <1>2, <1>3, <2>2
  <2>3. QED
    BY <1>2, <2>1, <2>2 DEF Links!FirstPlace
<1>5. QED
  BY <1>2, <1>4, CutAt DEF CutFirst

-----------------------------------------------------------------------------
(***************************************************************************)
(* ShareLink: the items of a text.                                         *)
(***************************************************************************)
LinkItems == Links!Chars \cup Links!Numbers \cup Links!Escapes \cup Links!Runs

\* The characters are apart, and no item of another kind is one.
LEMMA CharsApart ==
  /\ Colon \notin {At, Hash, Question, Open, Close, Percent}
  /\ At \notin {Hash, Question, Open, Close, Percent}
  /\ Hash \notin {Question, Open, Close, Percent}
  /\ Question \notin {Open, Close, Percent} /\ Open # Close
  /\ {Colon, At, Hash, Question, Open, Close, Percent} \subseteq Links!Chars
  /\ Letters \subseteq Links!Chars /\ Letters \cap Links!Separators = {}
  /\ Links!Separators = {Colon, At, Hash, Question, Open, Close, Percent}
  /\ Links!Chars = Links!Separators \cup Letters
  /\ Links!Chars \cap (Links!Numbers \cup Links!Escapes \cup Links!Runs) = {}
  /\ Links!Texts = Seq(Links!Chars)
BY ConstantsTyped DEF Links!ConstantsTyped, Links!Chars, Links!Separators, Links!Texts

\* An escape is no character and no run.
LEMMA EscapeIs ==
  ASSUME NEW c \in Links!Separators
  PROVE  /\ Links!Escape(c) \in Links!Escapes /\ Links!Escape(c) \notin Links!Chars
         /\ Links!IsEscape(Links!Escape(c)) /\ Links!Escape(c).escaped = c
<1>1. Links!Escape(c) \in Links!Escapes
  BY DEF Links!Escape, Links!Escapes
<1>2. "escaped" \in DOMAIN Links!Escape(c) /\ Links!Escape(c).escaped = c
  BY DEF Links!Escape
<1>3. Links!Escape(c) \notin Links!Chars
  BY <1>1, CharsApart
<1>4. QED
  BY <1>1, <1>2, <1>3 DEF Links!IsEscape, Links!Is

\* A text that is percent-encoded holds no separator, and is decoded to itself.
LEMMA EncodedIs ==
  ASSUME NEW text \in Links!Texts
  PROVE  /\ Links!Encoded(text) \in Seq(LinkItems)
         /\ \A c \in Links!Separators : Misses(Links!Encoded(text), c)
         /\ Links!Decoded(Links!Encoded(text)) = text
         /\ text # <<>> => Links!Encoded(text) # <<>>
         /\ Len(Links!Encoded(text)) = Len(text)
<1>1. PICK e : e = Links!Encoded(text)
  OBVIOUS
<1>2. text \in Seq(Links!Chars) /\ DOMAIN text = 1..Len(text) /\ Len(text) \in Nat
  BY CharsApart
<1>3. DOMAIN e = 1..Len(text) /\ e = [i \in 1..Len(text) |-> e[i]]
      /\ \A i \in 1..Len(text) :
           e[i] = IF text[i] \in Links!Separators THEN Links!Escape(text[i]) ELSE text[i]
  BY <1>1, <1>2 DEF Links!Encoded
<1>4. ASSUME NEW i \in 1..Len(text)
      PROVE  /\ e[i] \in LinkItems /\ e[i] \notin Links!Separators
             /\ (IF Links!IsEscape(e[i]) THEN e[i].escaped ELSE e[i]) = text[i]
  <2>1. text[i] \in Links!Chars
    BY <1>2
  <2>2. CASE text[i] \in Links!Separators
    <3>1. e[i] = Links!Escape(text[i])
      BY <1>3, <2>2
    <3>2. QED
      BY <2>2, <3>1, EscapeIs, CharsApart DEF LinkItems
  <2>3. CASE text[i] \notin Links!Separators
    <3>1. e[i] = text[i]
      BY <1>3, <2>3
    <3>2. ~Links!IsEscape(text[i])
      BY <2>1 DEF Links!IsEscape, Links!Is
    <3>3. QED
      BY <2>1, <2>3, <3>1, <3>2 DEF LinkItems
  <2>4. QED
    BY <2>2, <2>3
<1>5. e \in Seq(LinkItems) /\ Len(e) = Len(text)
  <2>1. e \in [1..Len(text) -> LinkItems]
    BY <1>3, <1>4
  <2>2. QED
    BY <1>2, <2>1
<1>6. \A c \in Links!Separators : Misses(e, c)
  BY <1>3, <1>4 DEF Misses
<1>7. Links!Decoded(e) = text
  <2>1. Links!Decoded(e) =
          [i \in 1..Len(text) |-> IF Links!IsEscape(e[i]) THEN e[i].escaped ELSE e[i]]
    BY <1>3 DEF Links!Decoded
  <2>2. text = [i \in 1..Len(text) |-> text[i]]
    BY <1>2
  <2>3. QED
    BY <1>4, <2>1, <2>2
<1>8. text # <<>> => e # <<>>
  BY <1>2, <1>5
<1>9. QED
  BY <1>1, <1>5, <1>6, <1>7, <1>8

\* Base64, of either alphabet and with or without its padding, is decoded.
LEMMA Base64Is ==
  ASSUME NEW text \in Seq(Links!Chars \cup Links!Numbers \cup Links!Jsons), NEW safe \in BOOLEAN,
         NEW kept \in {0, Links!Padding(text)}, NEW run, run = Links!Base64(text, safe, kept)
  PROVE  run \in Links!Runs /\ run \notin Links!Chars /\ Links!DecodeBase64(<<run>>) = text
<1>1. Len(text) \in Nat
  OBVIOUS
<1>2. PICK q \in Nat, r \in 0..2 : Len(text) = 3 * q + r
  <2>1. Len(text) = 3 * (Len(text) \div 3) + (Len(text) % 3)
    BY <1>1
  <2>2. Len(text) \div 3 \in Nat /\ Len(text) % 3 \in 0..2
    BY <1>1
  <2>3. QED
    BY <2>1, <2>2
<1>3. Len(text) % 3 = r
  BY <1>2
<1>4. Links!Padding(text) = (IF r = 0 THEN 0 ELSE 3 - r)
  BY <1>3 DEF Links!Padding
<1>5. Links!Base64Length(text) = 4 * q + (IF r = 0 THEN 0 ELSE r + 1)
  BY <1>2 DEF Links!Base64Length
<1>6. run.text = text /\ run.kept = kept /\ kept \in 0..2 /\ run \in Links!Runs
  BY <1>4 DEF Links!Base64, Links!Runs
<1>7. run \notin Links!Chars /\ "text" \in DOMAIN run
  BY <1>6, CharsApart DEF Links!Base64
<1>8. PICK length : length = (Links!Base64Length(text) + kept) % 4
  OBVIOUS
<1>9. kept + (CASE length = 2 -> 2 [] length = 3 -> 1 [] OTHER -> 0) = Links!Padding(text)
  <2>1. CASE kept = 0
    <3>1. length = IF r = 0 THEN 0 ELSE r + 1
      BY <1>2, <1>5, <1>8, <2>1
    <3>2. QED
      BY <1>2, <1>4, <2>1, <3>1
  <2>2. CASE kept = Links!Padding(text)
    <3>1. length = 0
      <4>1. Links!Base64Length(text) + kept = IF r = 0 THEN 4 * q ELSE 4 * (q + 1)
        BY <1>2, <1>4, <1>5, <2>2
      <4>2. QED
        BY <1>2, <1>8, <4>1
    <3>2. QED
      BY <1>4, <2>2, <3>1
  <2>3. QED
    BY <2>1, <2>2
<1>10. Links!DecodeBase64(<<run>>) = text
  <2>1. Len(<<run>>) = 1 /\ <<run>>[1] = run
    OBVIOUS
  <2>2. Links!IsBase64(run)
    BY <1>7 DEF Links!IsBase64, Links!Is
  <2>3. QED
    BY <1>6, <1>8, <1>9, <2>1, <2>2 DEF Links!DecodeBase64
<1>11. QED
  BY <1>6, <1>7, <1>10

\* What an account is made of.
LEMMA AccountIs ==
  ASSUME NEW a \in Links!Accounts
  PROVE  /\ a.password \in Seq(Links!Chars) /\ a.password # <<>> /\ a.name \in Seq(Links!Chars)
         /\ a.host \in Seq(Letters \cup {Colon}) /\ a.host \in Seq(Links!Chars) /\ a.port \in Nat
         /\ Method \in Seq(Letters) /\ Method \in Seq(Links!Chars)
<1>1. /\ a.password \in Links!Texts \ {<<>>} /\ a.name \in Links!Texts
      /\ a.host \in Seq(Letters \cup {Colon}) /\ a.port \in Nat /\ Method \in Seq(Letters)
  BY ConstantsTyped DEF Links!ConstantsTyped, Links!Accounts
<1>2. ASSUME NEW R, NEW Q, R \subseteq Q, NEW t \in Seq(R) PROVE t \in Seq(Q)
  BY <1>2
<1>3. Letters \cup {Colon} \subseteq Links!Chars /\ Letters \subseteq Links!Chars
  BY CharsApart
<1>4. a.host \in Seq(Links!Chars) /\ Method \in Seq(Links!Chars)
  BY <1>1, <1>2, <1>3
<1>5. QED
  BY <1>1, <1>4, CharsApart

\* A text of some items misses what is none of them.
LEMMA MissesOthers ==
  ASSUME NEW R, NEW t \in Seq(R), NEW c, c \notin R
  PROVE  Misses(t, c)
BY DEF Misses

\* Fewer items make texts of more.
LEMMA SeqWider ==
  ASSUME NEW R, NEW Q, R \subseteq Q, NEW t \in Seq(R)
  PROVE  t \in Seq(Q)
OBVIOUS

\* An address's host, in brackets where it is an IPv6 address.
LEMMA BracketedIs ==
  ASSUME NEW a \in Links!Accounts
  PROVE  /\ Links!Bracketed(a.host) \in Seq(Links!Chars)
         /\ \A c \in {At, Hash, Question} : Misses(Links!Bracketed(a.host), c)
<1>1. CASE Links!Places(a.host, Colon) = {}
  <2>1. Links!Bracketed(a.host) = a.host
    BY <1>1 DEF Links!Bracketed
  <2>2. \A c \in {At, Hash, Question} : c \notin Letters \cup {Colon}
    BY CharsApart
  <2>3. QED
    BY <2>1, <2>2, AccountIs, MissesOthers
<1>2. CASE Links!Places(a.host, Colon) # {}
  <2>1. Links!Bracketed(a.host) = <<Open>> \o a.host \o <<Close>>
    BY <1>2 DEF Links!Bracketed
  <2> DEFINE R == Letters \cup {Colon, Open, Close}
  <2>2. a.host \in Seq(Letters \cup {Colon}) /\ Letters \cup {Colon} \subseteq R
    BY AccountIs
  <2>3. a.host \in Seq(R) /\ <<Open>> \in Seq(R) /\ <<Close>> \in Seq(R)
    BY <2>2, SeqWider
  <2>4. Links!Bracketed(a.host) \in Seq(R)
    <3> HIDE DEF R
    <3>1. QED
      BY <2>1, <2>3
  <2>5. \A c \in {At, Hash, Question} : c \notin R
    BY CharsApart
  <2>6. R \subseteq Links!Chars
    BY CharsApart
  <2> HIDE DEF R
  <2>7. QED
    BY <2>4, <2>5, <2>6, SeqWider, MissesOthers
<1>3. QED
  BY <1>1, <1>2

\* A port's item.
LEMMA NumberIs ==
  ASSUME NEW n \in Nat
  PROVE  /\ Links!Number(n) \in Links!Numbers /\ Links!Number(n) \notin Links!Chars
         /\ Links!ParsePort(<<Links!Number(n)>>) = Links!Port(n)
<1>1. Links!Number(n) \in Links!Numbers /\ Links!Number(n).number = n
      /\ "number" \in DOMAIN Links!Number(n)
  BY DEF Links!Number, Links!Numbers
<1>2. Links!Number(n) \notin Links!Chars
  BY <1>1, CharsApart
<1>3. PICK x : x = Links!Number(n)
  OBVIOUS
<1>4. Links!IsNumber(x) /\ Len(<<x>>) = 1 /\ <<x>>[1] = x
  BY <1>1, <1>2, <1>3 DEF Links!IsNumber, Links!Is
<1>5. Links!ParsePort(<<x>>) = Links!Port(n)
  BY <1>1, <1>3, <1>4 DEF Links!ParsePort
<1>6. QED
  BY <1>1, <1>2, <1>3, <1>5

\* An address is its host, a colon and its port, in which no other separator is.
LEMMA AddressIs ==
  ASSUME NEW a \in Links!Accounts
  PROVE  /\ JoinedAt(Links!Address(a), Links!Bracketed(a.host), Colon, <<Links!Number(a.port)>>)
         /\ Links!Address(a) \in Seq(Links!Chars \cup Links!Numbers)
         /\ \A c \in {At, Hash, Question} : Misses(Links!Address(a), c)
         /\ Misses(<<Links!Number(a.port)>>, Colon)
<1> DEFINE R == Links!Chars \cup Links!Numbers
           x == Links!Number(a.port)
           b == Links!Bracketed(a.host)
<1>1. x \in R /\ x \notin Links!Chars
  BY AccountIs, NumberIs
<1>2. Colon \in R /\ \A c \in {At, Hash, Question, Colon} : c \in Links!Chars
  BY CharsApart
<1>3. b \in Seq(R)
  <2>1. b \in Seq(Links!Chars) /\ Links!Chars \subseteq R
    BY BracketedIs
  <2> HIDE DEF R, b
  <2>2. QED
    BY <2>1, SeqWider
<1>4. Links!Address(a) = b \o <<Colon, x>>
  BY DEF Links!Address
<1> HIDE DEF R, x, b
<1>5. <<Colon, x>> = <<Colon>> \o <<x>> /\ <<Colon>> \in Seq(R) /\ <<x>> \in Seq(R)
  BY <1>1, <1>2
<1>6. JoinedAt(Links!Address(a), b, Colon, <<x>>)
  <2>1. (b \o <<Colon>>) \o <<x>> = b \o (<<Colon>> \o <<x>>)
    BY <1>3, <1>5, ConcatAssociative
  <2>2. QED
    BY <1>4, <1>5, <2>1 DEF JoinedAt
<1>7. Links!Address(a) \in Seq(R)
  BY <1>2, <1>3, <1>5, <1>6, JoinedIs
<1>8. \A c \in Links!Chars : Misses(<<x>>, c)
  BY <1>1 DEF Misses
<1>9. ASSUME NEW c \in {At, Hash, Question} PROVE Misses(Links!Address(a), c)
  <2>1. Misses(b, c)
    BY BracketedIs DEF b
  <2>2. <<Colon, x>> \in Seq(R) /\ Misses(<<Colon, x>>, c)
    <3>1. c # Colon /\ c # x
      BY <1>1, <1>2, CharsApart
    <3>2. QED
      BY <1>1, <1>2, <3>1 DEF Misses
  <2>3. QED
    BY <1>3, <1>4, <2>1, <2>2, MissesBoth
<1>10. QED
  BY <1>2, <1>6, <1>7, <1>8, <1>9 DEF R, x, b

\* parse_ss_uri reads an address as the host and the port it is made of.
LEMMA HostPortIs ==
  ASSUME NEW a \in Links!Accounts
  PROVE  Links!HostPort(Links!Address(a)) = <<a.host, Links!Port(a.port)>>
<1> DEFINE R == Links!Chars \cup Links!Numbers
           x == Links!Number(a.port)
           t == Links!Address(a)
<1>1. x \in R /\ Links!ParsePort(<<x>>) = Links!Port(a.port) /\ Misses(<<x>>, Colon) /\ <<x>> \in Seq(R)
  BY AccountIs, NumberIs, AddressIs
<1>2. /\ Colon \in R /\ Open \in R /\ Close \in R
      /\ Open \notin Letters \cup {Colon} /\ Close \notin Letters \cup {Colon}
  BY CharsApart
<1>3. a.host \in Seq(R) /\ a.host \in Seq(Letters \cup {Colon})
  <2>1. a.host \in Seq(Links!Chars) /\ Links!Chars \subseteq R
    BY AccountIs
  <2> HIDE DEF R
  <2>2. QED
    BY <2>1, AccountIs, SeqWider
<1>4. JoinedAt(t, Links!Bracketed(a.host), Colon, <<x>>) /\ t \in Seq(R)
  BY AddressIs
<1> HIDE DEF R, x, t
<1>5. CASE Links!Places(a.host, Colon) = {}
  <2>1. JoinedAt(t, a.host, Colon, <<x>>)
    BY <1>4, <1>5 DEF Links!Bracketed
  <2>2. CutLast(t, Colon, a.host, <<x>>)
    BY <1>1, <1>2, <1>3, <2>1, LastIs
  <2>3. t # <<>> /\ t[1] # Open
    <3>1. /\ Len(t) = Len(a.host) + 1 + Len(<<x>>) /\ t[Len(a.host) + 1] = Colon /\ Len(a.host) \in Nat
          /\ \A i \in 1..Len(a.host) : t[i] = a.host[i]
      <4>1. PartsAt(t, a.host, Colon, <<x>>)
        BY <1>1, <1>2, <1>3, <2>1, JoinedIs
      <4>2. QED
        BY <4>1 DEF PartsAt
    <3>2. t # <<>>
      BY <1>4, <3>1
    <3>3. CASE Len(a.host) = 0
      BY <1>2, <3>1, <3>3
    <3>4. CASE Len(a.host) # 0
      <4>1. 1 \in 1..Len(a.host)
        BY <3>1, <3>4
      <4>2. a.host[1] \in Letters \cup {Colon}
        BY <1>3, <4>1
      <4>3. QED
        BY <1>2, <3>1, <3>2, <4>1, <4>2
    <3>5. QED
      BY <3>2, <3>3, <3>4
  <2>4. QED
    BY <1>1, <2>2, <2>3 DEF Links!HostPort, CutLast, t
<1>6. CASE Links!Places(a.host, Colon) # {}
  <2> DEFINE u == <<Open>> \o a.host
             v == <<Colon, x>>
  <2>1. u \in Seq(R) /\ v \in Seq(R) /\ <<Open>> \in Seq(R) /\ <<Close>> \in Seq(R)
        /\ <<Colon>> \in Seq(R) /\ <<x>> \in Seq(R) /\ v = <<Colon>> \o <<x>>
    BY <1>1, <1>2, <1>3
  <2>2. t = (u \o <<Close>>) \o <<Colon>> \o <<x>>
    BY <1>4, <1>6 DEF Links!Bracketed, JoinedAt
  <2>3. Len(u) = Len(a.host) + 1 /\ u[1] = Open /\ Len(a.host) \in Nat
        /\ \A i \in 1..Len(a.host) : u[i + 1] = a.host[i]
    BY <1>2, <1>3
  <2>4. v[1] = Colon /\ v # <<>> /\ Tail(v) = <<x>>
    BY <2>1
  <2>5. Misses(u, Close)
    <3>1. Misses(a.host, Close)
      BY <1>2, <1>3, MissesOthers
    <3>2. Misses(<<Open>>, Close)
      BY CharsApart DEF Misses
    <3>3. QED
      BY <1>3, <2>1, <3>1, <3>2, MissesBoth
  <2> HIDE DEF u, v
  <2>6. JoinedAt(t, u, Close, v)
    <3>1. PICK w : w = u \o <<Close>>
      OBVIOUS
    <3>2. w \in Seq(R)
      BY <2>1, <3>1
    <3>3. (w \o <<Colon>>) \o <<x>> = w \o (<<Colon>> \o <<x>>)
      BY <2>1, <3>2, ConcatAssociative
    <3>4. QED
      BY <2>1, <2>2, <3>1, <3>3 DEF JoinedAt
  <2>7. Links!FirstPlace(t, Close) = Len(u) + 1 /\ CutFirst(t, Close, u, v)
    BY <1>2, <2>1, <2>5, <2>6, FirstIs
  <2>8. /\ Len(t) = Len(u) + 1 + Len(v) /\ Len(v) \in Nat
        /\ \A i \in 1..Len(u) : t[i] = u[i]
    <3>1. PartsAt(t, u, Close, v)
      BY <1>2, <2>1, <2>6, JoinedIs
    <3>2. QED
      BY <3>1 DEF PartsAt
  <2>9. t # <<>> /\ t[1] = Open
    BY <1>4, <2>3, <2>8
  <2>10. SubSeq(t, 2, Len(a.host) + 1) = a.host
    <3>1. PICK h : h = SubSeq(t, 2, Len(a.host) + 1)
      OBVIOUS
    <3>2. h \in Seq(R) /\ Len(h) = Len(a.host) /\ \A i \in 1..Len(a.host) : h[i] = t[i + 1]
      BY <1>4, <2>3, <2>8, <3>1
    <3>3. \A i \in 1..Len(a.host) : h[i] = a.host[i]
      BY <2>3, <2>8, <3>2
    <3>4. h = a.host
      BY <1>3, <3>2, <3>3
    <3>5. QED
      BY <3>1, <3>4
  <2>11. (Len(u) + 1) - 1 = Len(a.host) + 1
    BY <2>3
  <2>12. Links!HostPort(t) = <<SubSeq(t, 2, (Len(u) + 1) - 1), Links!ParsePort(Tail(v))>>
    BY <2>4, <2>7, <2>9 DEF Links!HostPort, CutFirst
  <2>13. QED
    BY <1>1, <2>4, <2>10, <2>11, <2>12 DEF t
<1>7. QED
  BY <1>5, <1>6

\* method:password is cut at the first colon, whatever the password holds.
LEMMA MethodPasswordIs ==
  ASSUME NEW a \in Links!Accounts
  PROVE  /\ Links!MethodPassword(a) \in Seq(Links!Chars)
         /\ CutFirst(Links!MethodPassword(a), Colon, Method, a.password)
         /\ Misses(a.password, At) => Misses(Links!MethodPassword(a), At)
<1> DEFINE R == Links!Chars
           t == Links!MethodPassword(a)
<1>1. Method \in Seq(R) /\ a.password \in Seq(R) /\ Colon \in R /\ Misses(Method, Colon) /\ Misses(Method, At)
  <2>1. Method \in Seq(Letters) /\ Colon \notin Letters /\ At \notin Letters
    BY AccountIs, CharsApart
  <2>2. QED
    BY <2>1, AccountIs, CharsApart, MissesOthers
<1>2. JoinedAt(t, Method, Colon, a.password)
  BY DEF JoinedAt, Links!MethodPassword
<1> HIDE DEF R, t
<1>3. t \in Seq(R) /\ CutFirst(t, Colon, Method, a.password)
  BY <1>1, <1>2, JoinedIs, FirstIs
<1>4. ASSUME Misses(a.password, At) PROVE Misses(t, At)
  <2>1. <<Colon>> \in Seq(R) /\ Misses(<<Colon>>, At)
    BY <1>1, CharsApart DEF Misses
  <2>2. PICK w : w = Method \o <<Colon>>
    OBVIOUS
  <2>3. w \in Seq(R)
    BY <1>1, <2>1, <2>2
  <2>4. Misses(w, At)
    BY <1>1, <2>1, <2>2, MissesBoth
  <2>5. t = w \o a.password
    BY <1>2, <2>2 DEF JoinedAt
  <2>6. QED
    BY <1>1, <1>4, <2>3, <2>4, <2>5, MissesBoth
<1>5. QED
  BY <1>3, <1>4 DEF R, t

\* What is read of an account: itself, or nothing where its port is none.
Good(p, a) ==
  /\ p \in Links!ProxyParams /\ Links!Same(p, a) /\ a.port <= Links!MaxPort
  /\ p.alter_id \in 0..AlterIds - 1
Outcome(p, a) == IF a.port <= Links!MaxPort THEN Good(p, a) ELSE p = Refused

\* The values that stand for none are no parameters and no numbers.
LEMMA NoneApart ==
  /\ Nil # Refused /\ Nil \notin Nat /\ Refused \notin Nat /\ AlterIds \in Nat \ {0}
  /\ Nil \notin Links!ProxyParams /\ Refused \notin Links!ProxyParams
  /\ Nil \notin Links!Texts
  /\ Refused \notin Seq(Links!Chars \cup Links!Numbers \cup Links!Jsons)
  /\ Refused \notin Links!Texts \X (Nat \cup {Refused})
BY ConstantsTyped DEF Links!ConstantsTyped

\* A port is one, or refused.
LEMMA PortOf ==
  ASSUME NEW n \in Nat
  PROVE  /\ n <= Links!MaxPort => Links!Port(n) = n
         /\ ~(n <= Links!MaxPort) => Links!Port(n) = Refused
         /\ Links!Port(n) \in Nat \cup {Refused}
BY DEF Links!Port

\* The parameters that ss links give.
SsParams(host, port, name, method, password) ==
  [protocol |-> "shadowsocks", host |-> host, port |-> port, name |-> name, password |-> password,
   method |-> method, network |-> "tcp", security |-> Links!Empty, alter_id |-> 0]

\* What method:password, an address and a name give.
LEMMA SsIs ==
  ASSUME NEW m, NEW method, NEW password, CutFirst(m, Colon, method, password),
         NEW host, NEW port, NEW name, <<host, port>> # Refused
  PROVE  Links!Ss(m, <<host, port>>, name) =
           IF port = Refused THEN Refused ELSE SsParams(host, port, name, method, password)
<1>1. Links!Places(m, Colon) # {} /\ Links!Before(m, Links!FirstPlace(m, Colon)) = method
      /\ Links!After(m, Links!FirstPlace(m, Colon)) = password
  BY DEF CutFirst
<1>2. <<host, port>>[1] = host /\ <<host, port>>[2] = port
  OBVIOUS
<1>3. [Links!Params("shadowsocks", host, port, name) EXCEPT !.method = method, !.password = password]
        = SsParams(host, port, name, method, password)
  <2>1. PICK q : q = Links!Params("shadowsocks", host, port, name)
    OBVIOUS
  <2>2. PICK r : r = [q EXCEPT !.method = method]
    OBVIOUS
  <2>3. [q EXCEPT !.method = method, !.password = password] = [r EXCEPT !.password = password]
    BY <2>2
  <2>4. r = [protocol |-> "shadowsocks", host |-> host, port |-> port, name |-> name,
             password |-> Nil, method |-> method, network |-> "tcp", security |-> Links!Empty,
             alter_id |-> 0]
    BY <2>1, <2>2 DEF Links!Params
  <2>5. [r EXCEPT !.password = password] = SsParams(host, port, name, method, password)
    BY <2>4 DEF SsParams
  <2>6. QED
    BY <2>1, <2>3, <2>5
<1>4. QED
  BY <1>1, <1>2, <1>3 DEF Links!Ss

\* They are parameters of corvex.
LEMMA SsTyped ==
  ASSUME NEW host \in Links!Texts, NEW port \in Nat, NEW name \in Links!Texts,
         NEW method \in Links!Texts, NEW password \in Links!Texts
  PROVE  SsParams(host, port, name, method, password) \in Links!ProxyParams
<1>1. Links!Empty \in STRING \cup {Links!Empty, "tls"} /\ "tcp" \in STRING \cup {"tcp"}
  OBVIOUS
<1>2. "shadowsocks" \in {"vless", "vmess", "trojan", "shadowsocks"}
  OBVIOUS
<1>3. QED
  BY <1>1, <1>2 DEF SsParams, Links!ProxyParams

\* An account's method, password, host, port and name are read as they are.
LEMMA SsMeans ==
  ASSUME NEW a \in Links!Accounts, NEW host \in {a.host, Links!Bracketed(a.host)},
         NEW p, p = Links!Ss(Links!MethodPassword(a), <<host, Links!Port(a.port)>>, a.name)
  PROVE  Outcome(p, a)
<1>1. host \in Links!Texts
  BY AccountIs, BracketedIs, CharsApart
<1>2. <<host, Links!Port(a.port)>> # Refused
  BY <1>1, AccountIs, PortOf, NoneApart
<1>3. p = IF Links!Port(a.port) = Refused THEN Refused
          ELSE SsParams(host, Links!Port(a.port), a.name, Method, a.password)
  BY <1>2, MethodPasswordIs, SsIs
<1>4. CASE a.port <= Links!MaxPort
  <2>1. p = SsParams(host, a.port, a.name, Method, a.password)
    BY <1>3, <1>4, AccountIs, PortOf, NoneApart
  <2>2. /\ p.host = host /\ p.port = a.port /\ p.name = a.name /\ p.password = a.password
        /\ p.alter_id = 0
    BY <2>1 DEF SsParams
  <2>3. p \in Links!ProxyParams
    <3>1. a.name \in Links!Texts /\ Method \in Links!Texts /\ a.password \in Links!Texts /\ a.port \in Nat
      BY AccountIs, CharsApart
    <3>2. QED
      BY <1>1, <2>1, <3>1, SsTyped
  <2>4. 0 \in 0..AlterIds - 1
    BY NoneApart
  <2>5. QED
    BY <1>4, <2>2, <2>3, <2>4 DEF Outcome, Good, Links!Same
<1>5. CASE ~(a.port <= Links!MaxPort)
  BY <1>3, <1>5, AccountIs, PortOf DEF Outcome
<1>6. QED
  BY <1>4, <1>5

\* The name of an ss link is what follows its last "#".
LEMMA TagIs ==
  ASSUME NEW a \in Links!Accounts, NEW main \in Seq(LinkItems), Misses(main, Hash), NEW t,
         t = main \o Links!Tag(a)
  PROVE  /\ Links!ParseSs(t) = IF Links!Places(main, At) # {} THEN Links!ParseSip002(main, a.name)
                               ELSE Links!ParseLegacy(main, a.name)
         /\ t \in Seq(LinkItems) /\ Links!Places(main, At) \subseteq Links!Places(t, At)
<1> DEFINE e == Links!Encoded(a.name)
<1>1. CASE a.name = <<>>
  <2>1. t = main
    BY <1>1 DEF Links!Tag
  <2>2. Links!Places(t, Hash) = {}
    BY <2>1, NoPlace
  <2>3. QED
    BY <1>1, <2>1, <2>2 DEF Links!ParseSs
<1>2. CASE a.name # <<>>
  <2>1. a.name \in Links!Texts /\ Hash \in Links!Separators /\ Hash \in LinkItems
    BY AccountIs, CharsApart DEF LinkItems
  <2>2. e \in Seq(LinkItems) /\ Misses(e, Hash) /\ Links!Decoded(e) = a.name
    BY <2>1, EncodedIs
  <2>3. t = main \o (<<Hash>> \o e)
    BY <1>2 DEF Links!Tag
  <2> HIDE DEF e
  <2>4. JoinedAt(t, main, Hash, e)
    <3>1. <<Hash>> \in Seq(LinkItems)
      BY <2>1
    <3>2. (main \o <<Hash>>) \o e = main \o (<<Hash>> \o e)
      BY <2>2, <3>1, ConcatAssociative
    <3>3. QED
      BY <2>3, <3>2 DEF JoinedAt
  <2>5. CutLast(t, Hash, main, e)
    BY <2>1, <2>2, <2>4, LastIs
  <2>6. Links!ParseSs(t) = IF Links!Places(main, At) # {} THEN Links!ParseSip002(main, a.name)
                           ELSE Links!ParseLegacy(main, a.name)
    BY <2>2, <2>5 DEF Links!ParseSs, CutLast
  <2>7. t \in Seq(LinkItems) /\ PartsAt(t, main, Hash, e)
    BY <2>1, <2>2, <2>4, JoinedIs
  <2>8. Links!Places(main, At) \subseteq Links!Places(t, At)
    BY <2>7 DEF Links!Places, PartsAt
  <2>9. QED
    BY <2>6, <2>7, <2>8
<1>3. QED
  BY <1>1, <1>2

-----------------------------------------------------------------------------
(***************************************************************************)
(* ShareLink: what each kind of link is read as.                           *)
(***************************************************************************)
\* What is read of an account, or of a link that is refused.
Typed(p) ==
  /\ p.protocol \in {"vless", "vmess", "trojan", "shadowsocks"}
  /\ p.port \in 0..Links!MaxPort /\ p.alter_id \in 0..AlterIds - 1
CutShort(l, a) == l.form = "legacy" /\ Links!Places(a.password, At) # {}
Unclear(l) == l.form = "sip002" /\ Links!Cardinality(Links!Places(l.text, At)) > 1
Understood(l, a) ==
  LET p == Links!ParseUri(l)
  IN  IF p = Refused THEN a.port > Links!MaxPort \/ Unclear(l) \/ CutShort(l, a)
                     ELSE Typed(p) /\ (Links!Same(p, a) \/ CutShort(l, a))

\* An account whose link is read as itself, or refused for its port, is understood.
LEMMA OutcomeIs ==
  ASSUME NEW a \in Links!Accounts, NEW l, Outcome(Links!ParseUri(l), a)
  PROVE  Understood(l, a)
<1>1. a.port \in Nat /\ Links!MaxPort \in Nat
  BY AccountIs DEF Links!MaxPort
<1>2. CASE a.port <= Links!MaxPort
  <2>1. Good(Links!ParseUri(l), a)
    BY <1>2 DEF Outcome
  <2>2. Links!ParseUri(l) # Refused
    BY <2>1, NoneApart DEF Good
  <2>3. Links!ParseUri(l).protocol \in {"vless", "vmess", "trojan", "shadowsocks"}
    BY <2>1 DEF Good, Links!ProxyParams
  <2>4. Links!ParseUri(l).port \in 0..Links!MaxPort
    BY <1>1, <1>2, <2>1 DEF Good, Links!Same
  <2>5. QED
    BY <2>1, <2>2, <2>3, <2>4 DEF Good, Typed, Understood
<1>3. CASE ~(a.port <= Links!MaxPort)
  <2>1. Links!ParseUri(l) = Refused /\ a.port > Links!MaxPort
    BY <1>1, <1>3 DEF Outcome
  <2>2. QED
    BY <2>1 DEF Understood
<1>4. QED
  BY <1>2, <1>3

\* A set of numbers that is not empty has a least one.
LEMMA LeastNumber == ASSUME NEW T, T \subseteq Nat, T # {} PROVE \E x \in T : \A y \in T : x <= y
<1>1. \E x \in T : \A y \in T : <<y, x>> \notin OpToRel(<, Nat)
  BY NatLessThanWellFounded, WFMin
<1>2. PICK x \in T : \A y \in T : <<y, x>> \notin OpToRel(<, Nat)
  BY <1>1
<1>3. ASSUME NEW y \in T PROVE x <= y
  <2>1. <<y, x>> \notin {pair \in Nat \X Nat : pair[1] < pair[2]}
    BY <1>2 DEF OpToRel
  <2>2. QED
    BY <1>3, <2>1
<1>4. QED
  BY <1>3

\* Of places in a text one is the last ...
LEMMA LastPlaceOf ==
  ASSUME NEW n \in Nat, NEW P, P \subseteq 1..n, P # {}
  PROVE  LET last == CHOOSE i \in P : \A j \in P : i >= j
         IN  last \in P /\ \A j \in P : last >= j
<1> DEFINE T == {n - i : i \in P}
<1>1. T \subseteq Nat /\ T # {}
  <2>1. \A i \in P : i \in 1..n /\ n - i \in Nat
    OBVIOUS
  <2>2. PICK i \in P : TRUE
    OBVIOUS
  <2>3. n - i \in T
    BY <2>2
  <2>4. QED
    BY <2>1, <2>3
<1>2. PICK x \in T : \A y \in T : x <= y
  <2> HIDE DEF T
  <2>1. QED
    BY <1>1, LeastNumber
<1>3. PICK i \in P : x = n - i
  BY <1>2
<1>4. \A j \in P : i >= j
  <2>1. ASSUME NEW j \in P PROVE i >= j
    <3>1. n - j \in T /\ j \in 1..n /\ i \in 1..n
      BY <2>1
    <3>2. x <= n - j
      <4> HIDE DEF T
      <4>1. QED
        BY <1>2, <3>1
    <3>3. QED
      BY <1>3, <3>1, <3>2
  <2>2. QED
    BY <2>1
<1>5. \E k \in P : \A j \in P : k >= j
  BY <1>4
<1>6. QED
  BY <1>5

\* ... and one the first.
LEMMA FirstPlaceOf ==
  ASSUME NEW n \in Nat, NEW P, P \subseteq 1..n, P # {}
  PROVE  (CHOOSE i \in P : \A j \in P : i <= j) \in P
<1>1. P \subseteq Nat
  OBVIOUS
<1>2. \E i \in P : \A j \in P : i <= j
  BY <1>1, LeastNumber
<1>3. QED
  BY <1>2

\* The last place of a separator is one of its places, and none comes after it.
LEMMA LastPlaceIn ==
  ASSUME NEW t, NEW c, NEW n \in Nat, DOMAIN t = 1..n, Links!Places(t, c) # {}
  PROVE  /\ Links!LastPlace(t, c) \in Links!Places(t, c)
         /\ \A j \in Links!Places(t, c) : Links!LastPlace(t, c) >= j
<1> DEFINE P == Links!Places(t, c)
<1>1. P \subseteq 1..n /\ P # {}
  BY DEF Links!Places
<1> HIDE DEF P
<1>2. LET last == CHOOSE i \in P : \A j \in P : i >= j
      IN  last \in P /\ \A j \in P : last >= j
  BY <1>1, LastPlaceOf
<1>3. QED
  BY <1>2 DEF Links!LastPlace, P

\* Two places of a separator are more than one.
LEMMA TwoPlaces ==
  ASSUME NEW t, NEW c, NEW n \in Nat, DOMAIN t = 1..n,
         NEW i \in Links!Places(t, c), NEW j \in Links!Places(t, c), i # j
  PROVE  Links!Cardinality(Links!Places(t, c)) > 1
<1> DEFINE P == Links!Places(t, c)
<1>1. IsFiniteSet(P)
  <2>1. IsFiniteSet(1..n)
    BY FS_Interval
  <2>2. P \in SUBSET (1..n)
    BY DEF Links!Places
  <2> HIDE DEF P
  <2>3. QED
    BY <2>1, <2>2, FS_Subset
<1>2. IsFiniteSet({i}) /\ Cardinality({i}) = 1
  BY FS_Singleton
<1>3. Cardinality({i} \cup {j}) = 2 /\ IsFiniteSet({i} \cup {j})
  <2>1. PICK S : S = {i}
    OBVIOUS
  <2>2. /\ IsFiniteSet(S \cup {j})
        /\ Cardinality(S \cup {j}) = IF j \in S THEN Cardinality(S) ELSE Cardinality(S) + 1
    BY <1>2, <2>1, FS_AddElement
  <2>3. j \notin S /\ Cardinality(S) = 1
    BY <1>2, <2>1
  <2>4. Cardinality(S \cup {j}) = 2 /\ IsFiniteSet(S \cup {j})
    <3>1. PICK U : U = S \cup {j}
      OBVIOUS
    <3>2. Cardinality(U) = Cardinality(S) + 1 /\ IsFiniteSet(U)
      BY <2>2, <2>3, <3>1
    <3>3. QED
      BY <2>3, <3>1, <3>2
  <2>5. QED
    BY <2>1, <2>4
<1>4. {i} \cup {j} \in SUBSET P
  OBVIOUS
<1> HIDE DEF P
<1>5. Cardinality({i} \cup {j}) <= Cardinality(P)
  BY <1>1, <1>4, FS_Subset
<1>6. Cardinality(P) \in Nat
  BY <1>1, FS_CardinalityType
<1>7. Links!Cardinality(P) = Cardinality(P)
  BY DEF Links!Cardinality, Cardinality
<1>8. QED
  BY <1>3, <1>5, <1>6, <1>7 DEF P

\* The parts of a SIP002 link: base64 of method:password, the address, and the
\* plugin's options.
LEMMA Sip002Parts ==
  ASSUME NEW a \in Links!Accounts, NEW plugin \in Plugins, NEW run \in Links!Runs,
         NEW main, main = <<run, At>> \o Links!Address(a) \o plugin,
         NEW rest, rest = Links!Address(a) \o plugin
  PROVE  /\ JoinedAt(main, <<run>>, At, rest) /\ <<run>> \in Seq(LinkItems) /\ rest \in Seq(LinkItems)
         /\ Links!Address(a) \in Seq(LinkItems)
         /\ plugin # <<>> => /\ JoinedAt(rest, Links!Address(a), Question, Tail(plugin))
                            /\ Tail(plugin) \in Seq(LinkItems)
         /\ Misses(main, Hash)
         /\ Misses(plugin, At) => Misses(rest, At)
<1> DEFINE address == Links!Address(a)
<1>1. /\ address \in Seq(Links!Chars \cup Links!Numbers)
      /\ Misses(address, At) /\ Misses(address, Hash)
  BY AddressIs
<1>2. plugin \in Seq(Links!Chars \ {Hash}) /\ (plugin # <<>> => plugin[1] = Question)
  BY ConstantsTyped DEF Links!ConstantsTyped
<1>3. /\ run \in LinkItems /\ At \in LinkItems /\ Question \in LinkItems
      /\ Links!Chars \cup Links!Numbers \subseteq LinkItems /\ Links!Chars \ {Hash} \subseteq LinkItems
  BY CharsApart DEF LinkItems
<1> HIDE DEF address
<1>4. address \in Seq(LinkItems) /\ plugin \in Seq(LinkItems)
  BY <1>1, <1>2, <1>3, SeqWider
<1>5. /\ <<run>> \in Seq(LinkItems) /\ <<At>> \in Seq(LinkItems) /\ <<run, At>> \in Seq(LinkItems)
      /\ <<run, At>> = <<run>> \o <<At>> /\ <<Question>> \in Seq(LinkItems)
  BY <1>3
<1>6. rest \in Seq(LinkItems)
  BY <1>4 DEF address
<1>7. main = <<run, At>> \o rest
  <2>1. PICK w : w = <<run, At>>
    OBVIOUS
  <2>2. (w \o address) \o plugin = w \o (address \o plugin)
    BY <1>4, <1>5, <2>1, ConcatAssociative
  <2>3. QED
    BY <2>1, <2>2 DEF address
<1>8. JoinedAt(main, <<run>>, At, rest)
  BY <1>5, <1>7 DEF JoinedAt
<1>9. Misses(plugin, Hash)
  BY <1>2 DEF Misses
<1>10. Misses(rest, Hash)
  BY <1>1, <1>4, <1>9, MissesBoth DEF address
<1>11. Misses(main, Hash)
  <2>1. run # Hash /\ At # Hash
    BY CharsApart
  <2>2. PICK w : w = <<run, At>>
    OBVIOUS
  <2>3. Misses(w, Hash) /\ w \in Seq(LinkItems)
    BY <1>5, <2>1, <2>2 DEF Misses
  <2>4. QED
    BY <1>6, <1>7, <1>10, <2>2, <2>3, MissesBoth
<1>12. Misses(plugin, At) => Misses(rest, At)
  BY <1>1, <1>4, MissesBoth DEF address
<1>13. ASSUME plugin # <<>>
       PROVE  JoinedAt(rest, address, Question, Tail(plugin)) /\ Tail(plugin) \in Seq(LinkItems)
  <2>1. plugin[1] = Question /\ Tail(plugin) \in Seq(LinkItems)
    BY <1>2, <1>4, <1>13
  <2>2. PICK v : v = Tail(plugin)
    OBVIOUS
  <2>3. plugin = <<Question>> \o v
    BY <1>4, <1>5, <1>13, <2>1, <2>2
  <2>4. (address \o <<Question>>) \o v = address \o (<<Question>> \o v)
    BY <1>4, <1>5, <2>1, <2>2, ConcatAssociative
  <2>5. QED
    BY <2>1, <2>2, <2>3, <2>4 DEF JoinedAt, address
<1>14. QED
  BY <1>4, <1>5, <1>6, <1>8, <1>11, <1>12, <1>13 DEF address

\* A SIP002 link is read as its account, unless its options hold an "@".
LEMMA Sip002Is ==
  ASSUME NEW a \in Links!Accounts, NEW safe \in BOOLEAN,
         NEW kept \in {0, Links!Padding(Links!MethodPassword(a))}, NEW plugin \in Plugins,
         NEW l, l = Links!Sip002(a, safe, kept, plugin)
  PROVE  Understood(l, a)
<1> DEFINE run == Links!Base64(Links!MethodPassword(a), safe, kept)
           rest == Links!Address(a) \o plugin
           main == <<run, At>> \o Links!Address(a) \o plugin
<1>1. l.scheme = "ss" /\ l.form = "sip002" /\ l.text = main \o Links!Tag(a)
  BY DEF Links!Sip002
<1>2. run \in Links!Runs /\ Links!DecodeBase64(<<run>>) = Links!MethodPassword(a)
      /\ Links!MethodPassword(a) \in Seq(Links!Chars \cup Links!Numbers \cup Links!Jsons)
  <2>1. PICK S : S = Links!Chars \cup Links!Numbers \cup Links!Jsons
    OBVIOUS
  <2>2. Links!MethodPassword(a) \in Seq(S)
    BY <2>1, MethodPasswordIs, SeqWider
  <2>3. QED
    BY <2>1, <2>2, Base64Is
<1>3. Links!DecodeBase64(<<run>>) # Refused
  BY <1>2, NoneApart
<1> HIDE DEF run
<1>4. /\ JoinedAt(main, <<run>>, At, rest) /\ <<run>> \in Seq(LinkItems) /\ rest \in Seq(LinkItems)
      /\ Links!Address(a) \in Seq(LinkItems)
      /\ plugin # <<>> => /\ JoinedAt(rest, Links!Address(a), Question, Tail(plugin))
                         /\ Tail(plugin) \in Seq(LinkItems)
      /\ Misses(main, Hash)
      /\ Misses(plugin, At) => Misses(rest, At)
  BY <1>2, Sip002Parts
<1> HIDE DEF main
<1>5. At \in LinkItems /\ Question \in LinkItems
  BY CharsApart DEF LinkItems
<1>6. main \in Seq(LinkItems) /\ PartsAt(main, <<run>>, At, rest) /\ Len(<<run>>) = 1
  <2> HIDE DEF rest
  <2>1. QED
    BY <1>4, <1>5, JoinedIs
<1>7. DOMAIN main = 1..Len(main) /\ Len(main) \in Nat /\ 2 \in Links!Places(main, At)
  <2> HIDE DEF rest
  <2>1. /\ DOMAIN main = 1..Len(main) /\ Len(main) = 1 + 1 + Len(rest) /\ Len(rest) \in Nat
        /\ main[1 + 1] = At
    BY <1>6 DEF PartsAt
  <2>2. QED
    BY <2>1 DEF Links!Places
<1>8. /\ Links!ParseUri(l) = Links!ParseSip002(main, a.name)
      /\ l.text \in Seq(LinkItems) /\ Links!Places(main, At) \subseteq Links!Places(l.text, At)
  BY <1>1, <1>4, <1>6, <1>7, TagIs DEF Links!ParseUri
<1>9. CASE Links!LastPlace(main, At) = 2
  <2>1. Links!Before(main, 2) = <<run>> /\ Links!After(main, 2) = rest
    <3> HIDE DEF rest
    <3>1. Links!Before(main, Len(<<run>>) + 1) = <<run>> /\ Links!After(main, Len(<<run>>) + 1) = rest
      BY <1>4, <1>5, CutAt
    <3>2. Len(<<run>>) + 1 = 2
      BY <1>6
    <3>3. QED
      BY <3>1, <3>2
  <2>2. (IF Links!Places(rest, Question) = {} THEN rest
         ELSE Links!Before(rest, Links!FirstPlace(rest, Question))) = Links!Address(a)
    <3>1. Misses(Links!Address(a), Question)
      BY AddressIs
    <3>2. CASE plugin = <<>>
      <4>1. rest = Links!Address(a)
        BY <1>4, <3>2
      <4>2. QED
        BY <3>1, <4>1, NoPlace
    <3>3. CASE plugin # <<>>
      <4> HIDE DEF rest
      <4>1. CutFirst(rest, Question, Links!Address(a), Tail(plugin))
        BY <1>4, <1>5, <3>1, <3>3, FirstIs
      <4>2. QED
        BY <4>1 DEF CutFirst
    <3>4. QED
      BY <3>2, <3>3
  <2> HIDE DEF rest
  <2>3. Links!ParseSip002(main, a.name) =
          Links!Ss(Links!MethodPassword(a), Links!HostPort(Links!Address(a)), a.name)
    BY <1>2, <1>3, <1>9, <2>1, <2>2 DEF Links!ParseSip002
  <2>4. PICK p : p = Links!ParseUri(l)
    OBVIOUS
  <2>5. p = Links!Ss(Links!MethodPassword(a), <<a.host, Links!Port(a.port)>>, a.name)
    BY <1>8, <2>3, <2>4, HostPortIs
  <2>6. Outcome(p, a)
    BY <2>5, SsMeans
  <2>7. QED
    BY <2>4, <2>6, OutcomeIs
<1>10. CASE Links!LastPlace(main, At) # 2
  <2> DEFINE last == Links!LastPlace(main, At)
  <2>1. last \in Links!Places(main, At) /\ last >= 2
    BY <1>7, LastPlaceIn
  <2>2. last \in 3..Len(main)
    <3>1. last \in 1..Len(main)
      BY <1>7, <2>1 DEF Links!Places
    <3> HIDE DEF last
    <3>2. QED
      BY <1>7, <2>1, <3>1, <1>10 DEF last
  <2>3. Len(Links!Before(main, last)) # 1
    <3> HIDE DEF last
    <3>1. last - 1 \in 2..Len(main)
      BY <1>7, <2>2
    <3>2. Len(SubSeq(main, 1, last - 1)) = last - 1
      BY <1>6, <3>1
    <3>3. QED
      BY <3>1, <3>2 DEF Links!Before
  <2>4. Links!DecodeBase64(Links!Before(main, last)) = Refused
    BY <2>3 DEF Links!DecodeBase64
  <2>5. Links!ParseUri(l) = Refused
    BY <1>8, <2>4 DEF Links!ParseSip002
  <2>6. last # 2
    BY <1>10
  <2> HIDE DEF last
  <2>7. last \in Links!Places(l.text, At) /\ 2 \in Links!Places(l.text, At)
    BY <1>7, <1>8, <2>1
  <2>8. DOMAIN l.text = 1..Len(l.text) /\ Len(l.text) \in Nat
    BY <1>8
  <2>9. Links!Cardinality(Links!Places(l.text, At)) > 1
    BY <2>6, <2>7, <2>8, TwoPlaces
  <2>10. QED
    BY <1>1, <2>5, <2>9 DEF Understood, Unclear
<1>11. QED
  BY <1>9, <1>10

\* What follows a place of a text is a text.
LEMMA AfterIs ==
  ASSUME NEW R, NEW t \in Seq(R), NEW c, Links!Places(t, c) # {}, NEW i \in Links!Places(t, c)
  PROVE  Links!After(t, i) \in Seq(R)
<1>1. i \in 1..Len(t) /\ Len(t) \in Nat
  BY DEF Links!Places
<1>2. SubSeq(t, i + 1, Len(t)) \in Seq(R)
  BY <1>1
<1>3. QED
  BY <1>2 DEF Links!After

\* What is read as a port is one.
LEMMA PortRead ==
  ASSUME NEW t \in Seq(Links!Chars \cup Links!Numbers), Links!ParsePort(t) # Refused
  PROVE  Links!ParsePort(t) \in Nat /\ Links!ParsePort(t) <= Links!MaxPort
<1>1. Len(t) = 1 /\ Links!IsNumber(t[1]) /\ Links!ParsePort(t) = Links!Port(t[1].number)
  BY DEF Links!ParsePort
<1>2. t[1] \in Links!Chars \cup Links!Numbers
  BY <1>1
<1>3. t[1] \notin Links!Chars
  BY <1>1 DEF Links!IsNumber, Links!Is
<1>4. t[1].number \in Nat
  BY <1>2, <1>3 DEF Links!Numbers
<1>5. QED
  BY <1>1, <1>4 DEF Links!Port

\* A legacy link is read as its account, unless the password holds an "@".
LEMMA LegacyIs ==
  ASSUME NEW a \in Links!Accounts, NEW safe \in BOOLEAN,
         NEW kept \in {0, Links!Padding(Links!LegacyText(a))}, NEW l, l = Links!Legacy(a, safe, kept)
  PROVE  Understood(l, a)
<1> DEFINE run == Links!Base64(Links!LegacyText(a), safe, kept)
           m == Links!MethodPassword(a)
           address == Links!Address(a)
           t == Links!LegacyText(a)
           S == Links!Chars \cup Links!Numbers \cup Links!Jsons
<1>1. l.scheme = "ss" /\ l.form = "legacy" /\ l.text = <<run>> \o Links!Tag(a)
  BY DEF Links!Legacy
<1>2. /\ m \in Seq(S) /\ address \in Seq(S) /\ At \in S /\ Colon \in S
      /\ Links!Bracketed(a.host) \in Seq(S) /\ <<Links!Number(a.port)>> \in Seq(S)
  <2>1. m \in Seq(Links!Chars) /\ address \in Seq(Links!Chars \cup Links!Numbers)
        /\ Links!Bracketed(a.host) \in Seq(Links!Chars) /\ Links!Number(a.port) \in Links!Numbers
    BY MethodPasswordIs, AddressIs, BracketedIs, AccountIs, NumberIs
  <2>2. Links!Chars \subseteq S /\ Links!Chars \cup Links!Numbers \subseteq S
    OBVIOUS
  <2>3. At \in S /\ Colon \in S
    BY CharsApart
  <2>4. Links!Number(a.port) \in S
    BY <2>1
  <2> HIDE DEF S, m, address
  <2>5. QED
    BY <2>1, <2>2, <2>3, <2>4, SeqWider
<1>3. JoinedAt(t, m, At, address)
  BY DEF JoinedAt, Links!LegacyText
<1> HIDE DEF m, address, t, S
<1>4. t \in Seq(S)
  BY <1>2, <1>3, JoinedIs
<1>5. run \in Links!Runs /\ run \notin Links!Chars /\ Links!DecodeBase64(<<run>>) = t
  BY <1>4, Base64Is DEF S, t
<1>6. t # Refused
  BY <1>4, NoneApart DEF S
<1> HIDE DEF run
<1>7. <<run>> \in Seq(LinkItems) /\ Misses(<<run>>, Hash) /\ Misses(<<run>>, At)
  <2>1. run \in LinkItems /\ run # Hash /\ run # At
    BY <1>5, CharsApart DEF LinkItems
  <2>2. QED
    BY <2>1 DEF Misses
<1>8. Links!ParseUri(l) = Links!ParseLegacy(<<run>>, a.name)
  <2>1. Links!Places(<<run>>, At) = {}
    BY <1>7, NoPlace
  <2>2. PICK main : main = <<run>>
    OBVIOUS
  <2>3. QED
    BY <1>1, <1>7, <2>1, <2>2, TagIs DEF Links!ParseUri
<1>9. CASE Misses(a.password, At)
  <2>1. CutFirst(t, At, m, address)
    <3>1. Misses(m, At)
      BY <1>9, MethodPasswordIs DEF m
    <3>2. QED
      BY <1>2, <1>3, <3>1, FirstIs
  <2>2. CutLast(address, Colon, Links!Bracketed(a.host), <<Links!Number(a.port)>>)
    BY <1>2, AddressIs, LastIs DEF address
  <2>3. Links!ParseLegacy(<<run>>, a.name) =
          Links!Ss(m, <<Links!Bracketed(a.host), Links!ParsePort(<<Links!Number(a.port)>>)>>, a.name)
    BY <1>5, <1>6, <2>1, <2>2 DEF Links!ParseLegacy, CutFirst, CutLast
  <2>4. PICK p : p = Links!ParseUri(l)
    OBVIOUS
  <2>5. PICK host : host = Links!Bracketed(a.host)
    OBVIOUS
  <2>6. p = Links!Ss(Links!MethodPassword(a), <<host, Links!Port(a.port)>>, a.name)
    BY <1>8, <2>3, <2>4, <2>5, AccountIs, NumberIs DEF m
  <2>7. Outcome(p, a)
    BY <2>5, <2>6, SsMeans
  <2>8. QED
    BY <2>4, <2>7, OutcomeIs
<1>10. CASE ~Misses(a.password, At)
  <2> DEFINE Q == Links!Chars \cup Links!Numbers
             first == Links!FirstPlace(t, At)
             right == Links!After(t, first)
             last == Links!LastPlace(right, Colon)
             port == Links!ParsePort(Links!After(right, last))
             p == Links!ParseUri(l)
  <2>1. CutShort(l, a)
    BY <1>1, <1>10, NoPlace DEF CutShort
  <2>2. ASSUME p # Refused
        PROVE  Typed(p)
    <3>1. /\ Links!Places(t, At) # {} /\ Links!Places(right, Colon) # {}
          /\ p = Links!Ss(Links!Before(t, first), <<Links!Before(right, last), port>>, a.name)
      BY <1>5, <1>6, <1>8, <2>2 DEF Links!ParseLegacy
    <3>2. t \in Seq(Q)
      <4>1. m \in Seq(Links!Chars) /\ address \in Seq(Q) /\ At \in Q /\ Links!Chars \subseteq Q
        BY MethodPasswordIs, AddressIs, CharsApart DEF m, address
      <4> HIDE DEF Q
      <4>2. QED
        BY <1>3, <4>1, SeqWider, JoinedIs
    <3> HIDE DEF Q
    <3>3. right \in Seq(Q)
      <4>1. Links!Places(t, At) \subseteq 1..Len(t) /\ Len(t) \in Nat
        BY <3>2 DEF Links!Places
      <4>2. first \in Links!Places(t, At)
        BY <3>1, <4>1, FirstPlaceOf DEF Links!FirstPlace
      <4> HIDE DEF first
      <4>3. QED
        BY <3>1, <3>2, <4>2, AfterIs
    <3> HIDE DEF right
    <3>4. Links!After(right, last) \in Seq(Q)
      <4>1. DOMAIN right = 1..Len(right) /\ Len(right) \in Nat
        BY <3>3
      <4>2. last \in Links!Places(right, Colon)
        BY <3>1, <4>1, LastPlaceIn
      <4> HIDE DEF last
      <4>3. QED
        BY <3>1, <3>3, <4>2, AfterIs
    <3> HIDE DEF first, last
    <3>5. /\ port # Refused
          /\ p = [Links!Params("shadowsocks", Links!Before(right, last), port, a.name) EXCEPT
                    !.method = Links!Before(Links!Before(t, first),
                                            Links!FirstPlace(Links!Before(t, first), Colon)),
                    !.password = Links!After(Links!Before(t, first),
                                             Links!FirstPlace(Links!Before(t, first), Colon))]
      <4> HIDE DEF port
      <4>1. QED
        BY <2>2, <3>1 DEF Links!Ss
    <3>6. port \in Nat /\ port <= Links!MaxPort
      BY <3>4, <3>5, PortRead DEF Q
    <3> HIDE DEF port, p
    <3>7. p.protocol = "shadowsocks" /\ p.port = port /\ p.alter_id = 0
      BY <3>5 DEF Links!Params
    <3>8. 0 \in 0..AlterIds - 1 /\ Links!MaxPort \in Nat
      BY NoneApart DEF Links!MaxPort
    <3>9. QED
      BY <3>6, <3>7, <3>8 DEF Typed
  <2>3. QED
    BY <2>1, <2>2 DEF Understood
<1>11. QED
  BY <1>9, <1>10

\* The parameters that the other links give.
UrlParams(protocol, host, port, name, password, network, security, alter_id) ==
  [protocol |-> protocol, host |-> host, port |-> port, name |-> name, password |-> password,
   method |-> Nil, network |-> network, security |-> security, alter_id |-> alter_id]

\* They are parameters of corvex.
LEMMA UrlTyped ==
  ASSUME NEW protocol \in {"vless", "vmess", "trojan"}, NEW host \in Links!Texts, NEW port \in Nat,
         NEW name \in Links!Texts, NEW password \in Links!Texts, NEW network \in STRING \cup {"tcp"},
         NEW security \in STRING \cup {Links!Empty, "tls"}, NEW alter_id \in Nat
  PROVE  UrlParams(protocol, host, port, name, password, network, security, alter_id)
           \in Links!ProxyParams
<1>1. protocol \in {"vless", "vmess", "trojan", "shadowsocks"} /\ Nil \in Links!Texts \cup {Nil}
  OBVIOUS
<1>2. QED
  BY <1>1 DEF UrlParams, Links!ProxyParams

\* A key of a link's query gives a string, or leaves what was there.
LEMMA QueryIs ==
  ASSUME NEW query \in Queries, NEW protocol, NEW host, NEW port, NEW name, NEW password,
         NEW network \in STRING \cup {"tcp"}, NEW security \in STRING \cup {Links!Empty, "tls"},
         NEW p, p = UrlParams(protocol, host, port, name, password, network, security, 0)
  PROVE  \E n \in STRING \cup {"tcp"}, s \in STRING \cup {Links!Empty, "tls"} :
           Links!ParseCommonQuery(p, query) = UrlParams(protocol, host, port, name, password, n, s, 0)
<1> DEFINE hits(key) == {i \in DOMAIN query : query[i][1] = key}
           of(key, old) == IF hits(key) = {} THEN old
                           ELSE query[CHOOSE i \in hits(key) : \A j \in hits(key) : i >= j][2]
<1>1. query \in Seq(STRING \X STRING)
  BY ConstantsTyped DEF Links!ConstantsTyped
<1>2. ASSUME NEW key, NEW old PROVE of(key, old) \in STRING \/ of(key, old) = old
  <2>1. PICK H : H = hits(key)
    OBVIOUS
  <2>2. CASE H # {}
    <3>1. H \subseteq 1..Len(query) /\ Len(query) \in Nat
      BY <1>1, <2>1
    <3>2. PICK last : last = CHOOSE i \in H : \A j \in H : i >= j
      OBVIOUS
    <3>3. last \in H
      BY <2>2, <3>1, <3>2, LastPlaceOf
    <3>4. query[last][2] \in STRING
      BY <1>1, <3>1, <3>3
    <3>5. QED
      BY <2>1, <2>2, <3>2, <3>4
  <2>3. CASE H = {}
    BY <2>1, <2>3
  <2>4. QED
    BY <2>2, <2>3
<1>3. Links!ParseCommonQuery(p, query) =
        [p EXCEPT !.network = of("type", p.network), !.security = of("security", p.security)]
  BY DEF Links!ParseCommonQuery
<1>4. p.network = network /\ p.security = security
  BY DEF UrlParams
<1> HIDE DEF hits, of
<1>5. PICK n : n = of("type", network)
  OBVIOUS
<1>6. PICK s : s = of("security", security)
  OBVIOUS
<1>7. n \in STRING \cup {"tcp"} /\ s \in STRING \cup {Links!Empty, "tls"}
  <2>1. n \in STRING \/ n = network
    BY <1>2, <1>5
  <2>2. s \in STRING \/ s = security
    BY <1>2, <1>6
  <2>3. QED
    BY <2>1, <2>2
<1>8. Links!ParseCommonQuery(p, query) = [p EXCEPT !.network = n, !.security = s]
  BY <1>3, <1>4, <1>5, <1>6
<1>9. [p EXCEPT !.network = n, !.security = s] =
        UrlParams(protocol, host, port, name, password, n, s, 0)
  <2>1. PICK r : r = [p EXCEPT !.network = n]
    OBVIOUS
  <2>2. [p EXCEPT !.network = n, !.security = s] = [r EXCEPT !.security = s]
    BY <2>1
  <2>3. r = UrlParams(protocol, host, port, name, password, n, security, 0)
    BY <2>1 DEF UrlParams
  <2>4. QED
    BY <2>2, <2>3 DEF UrlParams
<1>10. QED
  BY <1>7, <1>8, <1>9

\* A vless or trojan link is read as its account.
LEMMA UrlIs ==
  ASSUME NEW a \in Links!Accounts, NEW query \in Queries, NEW scheme \in {"vless", "trojan"},
         scheme = "vless" => Links!Encoded(a.password) = a.password,
         NEW l, l = Links!UrlLink(scheme, a, query)
  PROVE  Understood(l, a)
<1> DEFINE host == Links!Bracketed(a.host)
<1>1. /\ l.scheme = scheme /\ l.form = "url" /\ l.username = Links!Encoded(a.password)
      /\ l.host = host /\ l.port = a.port /\ l.query = query
      /\ l.fragment = Links!Encoded(a.name)
  BY DEF Links!UrlLink
<1>2. a.password \in Links!Texts /\ a.password # <<>> /\ a.name \in Links!Texts /\ a.port \in Nat
      /\ host \in Links!Texts
  BY AccountIs, BracketedIs, CharsApart
<1>3. /\ l.username # <<>> /\ Links!Decoded(l.username) = a.password
      /\ Links!Decoded(l.fragment) = a.name
  BY <1>1, <1>2, EncodedIs
<1> HIDE DEF host
<1>4. l.host # Nil /\ l.port # Nil
  BY <1>1, <1>2, NoneApart
<1>5. Links!ParseUri(l) = Links!ParseUrl(l)
  BY <1>1 DEF Links!ParseUri
<1>6. CASE l.port > Links!MaxPort
  <2>1. Links!ParseUri(l) = Refused
    BY <1>5, <1>6 DEF Links!ParseUrl
  <2>2. QED
    BY <1>1, <1>6, <2>1 DEF Understood
<1>7. CASE ~(l.port > Links!MaxPort)
  <2> DEFINE q == Links!Params(scheme, host, a.port, a.name)
  <2>1. PICK security \in STRING \cup {Links!Empty, "tls"} :
          Links!ParseUri(l) =
            Links!ParseCommonQuery(
              UrlParams(scheme, host, a.port, a.name, a.password, "tcp", security, 0), query)
    <3>1. CASE scheme = "vless"
      <4>1. [q EXCEPT !.password = a.password]
              = UrlParams(scheme, host, a.port, a.name, a.password, "tcp", Links!Empty, 0)
        BY DEF Links!Params, UrlParams
      <4>2. l.username = a.password
        BY <1>1, <3>1
      <4>3. Links!ParseUri(l) = Links!ParseCommonQuery([q EXCEPT !.password = a.password], query)
        BY <1>1, <1>3, <1>4, <1>5, <1>7, <3>1, <4>2 DEF Links!ParseUrl
      <4>4. QED
        BY <4>1, <4>3
    <3>2. CASE scheme = "trojan"
      <4>1. PICK r : r = [q EXCEPT !.password = a.password]
        OBVIOUS
      <4>2. r = UrlParams(scheme, host, a.port, a.name, a.password, "tcp", Links!Empty, 0)
        BY <4>1 DEF Links!Params, UrlParams
      <4>3. [r EXCEPT !.security = "tls"]
              = UrlParams(scheme, host, a.port, a.name, a.password, "tcp", "tls", 0)
        BY <4>2 DEF UrlParams
      <4>4. [q EXCEPT !.password = a.password, !.security = "tls"] = [r EXCEPT !.security = "tls"]
        BY <4>1
      <4>5. Links!ParseUri(l) =
              Links!ParseCommonQuery([q EXCEPT !.password = a.password, !.security = "tls"], query)
        BY <1>1, <1>3, <1>4, <1>5, <1>7, <3>2 DEF Links!ParseUrl
      <4>6. QED
        BY <4>3, <4>4, <4>5
    <3>3. QED
      BY <3>1, <3>2
  <2>2. PICK n \in STRING \cup {"tcp"}, s \in STRING \cup {Links!Empty, "tls"} :
          Links!ParseUri(l) = UrlParams(scheme, host, a.port, a.name, a.password, n, s, 0)
    <3>1. PICK p : p = UrlParams(scheme, host, a.port, a.name, a.password, "tcp", security, 0)
      OBVIOUS
    <3>2. "tcp" \in STRING \cup {"tcp"}
      OBVIOUS
    <3>3. QED
      BY <2>1, <3>1, <3>2, QueryIs
  <2>3. PICK p : p = Links!ParseUri(l)
    OBVIOUS
  <2>4. p \in Links!ProxyParams
    BY <1>2, <2>2, <2>3, UrlTyped
  <2>5. p.host = host /\ p.port = a.port /\ p.name = a.name /\ p.password = a.password /\ p.alter_id = 0
    BY <2>2, <2>3 DEF UrlParams
  <2>6. Links!Same(p, a) /\ 0 \in 0..AlterIds - 1
    BY <2>5, NoneApart DEF Links!Same, host
  <2>7. a.port <= Links!MaxPort
    BY <1>1, <1>2, <1>7 DEF Links!MaxPort
  <2>8. Outcome(p, a)
    BY <2>4, <2>5, <2>6, <2>7 DEF Outcome, Good
  <2>9. QED
    BY <2>3, <2>8, OutcomeIs
<1>8. QED
  BY <1>6, <1>7

\* What a vmess link holds: an alterId that is none of corvex's, or one too large.
Json(a, aid, quoted) ==
  [add |-> a.host, id |-> a.password, port |-> a.port, ps |-> a.name,
   aid |-> aid, quoted |-> quoted, net |-> Nil, tls |-> Nil]

\* A vmess link is read as its account.
LEMMA VmessIs ==
  ASSUME NEW a \in Links!Accounts, NEW aid \in {Nil, 0, AlterIds, AlterIds + 1}, NEW quoted \in BOOLEAN,
         NEW kept \in {0, 2}, NEW l, l = Links!VmessLink(a, aid, quoted, kept)
  PROVE  Understood(l, a)
<1> DEFINE shared == Json(a, aid, quoted)
           run == Links!Base64(<<shared>>, FALSE, kept)
           S == Links!Chars \cup Links!Numbers \cup Links!Jsons
<1>1. l.scheme = "vmess" /\ l.form = "vmess" /\ l.text = <<run>>
  BY DEF Links!VmessLink, Json
<1>2. /\ a.password \in Links!Texts /\ a.host \in Links!Texts /\ a.name \in Links!Texts
      /\ a.port \in Nat
  BY AccountIs, CharsApart
<1>3. aid \in Nat \cup {Nil} /\ AlterIds \in Nat \ {0}
  BY NoneApart
<1>4. shared \in Links!Jsons
  <2>1. Nil \in {Nil}
    OBVIOUS
  <2>2. QED
    BY <1>2, <1>3, <2>1 DEF Json, Links!Jsons
<1>5. /\ shared.add = a.host /\ shared.id = a.password /\ shared.port = a.port /\ shared.ps = a.name
      /\ shared.aid = aid /\ shared.quoted = quoted /\ shared.net = Nil /\ shared.tls = Nil
  BY DEF Json
<1> HIDE DEF shared
<1>6. <<shared>> \in Seq(S) /\ Len(<<shared>>) = 1 /\ <<shared>>[1] = shared
  BY <1>4
<1>7. Links!Padding(<<shared>>) = 2
  BY <1>6 DEF Links!Padding
<1>8. Links!DecodeBase64(l.text) = <<shared>>
  <2>1. PICK t : t = <<shared>>
    OBVIOUS
  <2>2. kept \in {0, Links!Padding(t)} /\ t \in Seq(S) /\ FALSE \in BOOLEAN
    BY <1>6, <1>7, <2>1
  <2>3. Links!DecodeBase64(<<run>>) = t
    BY <2>1, <2>2, Base64Is
  <2>4. QED
    BY <1>1, <2>1, <2>3
<1>9. <<shared>> # Refused
  BY <1>6, NoneApart
<1>10. shared.add # Nil /\ shared.id # Nil /\ shared.port # Nil /\ shared.ps # Nil
  BY <1>2, <1>5, NoneApart
<1>11. Links!AlterId(shared) \in 0..AlterIds - 1
  <2>1. CASE aid = Nil
    BY <1>3, <1>5, <2>1 DEF Links!AlterId
  <2>2. CASE aid # Nil
    <3>1. aid % AlterIds \in 0..AlterIds - 1 /\ 0 \in 0..AlterIds - 1
      BY <1>3, <2>2
    <3>2. QED
      BY <1>5, <3>1 DEF Links!AlterId
  <2>3. QED
    BY <2>1, <2>2
<1>12. Links!ParseUri(l) = Links!ParseVmess(l)
  BY <1>1 DEF Links!ParseUri
<1> HIDE DEF run, S
<1>13. PICK p : p = Links!ParseUri(l)
  OBVIOUS
<1>14. CASE a.port <= Links!MaxPort
  <2>1. Links!Port(shared.port) = a.port /\ a.port # Refused
    BY <1>2, <1>5, <1>14, PortOf, NoneApart
  <2> DEFINE q == Links!Params("vmess", a.host, a.port, a.name)
  <2>2. p = [q EXCEPT !.password = a.password, !.alter_id = Links!AlterId(shared),
                      !.network = "tcp", !.security = Links!Empty]
    <3>1. PICK d : d = Links!DecodeBase64(l.text)[1]
      OBVIOUS
    <3>2. d = shared
      BY <1>6, <1>8, <3>1
    <3>3. /\ Links!DecodeBase64(l.text) # Refused /\ d.add # Nil /\ d.id # Nil /\ d.port # Nil
          /\ d.ps # Nil /\ Links!Port(d.port) # Refused
      BY <1>8, <1>9, <1>10, <2>1, <3>2
    <3>4. Links!ParseVmess(l) =
            [Links!Params("vmess", d.add, Links!Port(d.port), IF d.ps = Nil THEN <<>> ELSE d.ps) EXCEPT
               !.password = d.id, !.alter_id = Links!AlterId(d),
               !.network = IF d.net = Nil THEN "tcp" ELSE d.net,
               !.security = IF d.tls = Nil THEN Links!Empty ELSE d.tls]
      BY <3>1, <3>3, Zenon DEF Links!ParseVmess
    <3>5. QED
      BY <1>5, <1>12, <1>13, <2>1, <3>2, <3>3, <3>4
  <2>3. PICK id : id = Links!AlterId(shared)
    OBVIOUS
  <2>4. [q EXCEPT !.password = a.password, !.alter_id = id, !.network = "tcp", !.security = Links!Empty]
          = UrlParams("vmess", a.host, a.port, a.name, a.password, "tcp", Links!Empty, id)
    <3>1. PICK r : r = [q EXCEPT !.password = a.password]
      OBVIOUS
    <3>2. PICK s : s = [r EXCEPT !.alter_id = id]
      OBVIOUS
    <3>3. PICK u : u = [s EXCEPT !.network = "tcp"]
      OBVIOUS
    <3>4. r = UrlParams("vmess", a.host, a.port, a.name, a.password, "tcp", Links!Empty, 0)
      BY <3>1 DEF Links!Params, UrlParams
    <3>5. s = UrlParams("vmess", a.host, a.port, a.name, a.password, "tcp", Links!Empty, id)
      BY <3>2, <3>4 DEF UrlParams
    <3>6. u = UrlParams("vmess", a.host, a.port, a.name, a.password, "tcp", Links!Empty, id)
      BY <3>3, <3>5 DEF UrlParams
    <3>7. [u EXCEPT !.security = Links!Empty]
            = UrlParams("vmess", a.host, a.port, a.name, a.password, "tcp", Links!Empty, id)
      BY <3>6 DEF UrlParams
    <3>8. [q EXCEPT !.password = a.password, !.alter_id = id, !.network = "tcp", !.security = Links!Empty]
            = [u EXCEPT !.security = Links!Empty]
      BY <3>1, <3>2, <3>3
    <3>9. QED
      BY <3>7, <3>8
  <2>5. p = UrlParams("vmess", a.host, a.port, a.name, a.password, "tcp", Links!Empty, id)
    BY <2>2, <2>3, <2>4
  <2>6. p \in Links!ProxyParams
    <3>1. "tcp" \in STRING \cup {"tcp"} /\ Links!Empty \in STRING \cup {Links!Empty, "tls"}
          /\ "vmess" \in {"vless", "vmess", "trojan"} /\ id \in Nat
      BY <1>3, <1>11, <2>3
    <3>2. QED
      BY <1>2, <2>5, <3>1, UrlTyped
  <2>7. p.host = a.host /\ p.port = a.port /\ p.name = a.name /\ p.password = a.password /\ p.alter_id = id
    BY <2>5 DEF UrlParams
  <2>8. Outcome(p, a)
    BY <1>11, <1>14, <2>3, <2>6, <2>7 DEF Outcome, Good, Links!Same
  <2>9. QED
    BY <1>13, <2>8, OutcomeIs
<1>15. CASE ~(a.port <= Links!MaxPort)
  <2>1. Links!Port(shared.port) = Refused
    BY <1>2, <1>5, <1>15, PortOf
  <2>2. p = Refused
    BY <1>6, <1>8, <1>9, <1>10, <1>12, <1>13, <2>1 DEF Links!ParseVmess
  <2>3. Outcome(p, a)
    BY <1>15, <2>2 DEF Outcome
  <2>4. QED
    BY <1>13, <2>3, OutcomeIs
<1>16. QED
  BY <1>14, <1>15

-----------------------------------------------------------------------------
(***************************************************************************)
(* ShareLink: the proof.                                                   *)
(***************************************************************************)
\* Every link of an account is understood.
LEMMA LinkIs ==
  ASSUME NEW a \in Links!Accounts, NEW l \in Links!Links(a)
  PROVE  Understood(l, a)
<1>1. CASE \E safe \in BOOLEAN, kept \in {0, Links!Padding(Links!MethodPassword(a))}, plugin \in Plugins :
             l = Links!Sip002(a, safe, kept, plugin)
  BY <1>1, Sip002Is
<1>2. CASE \E safe \in BOOLEAN, kept \in {0, Links!Padding(Links!LegacyText(a))} :
             l = Links!Legacy(a, safe, kept)
  BY <1>2, LegacyIs
<1>3. CASE \E query \in Queries : l = Links!UrlLink("trojan", a, query)
  <2>1. PICK query \in Queries : l = Links!UrlLink("trojan", a, query)
    BY <1>3
  <2>2. PICK scheme \in {"vless", "trojan"} : scheme = "trojan"
    OBVIOUS
  <2>3. scheme = "vless" => Links!Encoded(a.password) = a.password
    BY <2>2
  <2>4. l = Links!UrlLink(scheme, a, query)
    BY <2>1, <2>2
  <2>5. QED
    BY <2>3, <2>4, UrlIs
<1>4. CASE Links!Encoded(a.password) = a.password /\ \E query \in Queries : l = Links!UrlLink("vless", a, query)
  <2>1. PICK query \in Queries : l = Links!UrlLink("vless", a, query)
    BY <1>4
  <2>2. PICK scheme \in {"vless", "trojan"} : scheme = "vless"
    OBVIOUS
  <2>3. scheme = "vless" => Links!Encoded(a.password) = a.password
    BY <1>4
  <2>4. l = Links!UrlLink(scheme, a, query)
    BY <2>1, <2>2
  <2>5. QED
    BY <2>3, <2>4, UrlIs
<1>5. CASE \E aid \in {Nil, 0, AlterIds, AlterIds + 1}, quoted \in BOOLEAN, kept \in {0, 2} :
             l = Links!VmessLink(a, aid, quoted, kept)
  BY <1>5, VmessIs
<1>6. QED
  BY <1>1, <1>2, <1>3, <1>4, <1>5 DEF Links!Links

\* The link is one of the account's, and is unread or read once.
LInv ==
  /\ account \in Links!Accounts /\ link \in Links!Links(account)
  /\ linkParams = Nil \/ linkParams = Links!ParseUri(link)

\* It starts so, ...
LEMMA LInitHolds == Links!Init => LInv
BY DEF Links!Init, LInv

\* ... and stays so.
LEMMA LNextHolds == LInv /\ [Links!Next]_(Links!vars) => LInv'
BY DEF LInv, Links!Next, Links!Parse, Links!vars

\* Then it is read as the account.
LEMMA LInvHolds == LInv => LinkIsAccount
<1> SUFFICES ASSUME LInv PROVE LinkIsAccount
  OBVIOUS
<1>1. account \in Links!Accounts /\ link \in Links!Links(account) /\ Nil # Refused
  BY NoneApart DEF LInv
<1>2. Understood(link, account)
  BY <1>1, LinkIs
<1>3. CASE linkParams = Nil
  BY <1>1, <1>3 DEF LinkIsAccount, Links!TypeOK, Links!NeverAnother, Links!ReadsAll, Links!Read
<1>4. CASE linkParams = Links!ParseUri(link)
  <2>1. Links!LegacyAt = CutShort(link, account)
    BY DEF Links!LegacyAt, CutShort
  <2>2. CASE linkParams = Refused
    BY <1>2, <1>4, <2>1, <2>2
       DEF Understood, Unclear, CutShort, LinkIsAccount, Links!TypeOK, Links!NeverAnother,
           Links!ReadsAll, Links!Read
  <2>3. CASE linkParams # Refused
    BY <1>2, <1>4, <2>1, <2>3
       DEF Understood, Typed, LinkIsAccount, Links!TypeOK, Links!NeverAnother, Links!ReadsAll, Links!Read
  <2>4. QED
    BY <2>2, <2>3
<1>5. QED
  BY <1>3, <1>4 DEF LInv

-----------------------------------------------------------------------------
\* A run of the composition is one of each of its parts: where one takes a step
\* the others rest.
LEMMA PartsRun == SourceSpec => Spec /\ Downloads!Spec /\ Links!Spec /\ Out!Spec
<1>1. SourceInit => Init /\ Downloads!Init /\ Links!Init /\ Out!Init
  BY DEF SourceInit, SelectRests, DownloadsRest, LinksRest, OutRests
<1>2. [SourceNext]_everything => [Next]_vars
  BY DEF SourceNext, everything, Select, Elsewhere, Fetch, ReadLink, Translate, Next
<1>3. [SourceNext]_everything => [Downloads!Next]_(Downloads!vars)
  BY DEF SourceNext, everything, Select, Elsewhere, Fetch, ReadLink, Translate, downloadVars,
         Downloads!vars
<1>4. [SourceNext]_everything => [Links!Next]_(Links!vars)
  BY DEF SourceNext, everything, Select, Elsewhere, Fetch, ReadLink, Translate, linkVars, Links!vars
<1>5. [SourceNext]_everything => [Out!Next]_(Out!vars)
  BY DEF SourceNext, everything, Select, Elsewhere, Fetch, ReadLink, Translate, outboundVars, Out!vars
<1>6. QED
  BY <1>1, <1>2, <1>3, <1>4, <1>5, PTL DEF SourceSpec, Spec, Downloads!Spec, Links!Spec, Out!Spec

\* xray is told what the panel meant, what ProxyParams cannot hold is refused,
\* and what corvex wrote it reads as it was, for every outbound a panel may
\* offer and every account of a link (protocol.rs:402-520, 522-718).
THEOREM OutboundsAreMeant == SourceSpec => []OutboundIsMeant
BY PartsRun, OInitHolds, ONextHolds, OMeant, PTL DEF Out!Spec

\* Nothing that is told of a download leaks, every failure is told, none takes a
\* candidate of another's, only a list too long is cut, and each request has one
\* user agent (subscription.rs, cmd_start).
THEOREM DownloadsAreRight == SourceSpec => []DownloadsHold
BY PartsRun, DInitHolds, DNextHolds, DInvHolds, PTL DEF Downloads!Spec

\* Every link of another client is read as the account that was shared, or
\* refused for the reason it gives, whatever separators the account's texts hold
\* and whichever base64 the client writes (parse_uri, protocol.rs:10-398).
THEOREM LinksAreRead == SourceSpec => []LinkIsAccount
BY PartsRun, LInitHolds, LNextHolds, LInvHolds, PTL DEF Links!Spec

-----------------------------------------------------------------------------
(***************************************************************************)
(* SourceSelect: the choice of a server.                                   *)
(***************************************************************************)
USE BodiesTyped, EntriesApart, SettingsTyped

-----------------------------------------------------------------------------
(* The inductive invariant *)

\* While the subscriptions are read no sweep of the URIs has begun, ...
Begun == pc \in {"download", "choose"} => sweep = "json"

\* ... a sweep has turned down everybody before the candidate under test, ...
Passed == pc \in Probing => \A i \in 1 .. (next - 1) : <<sweep, i>> \in rejected

\* ... the URIs have their turn after the JSON entries only, ...
InOrder == sweep = "uri" => JsonRejected

\* ... a parsable URI that was read is a candidate of their sweep, ...
Kept(i) == uris[i] \in Servers => \E n \in DOMAIN parsed : parsed[n] = uris[i]
Parsing == pc = "parse" => sweep = "uri" /\ \A i \in DOMAIN uris : i < next => Kept(i)
AllParsed == sweep = "uri" /\ pc \in Probing => \A i \in DOMAIN uris : Kept(i)

\* ... and what a check makes exists between its steps only, file first.
Clean ==
  /\ pc \notin {"spawn", "ready", "request", "killed"} => ~file /\ ~child
  /\ pc = "spawn" => file

SInv ==
  /\ SelectionHolds
  /\ Begun /\ Passed /\ InOrder /\ Parsing /\ AllParsed /\ Clean

-----------------------------------------------------------------------------
(* Sequences *)

\* What two subscriptions hold is of the kinds either holds.
LEMMA Joined ==
  ASSUME NEW S, NEW s \in Seq(S), NEW t \in Seq(S)
  PROVE  s \o t \in Seq(S)
OBVIOUS

\* A candidate more: the others stay, and it is among them.
LEMMA OneMore ==
  ASSUME NEW S, NEW s \in Seq(S), NEW x \in S
  PROVE  /\ Append(s, x) \in Seq(S)
         /\ DOMAIN s \subseteq DOMAIN Append(s, x)
         /\ \A n \in DOMAIN s : Append(s, x)[n] = s[n]
         /\ \E n \in DOMAIN Append(s, x) : Append(s, x)[n] = x
<1>1. Len(s) + 1 \in DOMAIN Append(s, x) /\ Append(s, x)[Len(s) + 1] = x
  OBVIOUS
<1>2. QED
  BY <1>1

\* The first of a list that is not empty is of its kind.
LEMMA FirstOf == ASSUME NEW S, NEW s \in Seq(S), s # <<>> PROVE Head(s) \in S
OBVIOUS

\* The candidates of either sweep are servers.
LEMMA CandidatesTyped == ASSUME TypeOK PROVE Candidates \in Seq(Servers)
BY DEF TypeOK, Candidates

-----------------------------------------------------------------------------
(* The steps the actions share *)

\* Neither the lists nor the candidates change once the downloads are done.
Listed == UNCHANGED <<gathered, parsed>>

\* Turning a candidate down goes on to the next, leaves nothing of the check,
\* and adds it to those turned down.
LEMMA Rejects ==
  ASSUME SInv, pc \in Probing, next \in DOMAIN Candidates, Reject, Listed,
         UNCHANGED <<sweep, source, health>>
  PROVE  SInv'
<1> USE DEF Listed, gathered, Reject
<1>1. TypeOK'
  <2>1. TypeOK
    BY DEF SInv, SelectionHolds
  <2>2. rejected' \subseteq {"json", "uri"} \X Nat /\ next' \in Nat \ {0}
    BY <2>1 DEF TypeOK
  <2>3. pc' = "tcp" /\ file' \in BOOLEAN /\ child' \in BOOLEAN /\ ~child'
    OBVIOUS
  <2>4. QED
    BY <2>1, <2>2, <2>3 DEF TypeOK, Probing
<1>2. Passed'
  <2> SUFFICES ASSUME NEW i \in 1 .. (next' - 1) PROVE <<sweep', i>> \in rejected'
    BY DEF Passed
  <2>1. next \in Nat
    BY DEF SInv, SelectionHolds, TypeOK
  <2>2. CASE i = next
    BY <2>2
  <2>3. CASE i # next
    BY <2>1, <2>3 DEF SInv, Passed
  <2>4. QED
    BY <2>2, <2>3
<1>3. InOrder'
  BY DEF SInv, InOrder, JsonRejected
<1>4. AllParsed'
  BY DEF SInv, AllParsed, Kept
<1>5. Begun' /\ Parsing' /\ Clean'
  BY DEF Begun, Parsing, Clean
<1>6. Preference' /\ GivesUpLast' /\ NothingLeft'
  BY DEF Preference, GivesUpLast, NothingLeft
<1>7. QED
  BY <1>1, <1>2, <1>3, <1>4, <1>5, <1>6 DEF SInv, SelectionHolds

\* A step of a check that succeeds leads to its next one, with the same
\* candidate.
LEMMA GoesOn ==
  ASSUME SInv, pc \in Probing, next \in DOMAIN Candidates,
         NEW l \in Probing \ {"tcp"}, Onward(l), Listed, UNCHANGED <<sweep, source>>,
         health' \in [Servers -> Healths], file' \in BOOLEAN, child' \in BOOLEAN,
         child' => file', Clean'
  PROVE  SInv'
<1> USE DEF Listed, gathered, Onward
<1>1. TypeOK'
  BY DEF SInv, SelectionHolds, TypeOK, Candidates
<1>2. Passed' /\ InOrder' /\ AllParsed'
  BY DEF SInv, Passed, InOrder, JsonRejected, AllParsed, Kept
<1>3. Begun' /\ Parsing' /\ Preference' /\ GivesUpLast' /\ NothingLeft'
  BY DEF Probing, Begun, Parsing, Preference, GivesUpLast, NothingLeft
<1>4. QED
  BY <1>1, <1>2, <1>3 DEF SInv, SelectionHolds

\* A sweep begins with nobody behind it: of the JSON entries from choose, of
\* the URIs once they are parsed.
LEMMA Sweeps ==
  ASSUME SInv, ~file, ~child, Listed, UNCHANGED <<probe, health, rejected>>,
         \/ pc = "choose" /\ Sweep("json", "tcp")
         \/ JsonRejected /\ pc \in {"choose", "tcp"} /\ Sweep("uri", "parse")
         \/ pc = "parse" /\ next > Len(uris) /\ Sweep("uri", "tcp")
  PROVE  SInv'
<1> USE DEF Listed, gathered, Sweep, probe
<1>1. TypeOK'
  BY DEF SInv, SelectionHolds, TypeOK, Probing
<1>2. Passed'
  BY DEF Passed
<1>3. InOrder'
  BY DEF SInv, InOrder, Parsing, JsonRejected
<1>4. Parsing'
  <2>1. \A i \in DOMAIN uris : i \in Nat \ {0}
    BY DEF SInv, SelectionHolds, TypeOK
  <2>2. QED
    BY <2>1 DEF Parsing, Kept
<1>5. AllParsed'
  <2>1. \A i \in DOMAIN uris : i <= Len(uris) /\ i \in Nat
    BY DEF SInv, SelectionHolds, TypeOK
  <2>2. Len(uris) \in Nat /\ next \in Nat
    BY DEF SInv, SelectionHolds, TypeOK
  <2>3. CASE pc = "parse" /\ next > Len(uris) /\ Sweep("uri", "tcp")
    BY <2>1, <2>2, <2>3 DEF SInv, AllParsed, Parsing, Kept
  <2>4. CASE ~(pc = "parse" /\ next > Len(uris) /\ Sweep("uri", "tcp"))
    BY <2>4 DEF AllParsed, Probing
  <2>5. QED
    BY <2>3, <2>4
<1>6. Begun' /\ Clean' /\ Preference' /\ GivesUpLast' /\ NothingLeft'
  BY DEF Begun, Clean, Preference, GivesUpLast, NothingLeft
<1>7. QED
  BY <1>1, <1>2, <1>3, <1>4, <1>5, <1>6 DEF SInv, SelectionHolds

\* The choice ends with a source, or without, as the preference has it.
LEMMA Ends ==
  ASSUME SInv, Listed, UNCHANGED <<sweep, next, health, rejected>>,
         pc' \in {"chosen", "failed"}, source' \in Servers \cup Vpn \cup {None},
         ~file', ~child', file' \in BOOLEAN, child' \in BOOLEAN,
         Preference', GivesUpLast'
  PROVE  SInv'
<1> USE DEF Listed, gathered
<1>1. TypeOK'
  BY DEF SInv, SelectionHolds, TypeOK, Probing, Final
<1>2. Passed' /\ InOrder' /\ AllParsed'
  BY DEF SInv, Passed, InOrder, JsonRejected, AllParsed, Probing
<1>3. Begun' /\ Parsing' /\ Clean' /\ NothingLeft'
  BY DEF Begun, Parsing, Clean, NothingLeft
<1>4. QED
  BY <1>1, <1>2, <1>3 DEF SInv, SelectionHolds

\* A sweep that has nobody left has turned everybody down.
LEMMA SweptJson ==
  ASSUME SInv, pc = "tcp", sweep = "json", next > Len(Candidates)
  PROVE  JsonRejected
<1>1. json \in Seq(Servers) /\ Candidates = json /\ next \in Nat
  BY DEF SInv, SelectionHolds, TypeOK, Candidates
<1>2. \A i \in DOMAIN json : i \in 1 .. (next - 1)
  BY <1>1
<1>3. QED
  BY <1>2 DEF JsonRejected, SInv, Passed, Probing

\* And of the URIs every parsable one, as each was a candidate.
LEMMA SweptUris ==
  ASSUME SInv, pc = "tcp", sweep = "uri", next > Len(Candidates)
  PROVE  UrisRejected
<1>1. parsed \in Seq(Servers) /\ Candidates = parsed /\ next \in Nat
  BY DEF SInv, SelectionHolds, TypeOK, Candidates
<1>2. \A n \in DOMAIN parsed : n \in 1 .. (next - 1)
  BY <1>1
<1>3. \A n \in DOMAIN parsed : <<"uri", n>> \in rejected
  BY <1>2 DEF SInv, Passed, Probing
<1>4. \A i \in DOMAIN uris : Kept(i)
  BY DEF SInv, AllParsed, Probing
<1>5. QED
  BY <1>3, <1>4 DEF UrisRejected, Kept

\* The first vpn:// entry, once the others are turned down.
LEMMA TakesVpn ==
  ASSUME SInv, Listed, UNCHANGED <<probe, health, rejected>>, ~file, ~child,
         vpns # <<>>, Choose(Head(vpns)), JsonRejected, UrisRejected
  PROVE  SInv'
<1>1. Head(vpns) \in Vpn
  BY FirstOf DEF SInv, SelectionHolds, TypeOK
<1>2. JsonRejected' /\ UrisRejected'
  BY DEF JsonRejected, UrisRejected, Listed, gathered
<1>3. Preference' /\ GivesUpLast'
  BY <1>2 DEF Preference, GivesUpLast, Choose
<1>4. QED
  BY <1>1, <1>3, Ends DEF Choose, probe, SInv, SelectionHolds, TypeOK

\* Giving up, once everything is turned down and there is no vpn:// entry.
LEMMA Fails ==
  ASSUME SInv, Listed, UNCHANGED <<probe, health, rejected>>, ~file, ~child,
         vpns = <<>>, GiveUp, JsonRejected, UrisRejected
  PROVE  SInv'
<1>1. vpns' = <<>> /\ JsonRejected' /\ UrisRejected'
  BY DEF JsonRejected, UrisRejected, Listed, gathered
<1>2. Preference' /\ GivesUpLast'
  BY <1>1 DEF Preference, GivesUpLast, GiveUp
<1>3. QED
  BY <1>2, Ends DEF GiveUp, probe, SInv, SelectionHolds, TypeOK

\* resolve_uri_flow, after the JSON entries.
LEMMA UrisNext ==
  ASSUME SInv, Listed, UNCHANGED <<probe, health, rejected>>, pc \in {"choose", "tcp"},
         uris # <<>> \/ vpns # <<>>, ResolveUri, JsonRejected
  PROVE  SInv'
<1>1. ~file /\ ~child
  BY DEF SInv, Clean
<1>2. CASE uris # <<>>
  BY <1>1, <1>2, Sweeps DEF ResolveUri
<1>3. CASE uris = <<>>
  <2>1. UrisRejected
    BY <1>3 DEF UrisRejected
  <2>2. QED
    BY <1>1, <1>3, <2>1, TakesVpn DEF ResolveUri
<1>4. QED
  BY <1>2, <1>3
-----------------------------------------------------------------------------
(* Every action *)

\* The invariant holds before anything is downloaded.
LEMMA SelectInit == Init => SInv
<1> SUFFICES ASSUME Init PROVE SInv
  OBVIOUS
<1>1. TypeOK
  <2>1. \A S : <<>> \in Seq(S)
    OBVIOUS
  <2>2. todo \in 0 .. Subscriptions /\ next \in Nat \ {0} /\ rejected \subseteq {"json", "uri"} \X Nat
    BY DEF Init
  <2>3. QED
    BY <2>1, <2>2 DEF Init, TypeOK, Probing
<1>2. QED
  BY <1>1 DEF Init, SInv, SelectionHolds, Preference, GivesUpLast, NothingLeft, Begun, Passed,
              InOrder, Parsing, AllParsed, Probing, Clean

\* A download lengthens the lists, and nothing is checked yet.
LEMMA Downloaded == ASSUME SInv, Download PROVE SInv'
<1> USE DEF Download, gathered, probe
<1>1. TypeOK
  BY DEF SInv, SelectionHolds
<1>2. json' \in Seq(Servers)
  <2>1. \A b \in JsonBodies : json \o b \in Seq(Servers)
    BY <1>1, Joined DEF TypeOK
  <2>2. QED
    BY <1>1, <2>1 DEF TypeOK
<1>3. uris' \in Seq(Servers \cup Unparsable)
  <2>1. \A b \in UriBodies : uris \o b.uris \in Seq(Servers \cup Unparsable)
    BY <1>1, Joined DEF TypeOK
  <2>2. QED
    BY <1>1, <2>1 DEF TypeOK
<1>4. vpns' \in Seq(Vpn)
  <2>1. \A b \in UriBodies : vpns \o b.vpns \in Seq(Vpn)
    BY <1>1, Joined DEF TypeOK
  <2>2. QED
    BY <1>1, <2>1 DEF TypeOK
<1>5. todo' \in 0 .. Subscriptions
  BY <1>1 DEF TypeOK
<1>6. TypeOK'
  BY <1>1, <1>2, <1>3, <1>4, <1>5 DEF TypeOK, Probing
<1>7. sweep' = "json"
  BY DEF SInv, Begun
<1>8. QED
  BY <1>6, <1>7 DEF SInv, SelectionHolds, Preference, GivesUpLast, NothingLeft, Begun, Passed,
                    InOrder, Parsing, AllParsed, Probing, Clean

\* The downloads end as they are.
LEMMA DownloadsOver == ASSUME SInv, DownloadsDone PROVE SInv'
<1> USE DEF DownloadsDone, gathered, probe
<1>1. TypeOK'
  BY DEF SInv, SelectionHolds, TypeOK, Probing, Candidates
<1>2. QED
  BY <1>1 DEF SInv, SelectionHolds, Preference, GivesUpLast, NothingLeft, Begun, Passed,
              InOrder, Parsing, AllParsed, Probing, Clean

\* choose_source begins with whatever comes first.
LEMMA Chooses == ASSUME SInv, ChooseSource PROVE SInv'
<1>1. pc = "choose" /\ Listed /\ UNCHANGED <<probe, health, rejected>>
  BY DEF ChooseSource, Listed
<1>2. ~file /\ ~child
  BY <1>1 DEF SInv, Clean
<1>3. CASE json # <<>> /\ Sweep("json", "tcp")
  BY <1>1, <1>2, <1>3, Sweeps
<1>4. CASE json = <<>> /\ (uris # <<>> \/ vpns # <<>>) /\ ResolveUri
  <2>1. JsonRejected
    BY <1>4 DEF JsonRejected
  <2>2. QED
    BY <1>1, <1>4, <2>1, UrisNext
<1>5. CASE json = <<>> /\ uris = <<>> /\ vpns = <<>> /\ GiveUp
  <2>1. JsonRejected /\ UrisRejected
    BY <1>5 DEF JsonRejected, UrisRejected
  <2>2. QED
    BY <1>1, <1>2, <1>5, <2>1, Fails
<1>6. QED
  BY <1>3, <1>4, <1>5 DEF ChooseSource

\* A sweep that is over is followed by the next.
LEMMA MovesOn == ASSUME SInv, Exhausted PROVE SInv'
<1>1. /\ pc = "tcp" /\ next > Len(Candidates)
      /\ Listed /\ UNCHANGED <<probe, health, rejected>>
  BY DEF Exhausted, Listed
<1>2. ~file /\ ~child
  BY <1>1 DEF SInv, Clean
<1>3. CASE sweep = "json" /\ (uris # <<>> \/ vpns # <<>>) /\ ResolveUri
  <2>1. JsonRejected
    BY <1>1, <1>3, SweptJson
  <2>2. QED
    BY <1>1, <1>3, <2>1, UrisNext
<1>4. CASE sweep = "json" /\ uris = <<>> /\ vpns = <<>> /\ GiveUp
  <2>1. JsonRejected /\ UrisRejected
    BY <1>1, <1>4, SweptJson DEF UrisRejected
  <2>2. QED
    BY <1>1, <1>2, <1>4, <2>1, Fails
<1>5. CASE sweep = "uri" /\ vpns # <<>> /\ Choose(Head(vpns))
  <2>1. JsonRejected /\ UrisRejected
    BY <1>1, <1>5, SweptUris DEF SInv, InOrder
  <2>2. QED
    BY <1>1, <1>2, <1>5, <2>1, TakesVpn
<1>6. CASE sweep = "uri" /\ vpns = <<>> /\ GiveUp
  <2>1. JsonRejected /\ UrisRejected
    BY <1>1, <1>6, SweptUris DEF SInv, InOrder
  <2>2. QED
    BY <1>1, <1>2, <1>6, <2>1, Fails
<1>7. QED
  BY <1>3, <1>4, <1>5, <1>6 DEF Exhausted

\* A URI that parses joins the candidates, and none leaves them.
LEMMA Parses == ASSUME SInv, ParseNext PROVE SInv'
<1> USE DEF ParseNext, gathered, probe
<1>1. TypeOK /\ parsed \in Seq(Servers) /\ next \in Nat \ {0}
  BY DEF SInv, SelectionHolds, TypeOK
<1>2. uris[next] \in Servers =>
        /\ parsed' \in Seq(Servers)
        /\ DOMAIN parsed \subseteq DOMAIN parsed' /\ \A n \in DOMAIN parsed : parsed'[n] = parsed[n]
        /\ \E n \in DOMAIN parsed' : parsed'[n] = uris[next]
  BY <1>1, OneMore
<1>3. uris[next] \notin Servers => parsed' = parsed
  OBVIOUS
<1>4. TypeOK'
  <2>1. parsed' \in Seq(Servers) /\ next' \in Nat \ {0}
    BY <1>1, <1>2, <1>3
  <2>2. QED
    BY <1>1, <2>1 DEF TypeOK, Probing
<1>5. Parsing'
  <2>1. sweep' = "uri"
    BY DEF SInv, Parsing
  <2>2. ASSUME NEW i \in DOMAIN uris, i < next', uris[i] \in Servers
        PROVE  \E n \in DOMAIN parsed' : parsed'[n] = uris[i]
    <3>1. i \in Nat
      BY <1>1 DEF TypeOK
    <3>2. CASE i = next
      BY <1>2, <2>2, <3>2
    <3>3. CASE i # next
      <4>1. i < next
        BY <1>1, <2>2, <3>1, <3>3
      <4>2. PICK n \in DOMAIN parsed : parsed[n] = uris[i]
        BY <2>2, <4>1 DEF SInv, Parsing, Kept
      <4>3. n \in DOMAIN parsed' /\ parsed'[n] = uris[i]
        BY <1>2, <1>3, <4>2
      <4>4. QED
        BY <4>3
    <3>4. QED
      BY <3>2, <3>3
  <2>3. QED
    BY <2>1, <2>2 DEF Parsing, Kept
<1>6. InOrder'
  BY DEF SInv, InOrder, JsonRejected
<1>7. QED
  BY <1>4, <1>5, <1>6 DEF SInv, SelectionHolds, Preference, GivesUpLast, NothingLeft, Begun, Passed,
                          AllParsed, Probing, Clean

\* The candidates are checked once all of the URIs have been read.
LEMMA Parsed == ASSUME SInv, ParsingDone PROVE SInv'
<1>1. ~file /\ ~child
  BY DEF ParsingDone, SInv, Clean
<1>2. QED
  BY <1>1, Sweeps DEF ParsingDone, Listed

\* During a check, from its temporary config.json on, there is a candidate.
LEMMA UnderTest == SInv /\ pc \in Probing \ {"tcp"} => next \in DOMAIN Candidates
BY DEF SInv, SelectionHolds, TypeOK

\* check_tcp.
LEMMA TcpChecked == ASSUME SInv, CheckTcp PROVE SInv'
<1>1. pc = "tcp" /\ pc \in Probing /\ Listed /\ UNCHANGED <<sweep, source, health>>
  BY DEF CheckTcp, Listed, Probing
<1>2. next \in DOMAIN Candidates
  <2>1. Candidates \in Seq(Servers) /\ next \in Nat \ {0}
    BY CandidatesTyped DEF SInv, SelectionHolds, TypeOK
  <2>2. QED
    BY <2>1 DEF CheckTcp
<1>3. CASE Reject
  BY <1>1, <1>2, <1>3, Rejects
<1>4. CASE Onward("config") /\ UNCHANGED probe
  <2>1. Clean'
    BY <1>1, <1>4 DEF Onward, probe, SInv, Clean
  <2>2. TypeOK
    BY DEF SInv, SelectionHolds
  <2>3. QED
    BY <1>1, <1>2, <1>4, <2>1, <2>2, GoesOn DEF probe, TypeOK, Probing
<1>5. QED
  BY <1>3, <1>4 DEF CheckTcp

\* find_free_port and generate_temp_config.
LEMMA ConfigWritten == ASSUME SInv, GenerateTempConfig PROVE SInv'
<1>1. pc = "config" /\ pc \in Probing \ {"tcp"} /\ Listed /\ UNCHANGED <<sweep, source, health>>
  BY DEF GenerateTempConfig, Listed, Probing
<1>2. next \in DOMAIN Candidates
  BY <1>1, UnderTest
<1>3. CASE Reject
  BY <1>1, <1>2, <1>3, Rejects
<1>4. CASE file' = TRUE /\ Onward("spawn") /\ UNCHANGED child
  <2>1. Clean'
    BY <1>4 DEF Onward, Clean
  <2>2. TypeOK
    BY DEF SInv, SelectionHolds
  <2>3. QED
    BY <1>1, <1>2, <1>4, <2>1, <2>2, GoesOn DEF TypeOK, Probing
<1>5. QED
  BY <1>3, <1>4 DEF GenerateTempConfig

\* The check's xray is started from that file.
LEMMA Spawned == ASSUME SInv, SpawnProbe PROVE SInv'
<1>1. pc = "spawn" /\ pc \in Probing \ {"tcp"} /\ Listed /\ UNCHANGED <<sweep, source, health>>
  BY DEF SpawnProbe, Listed, Probing
<1>2. next \in DOMAIN Candidates
  BY <1>1, UnderTest
<1>3. CASE Reject
  BY <1>1, <1>2, <1>3, Rejects
<1>4. CASE child' = TRUE /\ Onward("ready") /\ UNCHANGED file
  <2>1. Clean' /\ file'
    BY <1>1, <1>4 DEF Onward, SInv, Clean
  <2>2. TypeOK
    BY DEF SInv, SelectionHolds
  <2>3. QED
    BY <1>1, <1>2, <1>4, <2>1, <2>2, GoesOn DEF TypeOK, Probing
<1>5. QED
  BY <1>3, <1>4 DEF SpawnProbe

\* The polls for its port.
LEMMA Awaited == ASSUME SInv, AwaitReady PROVE SInv'
<1>1. pc = "ready" /\ pc \in Probing \ {"tcp"} /\ Listed /\ UNCHANGED <<sweep, source, health>>
  BY DEF AwaitReady, Listed, Probing
<1>2. next \in DOMAIN Candidates
  BY <1>1, UnderTest
<1>3. CASE Reject
  BY <1>1, <1>2, <1>3, Rejects
<1>4. CASE Onward("request") /\ UNCHANGED probe
  <2>1. Clean'
    BY <1>4 DEF Onward, Clean
  <2>2. TypeOK
    BY DEF SInv, SelectionHolds
  <2>3. QED
    BY <1>1, <1>2, <1>4, <2>1, <2>2, GoesOn DEF probe, TypeOK, Probing
<1>5. QED
  BY <1>3, <1>4 DEF AwaitReady

\* A candidate that is taken is a server, and the URIs had their turn after the
\* JSON entries.
LEMMA Requested == ASSUME SInv, Request PROVE SInv'
<1>1. pc = "request" /\ pc \in Probing \ {"tcp"} /\ Listed /\ UNCHANGED health
  BY DEF Request, Listed, Probing
<1>2. next \in DOMAIN Candidates
  BY <1>1, UnderTest
<1>3. CASE Reject /\ UNCHANGED <<sweep, source>>
  BY <1>1, <1>2, <1>3, Rejects
<1>4. CASE Choose(Found) /\ file' = FALSE /\ child' = FALSE /\ UNCHANGED rejected
  <2>1. Found \in Servers
    BY <1>2, CandidatesTyped DEF Found, Candidate, SInv, SelectionHolds
  <2>2. source' \notin Vpn /\ pc' = "chosen" /\ UNCHANGED <<sweep, next>>
    BY <1>4, <2>1 DEF Choose
  <2>3. sweep = "uri" => JsonRejected'
    BY <1>1, <1>4 DEF SInv, InOrder, JsonRejected, Listed, gathered
  <2>4. Preference' /\ GivesUpLast'
    BY <2>2, <2>3 DEF Preference, GivesUpLast
  <2>5. QED
    BY <1>1, <1>4, <2>1, <2>2, <2>4, Ends DEF Choose
<1>5. QED
  BY <1>3, <1>4 DEF Request

\* The check's xray may exit, a server may come or go: neither touches what has
\* been found.
LEMMA OutsideSteps == ASSUME SInv, ProbeExits \/ ServerChanges PROVE SInv'
<1> USE DEF gathered, probe
<1>1. /\ pc \in Probing
      /\ UNCHANGED <<gathered, pc, sweep, parsed, next, file, source, rejected>>
      /\ child' = FALSE \/ child' = child
  BY DEF ProbeExits, ServerChanges
<1>2. TypeOK
  BY DEF SInv, SelectionHolds
<1>3. health' \in [Servers -> Healths]
  BY <1>2 DEF TypeOK, ProbeExits, ServerChanges
<1>4. TypeOK'
  <2>1. child' \in BOOLEAN /\ (child' => file')
    <3>1. file \in BOOLEAN /\ child \in BOOLEAN /\ (child => file) /\ file' = file
      BY <1>1, <1>2 DEF TypeOK
    <3>2. CASE child' = FALSE
      BY <3>2
    <3>3. CASE child' = child
      BY <3>1, <3>3
    <3>4. QED
      BY <1>1, <3>2, <3>3
  <2>2. Candidates' = Candidates
    BY <1>1 DEF Candidates
  <2>3. QED
    BY <1>1, <1>2, <1>3, <2>1, <2>2 DEF TypeOK
<1>5. Clean' /\ NothingLeft'
  BY <1>1 DEF SInv, SelectionHolds, Clean, NothingLeft
<1>6. Passed' /\ InOrder' /\ AllParsed'
  BY <1>1 DEF SInv, Passed, InOrder, JsonRejected, AllParsed, Kept
<1>7. QED
  BY <1>1, <1>4, <1>5, <1>6 DEF SInv, SelectionHolds, Preference, GivesUpLast, Begun, Parsing, Probing

\* A signal leaves everything as it is.
LEMMA Killed == ASSUME SInv, Kill PROVE SInv'
<1> USE DEF Kill, gathered, probe
<1>1. TypeOK'
  BY DEF SInv, SelectionHolds, TypeOK, Probing, Final
<1>2. InOrder'
  BY DEF SInv, InOrder, JsonRejected
<1>3. QED
  BY <1>1, <1>2 DEF SInv, SelectionHolds, Preference, GivesUpLast, NothingLeft, Begun, Passed,
                    Parsing, AllParsed, Probing, Clean

\* Nothing changes.
LEMMA Stutters == ASSUME SInv, UNCHANGED vars PROVE SInv'
<1> USE DEF vars, gathered, probe
<1>1. TypeOK'
  BY DEF SInv, SelectionHolds, TypeOK, Candidates
<1>2. Preference' /\ GivesUpLast' /\ NothingLeft'
  BY DEF SInv, SelectionHolds, Preference, GivesUpLast, NothingLeft, JsonRejected, UrisRejected
<1>3. InOrder' /\ Parsing' /\ AllParsed'
  BY DEF SInv, InOrder, JsonRejected, Parsing, AllParsed, Kept
<1>4. QED
  BY <1>1, <1>2, <1>3 DEF SInv, SelectionHolds, Begun, Passed, Clean

\* No step leaves the invariant.
LEMMA SelectStep == SInv /\ [Next]_vars => SInv'
BY Downloaded, DownloadsOver, Chooses, MovesOn, Parses, Parsed, TcpChecked, ConfigWritten, Spawned,
   Awaited, Requested, OutsideSteps, Killed, Stutters DEF Next, Work

-----------------------------------------------------------------------------
(* The theorems *)

\* SInv is an inductive invariant of every start.
THEOREM Inductive == Spec => []SInv
BY SelectInit, SelectStep, PTL DEF Spec

\* start takes the source that comes first of those that were not found wanting,
\* gives up only when none is left, and a check leaves neither its xray nor its
\* config.json behind unless corvex is killed: for every number of
\* subscriptions and whatever they hold (choose_source, resolve_uri_flow,
\* find_alive_params, TunnelGuard).
THEOREM SelectionIsRight == Spec => []SelectionHolds
<1>1. SInv => SelectionHolds
  BY DEF SInv
<1>2. QED
  BY <1>1, Inductive, PTL

\* A server is taken only at the end of a request through the tunnel of the
\* check's own xray, which is fast enough (check_tunnel, find_alive_params).
LEMMA TakenWorks ==
  ASSUME SInv, [Next]_vars, source' # source, source' \in Servers
  PROVE  health[source'] \in Acceptable /\ child
<1>1. CASE Request
  <2>1. Choose(Found) /\ health[Candidate] \in FastEnough /\ child
    BY <1>1 DEF Request
  <2>2. QED
    BY <2>1 DEF Choose, Found, FastEnough
<1>2. CASE ~Request
  <2>1. Choose(Head(vpns)) /\ vpns # <<>>
    BY <1>2 DEF vars, Next, Work, Download, DownloadsDone, ChooseSource, Exhausted, ParseNext,
                ParsingDone, CheckTcp, GenerateTempConfig, SpawnProbe, AwaitReady, ProbeExits,
                ServerChanges, Kill, ResolveUri, Sweep, GiveUp
  <2>2. Head(vpns) \in Vpn
    BY <2>1, FirstOf DEF SInv, SelectionHolds, TypeOK
  <2>3. QED
    BY <2>1, <2>2 DEF Choose
<1>3. QED
  BY <1>1, <1>2

\* The server that start goes on with has just been seen to work (find_alive_params).
THEOREM ChosenWorks == Spec => ChosenJustWorked
<1>1. SInv /\ [Next]_vars => [source' # source /\ source' \in Servers =>
        health[source'] \in Acceptable /\ child]_vars
  BY TakenWorks
<1>2. QED
  BY <1>1, Inductive, PTL DEF Spec, ChosenJustWorked
===============================================================================
