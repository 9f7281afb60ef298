------------------------------ MODULE LogsProofs ------------------------------
(***************************************************************************)
(* What holds of corvex.log for every set of corvex processes, every limit *)
(* and every number of records, and of the preflight of xray's logs for    *)
(* every set of paths and whatever is at them.                             *)
(***************************************************************************)
EXTENDS Logs, TLAPS

USE NamesApart, SizesAreNats

Tags == Procs \cup {Nil}
Entries == {<<t, k>> : t \in Tags, k \in Nat} \cup {<<t, k, "torn">> : t \in Tags, k \in Nat}
Waiting == {"idle", "mkdir", "stat", "retire", "rename", "open"}

Typed == TypeOK /\ data \in [Generations -> Seq(Entries)]

\* A process that has not opened the log has left no trace of itself.
Fresh(p) ==
  /\ data[p] = <<>> /\ log # p /\ past # p
  /\ said[p] = 0 /\ file[p] = Nil
  /\ \A q \in Procs : file[q] # p

Full == log # Nil /\ Len(data[log]) > Max

\* What a command that has met no other knows at each point.
Knows(p) ==
  /\ \A q \in Procs : Active(q) => q = p
  /\ pc[p] = "retire" => Full
  /\ pc[p] = "rename" => past = Nil
  /\ pc[p] = "open" /\ ~spoiled[p] /\ log # Nil => Len(data[log]) <= Max
  /\ pc[p] = "logs" /\ file[p] # Nil =>
       /\ log = file[p]
       /\ ~spoiled[p] => Len(data[log]) <= Max + said[p]

IInv ==
  /\ Typed
  /\ \A p \in Procs : pc[p] \in Waiting => Fresh(p)
  /\ \A p \in Procs : Active(p) /\ ~raced[p] => Knows(p)

-----------------------------------------------------------------------------
(* Sequences of records *)

\* A record appended is one more, of the same kind.
LEMMA OneMore ==
  ASSUME NEW s \in Seq(Entries), NEW r \in Entries
  PROVE  Append(s, r) \in Seq(Entries) /\ Len(Append(s, r)) = Len(s) + 1 /\ Len(s) \in Nat
OBVIOUS

\* An empty log is a sequence of records.
LEMMA NoRecords == <<>> \in Seq(Entries) /\ Len(<<>>) = 0
OBVIOUS

\* What was there before is records as well.
LEMMA FirstRecords ==
  ASSUME NEW n \in Nat
  PROVE  /\ [k \in 1 .. n |-> <<Nil, k>>] \in Seq(Entries)
         /\ <<<<Nil, 0>>>> \in Seq(Entries)
<1>1. \A k \in 1 .. n : <<Nil, k>> \in Entries
  BY DEF Entries, Tags
<1>2. <<Nil, 0>> \in Entries
  BY DEF Entries, Tags
<1>3. QED
  BY <1>1, <1>2

\* Every entry says whose it is.
LEMMA EntryOwner == ASSUME NEW r \in Entries PROVE r[1] \in Tags
BY DEF Entries

\* Logs of records have owners throughout, as TypeOK says.
LEMMA Owners ==
  ASSUME NEW f \in [Generations -> Seq(Entries)]
  PROVE  \A g \in Generations : \A k \in 1 .. Len(f[g]) : f[g][k][1] \in Procs \cup {Nil}
<1> SUFFICES ASSUME NEW g \in Generations, NEW k \in 1 .. Len(f[g])
             PROVE  f[g][k][1] \in Procs \cup {Nil}
  OBVIOUS
<1>1. f[g][k] \in Entries
  OBVIOUS
<1>2. QED
  BY <1>1, EntryOwner DEF Tags

-----------------------------------------------------------------------------
(* A step of one process *)

\* How a step of p may change what others see.
Touches(p) ==
  /\ \/ data' = data
     \/ /\ file[p] # Nil
        /\ \E r \in Entries : data' = [data EXCEPT ![file[p]] = Append(@, r)]
  /\ log' \in {log, Nil, p} /\ past' \in {past, Nil, log}
  /\ \A q \in Procs : file'[q] \in {file[q], Nil, log'}
  /\ \A q \in Procs : q # p => pc'[q] = pc[q] /\ said'[q] = said[q] /\ file'[q] = file[q]

\* Whatever p does, one that has not opened the log still has left no trace.
LEMMA FreshKept ==
  ASSUME Typed, NEW p \in Procs, Touches(p), NEW q \in Procs, q # p, Fresh(q)
  PROVE  Fresh(q)'
<1>1. data'[q] = data[q]
  BY DEF Touches, Fresh, Typed, Generations
<1>2. log' # q /\ past' # q
  BY DEF Touches, Fresh
<1>3. \A o \in Procs : file'[o] # q
  BY <1>2 DEF Touches, Fresh
<1>4. QED
  BY <1>1, <1>2, <1>3 DEF Touches, Fresh

\* And one that has met no other is the only one, so that a step of p need not
\* bother about what the rest know.
LEMMA Undisturbed ==
  ASSUME IInv, NEW p \in Procs, Active(p), Touches(p), UNCHANGED raced,
         Typed',
         pc'[p] \in Waiting => Fresh(p)',
         Active(p)' /\ ~raced[p] =>
           /\ pc'[p] = "retire" => Full'
           /\ pc'[p] = "rename" => past' = Nil
           /\ pc'[p] = "open" /\ ~spoiled'[p] /\ log' # Nil => Len(data'[log']) <= Max
           /\ pc'[p] = "logs" /\ file'[p] # Nil =>
                /\ log' = file'[p]
                /\ ~spoiled'[p] => Len(data'[log']) <= Max + said'[p]
  PROVE  IInv'
<1>1. \A q \in Procs : pc'[q] \in Waiting => Fresh(q)'
  <2> SUFFICES ASSUME NEW q \in Procs, pc'[q] \in Waiting, q # p PROVE Fresh(q)'
    OBVIOUS
  <2>1. pc[q] \in Waiting
    BY DEF Touches
  <2>2. QED
    BY <2>1, FreshKept DEF IInv
<1>2. ASSUME NEW q \in Procs, Active(q)', ~raced'[q] PROVE Knows(q)'
  <2>1. CASE q = p
    <3>1. \A o \in Procs : Active(o) => o = p
      BY <1>2, <2>1 DEF IInv, Knows
    <3>2. \A o \in Procs : Active(o)' => o = p
      BY <3>1 DEF Touches, Active
    <3>3. QED
      BY <1>2, <2>1, <3>2 DEF Knows
  <2>2. CASE q # p
    <3>1. Active(q) /\ ~raced[q]
      BY <1>2, <2>2 DEF Touches, Active
    <3>2. QED
      BY <2>2, <3>1 DEF IInv, Knows
  <2>3. QED
    BY <2>1, <2>2
<1>3. QED
  BY <1>1, <1>2 DEF IInv

\* A record written makes the log of p one longer.
LEMMA Written ==
  ASSUME Typed, NEW p \in Procs, file[p] # Nil, NEW r \in Entries,
         data' = [data EXCEPT ![file[p]] = Append(@, r)]
  PROVE  /\ data' \in [Generations -> Seq(Entries)]
         /\ Len(data'[file[p]]) = Len(data[file[p]]) + 1
<1>1. file[p] \in Generations /\ data[file[p]] \in Seq(Entries)
  BY DEF Typed, TypeOK
<1>2. QED
  BY <1>1, OneMore DEF Typed

-----------------------------------------------------------------------------
(* The inductive invariant *)

\* At first nobody has opened the log.
LEMMA InitIInv == Init => IInv
<1> SUFFICES ASSUME Init PROVE IInv
  OBVIOUS
<1>1. debug \in [Procs -> BOOLEAN]
  <2>1. PICK env \in [Procs -> BOOLEAN], s \in Settings :
          debug = [p \in Procs |-> DebugRequested(env[p], s)]
    BY DEF Init
  <2>2. \A p \in Procs : DebugRequested(env[p], s) \in BOOLEAN
    BY Zenon DEF DebugRequested
  <2>3. QED
    BY <2>1, <2>2
<1>2. data \in [Generations -> Seq(Entries)] /\ \A p \in Procs : data[p] = <<>>
  <2>1. PICK held \in 0 .. Max + 1 :
          data = [g \in Generations |->
                    IF g = "first" THEN [k \in 1 .. held |-> <<Nil, k>>]
                    ELSE IF g = "older" THEN <<<<Nil, 0>>>> ELSE <<>>]
    BY DEF Init
  <2>2. held \in Nat
    OBVIOUS
  <2>3. QED
    BY <2>1, <2>2, FirstRecords, NoRecords DEF Generations
<1>3. /\ log \in {Nil, "first"} /\ past \in {Nil, "older"}
      /\ \A p \in Procs : /\ pc[p] = "idle" /\ file[p] = Nil /\ said[p] = 0
                          /\ told[p] = 0 /\ spoiled[p] = FALSE /\ raced[p] = FALSE
  BY DEF Init
<1>4. /\ pc \in [Procs -> Pcs] /\ file \in [Procs -> Generations \cup {Nil}]
      /\ said \in [Procs -> 0 .. Records + Details] /\ told \in [Procs -> {0, 1}]
      /\ spoiled \in [Procs -> BOOLEAN] /\ raced \in [Procs -> BOOLEAN]
  BY DEF Init, Pcs
<1>5. Typed
  BY <1>1, <1>2, <1>3, <1>4, Owners DEF Typed, TypeOK, Generations
<1>6. QED
  BY <1>2, <1>3, <1>5 DEF IInv, Fresh, Active

\* Whoever begins while another is at work takes that one's certainty, and has
\* none itself.
LEMMA BeginIInv == ASSUME IInv, NEW p \in Procs, Begin(p) PROVE IInv'
<1>1. raced' \in [Procs -> BOOLEAN]
  <2>1. [q \in Procs |-> raced[q] \/ (q = p /\ \E o \in Procs : Active(o)) \/ (q # p /\ Active(q))]
           \in [Procs -> BOOLEAN]
    BY Zenon DEF IInv, Typed, TypeOK
  <2>2. QED
    BY <2>1 DEF Begin
<1>2. Typed'
  BY <1>1, Owners DEF Begin, disk, Goto, IInv, Typed, TypeOK, Pcs
<1>3. Fresh(p) /\ pc'[p] \in {"stat", "logs"} /\ \A q \in Procs : q # p => pc'[q] = pc[q]
  BY DEF Begin, Goto, IInv, Typed, TypeOK, Waiting
<1>4. \A q \in Procs : pc'[q] \in Waiting => Fresh(q)'
  BY <1>3 DEF Begin, disk, Fresh, IInv
<1>5. ASSUME NEW q \in Procs, Active(q)', ~raced'[q] PROVE Knows(q)'
  <2>1. ~raced[q] /\ ~(q = p /\ \E o \in Procs : Active(o)) /\ ~(q # p /\ Active(q))
    BY <1>5, Zenon DEF Begin
  <2>2. q = p /\ \A o \in Procs : ~Active(o)
    BY <1>3, <1>5, <2>1 DEF Active
  <2>3. \A o \in Procs : Active(o)' => o = q
    BY <1>3, <2>2 DEF Active
  <2>4. QED
    BY <1>3, <2>2, <2>3 DEF Begin, Fresh, Knows
<1>6. QED
  BY <1>2, <1>4, <1>5 DEF IInv

\* No step disturbs the invariant.
LEMMA NextIInv == IInv /\ [Next]_vars => IInv'
<1> SUFFICES ASSUME IInv, [Next]_vars PROVE IInv'
  OBVIOUS
<1> USE DEF Quiet, Goto, disk
<1>1. ASSUME NEW p \in Procs, Stat(p) PROVE IInv'
  <2>1. Typed' /\ Touches(p) /\ Active(p)
    BY <1>1 DEF Stat, IInv, Typed, TypeOK, Pcs, Touches, Active
  <2>2. Fresh(p)'
    BY <1>1 DEF Stat, IInv, Fresh, Waiting
  <2>3. pc'[p] = "retire" => Full'
    BY <1>1 DEF Stat, Full, IInv, Typed, TypeOK
  <2>4. pc'[p] \in {"retire", "open"} /\ (pc'[p] = "open" /\ log # Nil => Len(data[log]) <= Max)
    <3>1. log # Nil => Len(data[log]) \in Nat
      BY DEF IInv, Typed, TypeOK
    <3>2. QED
      BY <1>1, <3>1 DEF Stat, IInv, Typed, TypeOK
  <2>5. QED
    BY <1>1, <2>1, <2>2, <2>3, <2>4, Undisturbed DEF Stat
<1>2. ASSUME NEW p \in Procs, Retire(p) PROVE IInv'
  <2>1. Typed' /\ Touches(p) /\ Active(p) /\ pc'[p] = "rename"
    BY <1>2 DEF Retire, IInv, Typed, TypeOK, Pcs, Touches, Active
  <2>2. Fresh(p)'
    BY <1>2 DEF Retire, IInv, Fresh, Waiting
  <2>3. QED
    BY <1>2, <2>1, <2>2, Undisturbed DEF Retire
<1>3. ASSUME NEW p \in Procs, Rename(p) PROVE IInv'
  <2>1. Typed' /\ Touches(p) /\ Active(p) /\ pc'[p] = "open"
    BY <1>3 DEF Rename, IInv, Typed, TypeOK, Pcs, Touches, Active
  <2>2. Fresh(p)'
    BY <1>3 DEF Rename, IInv, Fresh, Waiting
  <2>3. QED
    BY <1>3, <2>1, <2>2, Undisturbed DEF Rename
<1>4. ASSUME NEW p \in Procs, RotationFails(p) PROVE IInv'
  <2>1. /\ Typed' /\ Touches(p) /\ Active(p)
        /\ pc'[p] = "open" /\ spoiled'[p]
    BY <1>4 DEF RotationFails, IInv, Typed, TypeOK, Pcs, Touches, Active
  <2>2. Fresh(p)'
    BY <1>4 DEF RotationFails, IInv, Fresh, Waiting
  <2>3. QED
    BY <1>4, <2>1, <2>2, Undisturbed DEF RotationFails
<1>5. ASSUME NEW p \in Procs, Open(p) PROVE IInv'
  <2>1. Typed' /\ Touches(p) /\ Active(p) /\ pc'[p] = "logs" /\ file'[p] = log'
    BY <1>5 DEF Open, IInv, Typed, TypeOK, Pcs, Touches, Active, Generations
  <2>2. Fresh(p) /\ pc[p] = "open"
    BY <1>5 DEF Open, IInv, Waiting
  <2>3. ASSUME ~raced[p], ~spoiled'[p] PROVE Len(data'[log']) <= Max + said'[p]
    <3>1. Knows(p)
      BY <2>1, <2>3 DEF IInv
    <3>2. said'[p] = 0 /\ data' = data /\ ~spoiled[p]
      BY <1>5, <2>2, <2>3 DEF Open, Fresh
    <3>3. CASE log = Nil
      <4>1. data'[log'] = <<>>
        BY <1>5, <2>2, <3>2, <3>3 DEF Open, Fresh
      <4>2. QED
        BY <3>2, <4>1, NoRecords
    <3>4. CASE log # Nil
      <4>1. Len(data[log]) <= Max /\ log' = log
        BY <1>5, <2>2, <3>1, <3>2, <3>4 DEF Open, Knows
      <4>2. QED
        BY <3>2, <4>1
    <3>5. QED
      BY <3>3, <3>4
  <2>4. QED
    BY <1>5, <2>1, <2>3, Undisturbed DEF Open, Waiting
<1>6. ASSUME NEW p \in Procs, OpenFails(p) PROVE IInv'
  <2>1. Typed' /\ Touches(p) /\ Active(p) /\ pc'[p] = "logs"
    BY <1>6 DEF OpenFails, IInv, Typed, TypeOK, Pcs, Touches, Active
  <2>2. file'[p] = Nil
    BY <1>6 DEF OpenFails, IInv, Fresh, Waiting
  <2>3. QED
    BY <1>6, <2>1, <2>2, Undisturbed DEF OpenFails, Waiting
<1>7. ASSUME NEW p \in Procs, Emit(p) PROVE IInv'
  <2> DEFINE r == <<p, said[p] + 1>>
  <2>1. r \in Entries
    BY DEF Entries, Tags, IInv, Typed, TypeOK
  <2> HIDE DEF r
  <2>2. data' = IF file[p] = Nil THEN data ELSE [data EXCEPT ![file[p]] = Append(@, r)]
    BY <1>7 DEF Emit, r
  <2>3. data' \in [Generations -> Seq(Entries)]
    BY <2>1, <2>2, Written DEF IInv, Typed
  <2>4. said[p] \in Nat /\ said[p] < Records + Details /\ said' = [said EXCEPT ![p] = @ + 1]
    BY <1>7 DEF Emit, Length, IInv, Typed, TypeOK
  <2>5. said' \in [Procs -> 0 .. Records + Details] /\ said'[p] = said[p] + 1
    BY <2>4 DEF IInv, Typed, TypeOK
  <2>6. Typed'
    BY <1>7, <2>3, <2>5, Owners DEF Emit, IInv, Typed, TypeOK
  <2>7. Touches(p) /\ Active(p) /\ pc'[p] = "logs"
    BY <1>7, <2>1, <2>2, <2>4 DEF Emit, Touches, Active, IInv, Typed, TypeOK
  <2>8. ASSUME ~raced[p], file'[p] # Nil
        PROVE  log' = file'[p] /\ (~spoiled'[p] => Len(data'[log']) <= Max + said'[p])
    <3>1. Knows(p) /\ pc[p] = "logs" /\ UNCHANGED <<log, file, spoiled>>
      BY <1>7, <2>7, <2>8 DEF Emit, IInv
    <3>2. log = file[p] /\ (~spoiled[p] => Len(data[log]) <= Max + said[p])
      BY <2>8, <3>1 DEF Knows
    <3>3. Len(data'[log]) = Len(data[log]) + 1
      BY <2>1, <2>2, <2>8, <3>1, <3>2, Written DEF IInv
    <3>4. Len(data[log]) \in Nat
      BY <2>8, <3>1, <3>2 DEF IInv, Typed, TypeOK
    <3>5. QED
      BY <2>4, <2>5, <3>1, <3>2, <3>3, <3>4
  <2>9. QED
    BY <1>7, <2>6, <2>7, <2>8, Undisturbed DEF Emit, Waiting
<1>8. ASSUME NEW p \in Procs, FileFails(p) PROVE IInv'
  <2> DEFINE r == <<p, said[p] + 1, "torn">>
  <2>1. r \in Entries
    BY DEF Entries, Tags, IInv, Typed, TypeOK
  <2> HIDE DEF r
  <2>2. file[p] # Nil /\ (data' = data \/ data' = [data EXCEPT ![file[p]] = Append(@, r)])
    BY <1>8 DEF FileFails, r
  <2>3. data' \in [Generations -> Seq(Entries)]
    BY <2>1, <2>2, Written DEF IInv, Typed
  <2>4. said[p] \in Nat /\ said[p] < Records + Details /\ said' = [said EXCEPT ![p] = @ + 1]
    BY <1>8 DEF FileFails, Length, IInv, Typed, TypeOK
  <2>5. said' \in [Procs -> 0 .. Records + Details]
    BY <2>4 DEF IInv, Typed, TypeOK
  <2>6. Typed'
    <3>1. file' \in [Procs -> Generations \cup {Nil}] /\ told' \in [Procs -> {0, 1}]
      BY <1>8 DEF FileFails, IInv, Typed, TypeOK
    <3>2. UNCHANGED <<log, past, pc, debug, spoiled, raced>>
      BY <1>8 DEF FileFails
    <3>3. \A g \in Generations : \A k \in 1 .. Len(data'[g]) : data'[g][k][1] \in Procs \cup {Nil}
      BY <2>3, Owners
    <3>4. TypeOK'
      BY <2>5, <3>1, <3>2, <3>3 DEF IInv, Typed, TypeOK
    <3>5. QED
      BY <2>3, <3>4 DEF Typed
  <2>7. Touches(p) /\ Active(p) /\ pc'[p] = "logs" /\ file'[p] = Nil
    BY <1>8, <2>1, <2>2, <2>4 DEF FileFails, Touches, Active, IInv, Typed, TypeOK
  <2>8. QED
    BY <1>8, <2>6, <2>7, Undisturbed DEF FileFails, Waiting
<1>9. ASSUME NEW p \in Procs, Finish(p) \/ Kill(p) PROVE IInv'
  <2>1. Typed' /\ Touches(p) /\ Active(p) /\ pc'[p] \in {"done", "dead"}
    BY <1>9 DEF Finish, Kill, IInv, Typed, TypeOK, Pcs, Touches, Active
  <2>2. QED
    BY <1>9, <2>1, Undisturbed DEF Finish, Kill, Waiting, Active
<1>10. CASE UNCHANGED vars
  BY <1>10 DEF vars, IInv, Typed, TypeOK, Fresh, Knows, Active, Full
<1>11. QED
  BY <1>1, <1>2, <1>3, <1>4, <1>5, <1>6, <1>7, <1>8, <1>9, <1>10, BeginIInv
     DEF Next, Step, Prepare

-----------------------------------------------------------------------------
(* Theorems *)

\* Every variable keeps its type, whichever processes rotate and write side by
\* side (main.rs, TeeWriter; config.rs, rotate_if_oversized).
THEOREM TypeCorrect == Spec => []TypeOK
<1>1. IInv => TypeOK
  BY DEF IInv, Typed
<1>2. QED
  BY <1>1, InitIInv, NextIInv, PTL DEF Spec

\* A command that meets no other writes to the file that is named corvex.log,
\* rotated or not (config.rs, prepare_log_file_at).
THEOREM LogAtItsName == Spec => []AtItsName
<1>1. IInv => AtItsName
  BY DEF IInv, Knows, Active, AtItsName
<1>2. QED
  BY <1>1, InitIInv, NextIInv, PTL DEF Spec

\* And, unless a step of the rotation fails, leaves no more than the limit and
\* its own records there (config.rs, rotate_if_oversized).
THEOREM LogBounded == Spec => []Bounded
<1>1. IInv => Bounded
  BY DEF IInv, Knows, Active, Bounded
<1>2. QED
  BY <1>1, InitIInv, NextIInv, PTL DEF Spec

\* Where commands do not overlap, corvex.log.1 is given up only for a full
\* corvex.log that takes its place (config.rs, rotate_if_oversized).
THEOREM PastKept == Spec => OnePastGenerationKeptAlone
<1>1. IInv /\ [Next]_vars => [(\A p \in Procs : Active(p) => ~raced[p]) => GivenUpForNext]_vars
  <2> SUFFICES ASSUME IInv, [Next]_vars, \A p \in Procs : Active(p) => ~raced[p],
                      past # Nil, past' # past
               PROVE  Full
    BY DEF GivenUpForNext, Full
  <2>1. PICK p \in Procs : Retire(p) \/ Rename(p)
    BY DEF Next, Step, Prepare, Begin, Stat, RotationFails, Open, OpenFails, Emit, FileFails,
           Finish, Kill, disk, vars
  <2>2. Active(p) /\ Knows(p)
    BY <2>1 DEF Retire, Rename, Active, IInv
  <2>3. QED
    BY <2>1, <2>2 DEF Retire, Rename, Knows
<1>2. QED
  BY <1>1, InitIInv, NextIInv, PTL DEF Spec, OnePastGenerationKeptAlone

-----------------------------------------------------------------------------
(* What is in the log.  No two processes have a record in common, so that a  *)
(* step of one adds at most one record of its own and moves nobody else's.   *)

\* Inductive: who has not opened the log has no record in any generation, and
\* whose sink is there has all of them, in order.
RInv ==
  /\ IInv
  /\ \A p \in Procs : pc[p] \in Waiting => \A g \in Generations : Places(p, g) = {}
  /\ NoHoles /\ Durable

\* Where the records of a process are after one more record is written.
Of(p, s) == {i \in DOMAIN s : s[i][1] = p}
Extends(p, t, s, r) ==
  /\ \A i \in Of(p, s) : t[i] = s[i] /\ i < Len(s) + 1
  /\ t[Len(s) + 1] = r
  /\ r[1] # p => Of(p, t) = Of(p, s)
  /\ r[1] = p => Of(p, t) = Of(p, s) \cup {Len(s) + 1}
LEMMA OfAppended ==
  ASSUME NEW s \in Seq(Entries), NEW r \in Entries, NEW p \in Procs
  PROVE  Extends(p, Append(s, r), s, r)
<1>1. /\ DOMAIN Append(s, r) = (DOMAIN s) \cup {Len(s) + 1}
      /\ \A i \in DOMAIN s : Append(s, r)[i] = s[i] /\ i < Len(s) + 1
      /\ Append(s, r)[Len(s) + 1] = r
      /\ Len(s) + 1 \notin DOMAIN s
  OBVIOUS
<1>2. QED
  BY <1>1 DEF Of, Extends

\* The same of the log: a record appended to a generation comes last there.
Grows(p, g, r) ==
  /\ \A i \in Places(p, g) : data'[g][i] = data[g][i] /\ i < Len(data[g]) + 1
  /\ data'[g][Len(data[g]) + 1] = r
  /\ r[1] # p => Places(p, g)' = Places(p, g)
  /\ r[1] = p => Places(p, g)' = Places(p, g) \cup {Len(data[g]) + 1}
LEMMA PlacesWritten ==
  ASSUME Typed, NEW p \in Procs, NEW g \in Generations, NEW r \in Entries,
         data' = [data EXCEPT ![g] = Append(@, r)]
  PROVE  Grows(p, g, r)
<1>1. data[g] \in Seq(Entries)
  BY DEF Typed
<1>2. data'[g] = Append(data[g], r)
  BY DEF Typed
<1>3. Places(p, g) = Of(p, data[g]) /\ Places(p, g)' = Of(p, data'[g])
  BY DEF Places, Of
<1>4. Extends(p, Append(data[g], r), data[g], r)
  BY <1>1, OfAppended
<1>5. QED
  BY <1>2, <1>3, <1>4 DEF Extends, Grows

\* A step that writes nothing of p leaves the records of p as they were.
LEMMA OthersWrite ==
  ASSUME Typed, NEW p \in Procs, NEW g \in Generations, NEW r \in Entries, r[1] # p,
         data' = [data EXCEPT ![g] = Append(@, r)]
  PROVE  \A h \in Generations : /\ Places(p, h)' = Places(p, h)
                                /\ \A i \in Places(p, h) : data'[h][i] = data[h][i]
<1> SUFFICES ASSUME NEW h \in Generations
             PROVE  Places(p, h)' = Places(p, h) /\ \A i \in Places(p, h) : data'[h][i] = data[h][i]
  OBVIOUS
<1>1. CASE h # g
  BY <1>1 DEF Typed, Places
<1>2. CASE h = g
  <2>1. Grows(p, h, r)
    BY <1>2, PlacesWritten
  <2>2. QED
    BY <2>1 DEF Grows
<1>3. QED
  BY <1>1, <1>2

\* What is kept of a process as long as its records are where they were.
LEMMA OrderKept ==
  ASSUME NEW p \in Procs, NEW g \in Generations, InOrder(p, g), Places(p, g)' = Places(p, g),
         \A i \in Places(p, g) : data'[g][i] = data[g][i]
  PROVE  InOrder(p, g)'
<1> DEFINE P == Places(p, g)
<1>1. /\ P = Places(p, g)'
      /\ \A i \in P : data'[g][i] = data[g][i]
      /\ \A i \in P : /\ \A k \in 1 .. data[g][i][2] - 1 : \E j \in P : j < i /\ data[g][j] = <<p, k>>
                      /\ \A j \in P : j < i => /\ data[g][j][2] < data[g][i][2]
                                               /\ data[g][j] = <<p, data[g][j][2]>>
  BY DEF InOrder
<1> HIDE DEF P
<1>2. \A i \in P : /\ \A k \in 1 .. data'[g][i][2] - 1 : \E j \in P : j < i /\ data'[g][j] = <<p, k>>
                   /\ \A j \in P : j < i => /\ data'[g][j][2] < data'[g][i][2]
                                            /\ data'[g][j] = <<p, data'[g][j][2]>>
  BY <1>1
<1>3. QED
  BY <1>1, <1>2 DEF InOrder

\* A record written after all of its process so far is in order, and where it
\* is whole, nothing is missing.
LEMMA NextInOrder ==
  ASSUME Typed, NEW p \in Procs, NEW g \in Generations, InOrder(p, g), Complete(p, g),
         NEW r \in Entries, r \in {<<p, said[p] + 1>>, <<p, said[p] + 1, "torn">>},
         data' = [data EXCEPT ![g] = Append(@, r)]
  PROVE  /\ InOrder(p, g)'
         /\ r = <<p, said[p] + 1>> /\ said'[p] = said[p] + 1 => Complete(p, g)'
<1> DEFINE P == Places(p, g)
           n == Len(data[g]) + 1
<1>1. said[p] \in Nat /\ r[1] = p /\ r[2] = said[p] + 1
  BY DEF Typed, TypeOK
<1>5. /\ Places(p, g)' = P \cup {n} /\ n \in Nat
      /\ \A i \in P : data'[g][i] = data[g][i] /\ i < n /\ i \in Nat
      /\ data'[g][n] = r
  <2>1. data[g] \in Seq(Entries)
    BY DEF Typed
  <2>2. n \in Nat /\ \A i \in P : i \in Nat
    BY <2>1 DEF Places
  <2>3. Grows(p, g, r)
    BY PlacesWritten
  <2>4. QED
    BY <1>1, <2>2, <2>3 DEF Grows
<1>6. /\ \A k \in 1 .. said[p] : \E j \in P : data[g][j] = <<p, k>>
      /\ \A j \in P : \E k \in 1 .. said[p] : data[g][j] = <<p, k>>
  <2>1. {data[g][i] : i \in P} = {<<p, k>> : k \in 1 .. said[p]}
    BY DEF Complete
  <2>2. QED
    BY <2>1
<1>7. /\ \A i \in P : /\ \A k \in 1 .. data[g][i][2] - 1 : \E j \in P : j < i /\ data[g][j] = <<p, k>>
                      /\ \A j \in P : j < i => /\ data[g][j][2] < data[g][i][2]
                                               /\ data[g][j] = <<p, data[g][j][2]>>
  BY DEF InOrder
<1> DEFINE D == data'[g]
           Q == Places(p, g)'
<1>8. D[n] = r /\ (\A i \in P : D[i] = data[g][i]) /\ Q = P \cup {n}
  BY <1>5
<1> HIDE DEF P, n, D, Q
<1>9. ASSUME NEW i \in Q
      PROVE  /\ \A k \in 1 .. D[i][2] - 1 : \E j \in Q : j < i /\ D[j] = <<p, k>>
             /\ \A j \in Q : j < i => D[j][2] < D[i][2] /\ D[j] = <<p, D[j][2]>>
  <2>1. CASE i = n
    <3>1. D[i][2] - 1 = said[p]
      BY <1>1, <1>8, <2>1
    <3>2. \A k \in 1 .. said[p] : \E j \in P : j < i /\ D[j] = <<p, k>>
      BY <1>5, <1>6, <1>8, <2>1
    <3>3. ASSUME NEW j \in P PROVE D[j][2] < D[i][2] /\ D[j] = <<p, D[j][2]>>
      <4>1. PICK k \in 1 .. said[p] : D[j] = <<p, k>>
        BY <1>6, <1>8
      <4>2. D[j][2] = k
        BY <4>1
      <4>3. QED
        BY <1>1, <1>8, <2>1, <4>1, <4>2
    <3>4. \A j \in Q : j < i => j \in P
      BY <1>5, <1>8, <2>1
    <3>5. QED
      BY <1>8, <3>1, <3>2, <3>3, <3>4
  <2>2. CASE i \in P
    <3>1. \A j \in Q : j < i => j \in P
      BY <1>5, <1>8, <2>2
    <3>2. QED
      BY <1>7, <1>8, <2>2, <3>1
  <2>3. QED
    BY <1>8, <2>1, <2>2
<1>10. InOrder(p, g)'
  BY <1>9 DEF InOrder, D, Q
<1>11. ASSUME r = <<p, said[p] + 1>>, said'[p] = said[p] + 1 PROVE Complete(p, g)'
  <2>1. \A k \in 1 .. said[p] + 1 : k \in 1 .. said[p] \/ k = said[p] + 1
    BY <1>1
  <2>2. {D[i] : i \in P \cup {n}} = {<<p, k>> : k \in 1 .. said[p] + 1}
    <3>1. \A i \in P \cup {n} : \E k \in 1 .. said[p] + 1 : D[i] = <<p, k>>
      BY <1>1, <1>6, <1>8, <1>11
    <3>2. \A k \in 1 .. said[p] + 1 : \E i \in P \cup {n} : D[i] = <<p, k>>
      BY <1>1, <1>6, <1>8, <1>11, <2>1
    <3>3. QED
      BY <3>1, <3>2
  <2>3. Places(p, g)' = P \cup {n} /\ data'[g] = D /\ said'[p] = said[p] + 1
    BY <1>5, <1>11 DEF D
  <2>4. QED
    BY <2>2, <2>3 DEF Complete
<1>12. QED
  BY <1>10, <1>11

\* A step that writes nothing: a sink that is there afterwards was there before
\* with as much to show, or has been opened by one that has said nothing.
LEMMA NothingWritten ==
  ASSUME RInv, IInv', data' = data,
         \A p \in Procs : pc'[p] \in Waiting => pc[p] \in Waiting,
         \A p \in Procs : file'[p] # Nil =>
            \/ file'[p] = file[p] /\ said'[p] = said[p]
            \/ pc[p] \in Waiting /\ said'[p] = 0
  PROVE  RInv'
<1>1. \A p \in Procs, g \in Generations : Places(p, g)' = Places(p, g)
  BY DEF Places
<1>2. NoHoles'
  BY <1>1 DEF RInv, NoHoles, InOrder
<1>3. ASSUME NEW p \in Procs, file'[p] # Nil
      PROVE  {data'[file'[p]][i] : i \in {i \in DOMAIN data'[file'[p]] : data'[file'[p]][i][1] = p}}
                = {<<p, k>> : k \in 1 .. said'[p]}
  <2>1. PICK g \in Generations : g = file'[p]
    BY <1>3 DEF IInv, Typed, TypeOK
  <2>2. Places(p, g) = {i \in DOMAIN data[g] : data[g][i][1] = p}
    BY DEF Places
  <2>3. CASE g = file[p] /\ said'[p] = said[p]
    <3>1. Complete(p, g)
      BY <1>3, <2>1, <2>3 DEF RInv, Durable
    <3>2. QED
      BY <2>1, <2>2, <2>3, <3>1 DEF Complete
  <2>4. CASE pc[p] \in Waiting /\ said'[p] = 0
    <3>1. Places(p, g) = {}
      BY <2>4 DEF RInv
    <3>2. QED
      BY <2>1, <2>2, <2>4, <3>1
  <2>5. QED
    BY <1>3, <2>1, <2>3, <2>4
<1>4. Durable'
  BY <1>3 DEF Durable, Complete, Places
<1>5. QED
  BY <1>1, <1>2, <1>4 DEF RInv

\* A step that writes a record of its process, the next one, and keeps the sink
\* only where the record is whole.
LEMMA RecordWritten ==
  ASSUME RInv, IInv', NEW p \in Procs, file[p] # Nil, UNCHANGED pc, pc[p] \notin Waiting,
         NEW r \in Entries, r \in {<<p, said[p] + 1>>, <<p, said[p] + 1, "torn">>},
         data' = [data EXCEPT ![file[p]] = Append(@, r)],
         said' = [said EXCEPT ![p] = @ + 1],
         \A q \in Procs : q # p => file'[q] = file[q],
         file'[p] # Nil => file'[p] = file[p] /\ r = <<p, said[p] + 1>>
  PROVE  RInv'
<1> Typed /\ Typed'
  BY DEF RInv, IInv
<1>1. PICK g \in Generations : g = file[p]
  BY DEF Typed, TypeOK
<1>2. data' = [data EXCEPT ![g] = Append(@, r)]
  BY <1>1
<1>3. said[p] \in Nat /\ said'[p] = said[p] + 1 /\ \A q \in Procs : q # p => said'[q] = said[q]
  BY DEF Typed, TypeOK
<1>4. r[1] = p
  OBVIOUS
<1>5. ASSUME NEW q \in Procs, q # p
      PROVE  \A h \in Generations : /\ Places(q, h)' = Places(q, h)
                                    /\ \A i \in Places(q, h) : data'[h][i] = data[h][i]
  <2>1. r[1] # q
    BY <1>4, <1>5
  <2>2. QED
    BY <1>2, <2>1, OthersWrite
<1>6. \A h \in Generations : h # g => data'[h] = data[h] /\ Places(p, h)' = Places(p, h)
  BY <1>2 DEF Typed, Places
<1>7. InOrder(p, g) /\ Complete(p, g)
  BY <1>1 DEF RInv, NoHoles, Durable
<1>8. InOrder(p, g)' /\ (r = <<p, said[p] + 1>> /\ said'[p] = said[p] + 1 => Complete(p, g)')
  BY <1>2, <1>7, NextInOrder
<1>9. NoHoles'
  <2> SUFFICES ASSUME NEW q \in Procs, NEW h \in Generations PROVE InOrder(q, h)'
    BY DEF NoHoles
  <2>1. InOrder(q, h)
    BY DEF RInv, NoHoles
  <2>2. CASE q # p
    BY <1>5, <2>1, <2>2, OrderKept
  <2>3. CASE q = p /\ h # g
    BY <1>6, <2>1, <2>3, OrderKept
  <2>4. QED
    BY <1>8, <2>2, <2>3
<1>10. Durable'
  <2> SUFFICES ASSUME NEW q \in Procs, file'[q] # Nil, NEW h \in Generations, h = file'[q]
               PROVE  Complete(q, h)'
    BY DEF Durable, Complete, Typed, TypeOK, Places
  <2>1. CASE q = p
    BY <1>1, <1>3, <1>8, <2>1
  <2>2. CASE q # p
    <3>1. h = file[q] /\ Complete(q, h)
      BY <2>2 DEF RInv, Durable
    <3>2. {data'[h][i] : i \in Places(q, h)'} = {data[h][i] : i \in Places(q, h)}
      <4> DEFINE P == Places(q, h)
                 Q == Places(q, h)'
                 D == data'[h]
                 E == data[h]
      <4>1. Q = P /\ \A i \in P : D[i] = E[i]
        BY <1>5, <2>2
      <4> HIDE DEF P, Q, D, E
      <4>2. {D[i] : i \in Q} = {E[i] : i \in P}
        BY <4>1
      <4>3. QED
        BY <4>2 DEF P, Q, D, E
    <3>3. QED
      BY <1>3, <2>2, <3>1, <3>2 DEF Complete
  <2>3. QED
    BY <2>1, <2>2
<1>11. ASSUME NEW q \in Procs, pc'[q] \in Waiting, NEW h \in Generations PROVE Places(q, h)' = {}
  BY <1>5, <1>11 DEF RInv
<1>12. QED
  BY <1>9, <1>10, <1>11 DEF RInv

\* At first no process has a record.
LEMMA InitRInv == Init => RInv
<1> SUFFICES ASSUME Init, NEW p \in Procs, NEW g \in Generations PROVE Places(p, g) = {}
  BY InitIInv DEF RInv, NoHoles, InOrder, Durable, Init
<1>1. PICK held \in 0 .. Max + 1 :
        data = [h \in Generations |->
                  IF h = "first" THEN [k \in 1 .. held |-> <<Nil, k>>]
                  ELSE IF h = "older" THEN <<<<Nil, 0>>>> ELSE <<>>]
  BY DEF Init
<1>2. \A i \in DOMAIN data[g] : data[g][i][1] = Nil
  BY <1>1
<1>3. QED
  BY <1>2 DEF Places

\* No step disturbs it.
LEMMA NextRInv == RInv /\ [Next]_vars => RInv'
<1> SUFFICES ASSUME RInv, [Next]_vars PROVE RInv'
  OBVIOUS
<1> IInv' /\ Typed
  BY NextIInv DEF RInv, IInv
<1> USE DEF Quiet, Goto, disk
<1>1. ASSUME NEW p \in Procs, Emit(p) PROVE RInv'
  <2>1. CASE file[p] = Nil
    <3>1. /\ data' = data /\ UNCHANGED <<pc, file>>
          /\ \A q \in Procs : q # p => said'[q] = said[q]
      BY <1>1, <2>1 DEF Emit, Typed, TypeOK
    <3>2. QED
      BY <2>1, <3>1, NothingWritten
  <2>2. CASE file[p] # Nil
    <3>1. <<p, said[p] + 1>> \in Entries
      BY DEF Entries, Tags, Typed, TypeOK
    <3>2. QED
      BY <1>1, <2>2, <3>1, RecordWritten DEF Emit, Waiting
  <2>3. QED
    BY <2>1, <2>2
<1>2. ASSUME NEW p \in Procs, FileFails(p) PROVE RInv'
  <2>1. /\ UNCHANGED pc /\ pc[p] = "logs" /\ file'[p] = Nil /\ file[p] # Nil
        /\ said' = [said EXCEPT ![p] = @ + 1]
        /\ \A q \in Procs : q # p => said'[q] = said[q] /\ file'[q] = file[q]
    BY <1>2 DEF FileFails, Typed, TypeOK
  <2>2. CASE data' = data
    BY <2>1, <2>2, NothingWritten
  <2>3. CASE data' = [data EXCEPT ![file[p]] = Append(@, <<p, said[p] + 1, "torn">>)]
    <3>1. <<p, said[p] + 1, "torn">> \in Entries
      BY DEF Entries, Tags, Typed, TypeOK
    <3>2. QED
      BY <2>1, <2>3, <3>1, RecordWritten DEF Waiting
  <2>4. QED
    BY <1>2, <2>2, <2>3 DEF FileFails
<1>3. ASSUME NEW p \in Procs, Open(p) PROVE RInv'
  <2>1. /\ data' = data /\ pc[p] = "open" /\ said' = said /\ pc'[p] = "logs"
        /\ \A q \in Procs : q # p => file'[q] = file[q] /\ pc'[q] = pc[q]
    BY <1>3 DEF Open, Typed, TypeOK
  <2>2. said[p] = 0
    BY <2>1 DEF RInv, IInv, Fresh, Waiting
  <2>3. QED
    BY <2>1, <2>2, NothingWritten DEF Waiting
<1>4. ASSUME NEW p \in Procs,
             \/ Begin(p) \/ Stat(p) \/ Retire(p) \/ Rename(p) \/ RotationFails(p) \/ OpenFails(p)
             \/ Finish(p) \/ Kill(p)
      PROVE  RInv'
  <2>1. /\ UNCHANGED <<data, file, said>> /\ \A q \in Procs : q # p => pc'[q] = pc[q]
        /\ pc'[p] \in Waiting => pc[p] \in Waiting
    BY <1>4 DEF Begin, Stat, Retire, Rename, RotationFails, OpenFails, Finish, Kill, Typed, TypeOK,
                Active, Waiting
  <2>2. QED
    BY <2>1, NothingWritten
<1>5. CASE UNCHANGED vars
  BY <1>5, NothingWritten DEF vars
<1>6. QED
  BY <1>1, <1>2, <1>3, <1>4, <1>5 DEF Next, Step, Prepare

\* corvex.log has no holes: whoever rotates, fails or is killed meanwhile, the
\* records of a command stand in one generation in order, from its first, and
\* none follows a torn one (main.rs, TeeWriter.write).
THEOREM LogHasNoHoles == Spec => []NoHoles
<1>1. RInv => NoHoles
  BY DEF RInv
<1>2. QED
  BY <1>1, InitRInv, NextRInv, PTL DEF Spec

\* Types, order, completeness of the records, and what a command that meets no
\* other leaves at the name corvex.log, all at once (main.rs, init_logger and
\* TeeWriter.write; config.rs, rotate_if_oversized).
THEOREM LogCorrect == Spec => []LogHolds
<1>1. RInv => LogHolds
  BY DEF RInv, IInv, Typed, Knows, Active, AtItsName, Bounded, LogHolds
<1>2. QED
  BY <1>1, InitRInv, NextRInv, PTL DEF Spec

-----------------------------------------------------------------------------
(***************************************************************************)
(* LogPreflight.                                                           *)
(***************************************************************************)

USE ConstantsTyped

\* What a path that was probed may have become, if no other xray meddles.
Same(p) == logs[p] = before[p] \/ (before[p] = "dangling" /\ logs[p] = "linked")

CheckTyped ==
  /\ Check!TypeOK
  /\ checkPc = "dirs" => probe = 1 /\ errors = {}
  /\ checkPc \in {"open", "remove"} => probe <= Len(Check!Targets) /\ Check!Target \notin Check!Seen
  /\ checkPc \in {"passed", "refused"} => probe = Len(Check!Targets) + 1
  /\ checkPc = "passed" => errors = {}

\* A target that was probed opens or is told of; the one that is probed has
\* what made it pass so far.
Verified ==
  /\ \A p \in Check!Seen : p \in errors \/ Check!Opens(p)
  /\ errors \subseteq Check!Seen
  /\ checkPc = "open" /\ ~existed => logs[Check!Target] \in Check!Nothing \cup {"file"}
  /\ checkPc = "open" /\ existed => logs[Check!Target] \notin Check!Nothing
  /\ checkPc = "remove" => logs[Check!Target] = "file"

\* What the preflight has found and left of the tree, if it is alone.
Untraced ==
  /\ checkPc # "dirs" => \A p \in Check!LogDirs : before[p] # "noParent"
  /\ checkPc # "dirs" /\ ~met =>
       /\ \A p \in Check!Paths : \/ Same(p) \/ p \in errors
                                 \/ checkPc = "remove" /\ p = Check!Target
       /\ \A p \in Check!Paths \ Check!Seen :
            logs[p] = before[p] \/ (checkPc = "remove" /\ p = Check!Target)
       /\ checkPc = "open" /\ ~existed => before[Check!Target] \in Check!Nothing
       /\ checkPc = "remove" => before[Check!Target] = "absent"
       /\ \A p \in errors : before[p] \notin {"noParent", "file"}

CheckInv == CheckTyped /\ Verified /\ Untraced

\* What a sequence holds that was put together from two.
LEMMA Joined ==
  ASSUME NEW S, NEW s \in Seq(S), NEW t \in Seq(S)
  PROVE  /\ s \o t \in Seq(S) /\ Len(s \o t) = Len(s) + Len(t)
         /\ DOMAIN (s \o t) = 1..(Len(s) + Len(t))
         /\ \A i \in 1..Len(s) : (s \o t)[i] = s[i]
         /\ \A i \in 1..Len(t) : (s \o t)[Len(s) + i] = t[i]
OBVIOUS

\* The targets are one to three paths, the file that takes xray's output first.
LEMMA TargetsAre ==
  ASSUME access \in Check!Options, error \in Check!Options
  PROVE  /\ Check!Targets \in Seq(Check!Paths)
         /\ Len(Check!Targets) \in 1..3
         /\ DOMAIN Check!Targets = 1..Len(Check!Targets)
         /\ Check!CapturedLog \in Check!LogDirs
         /\ \A v \in {Check!Access, Check!Error} \ {Check!Special} : v \in Check!LogDirs
<1> DEFINE c == <<Check!CapturedLog>>
           a == Check!Named(Check!Access)
           e == Check!Named(Check!Error)
<1>1. Check!CapturedLog \in Check!Paths
  BY DEF Check!CapturedLog, Check!Options, Check!Paths, Check!Chosen
<1>2. c \in Seq(Check!Paths) /\ Len(c) = 1 /\ c[1] = Check!CapturedLog
  BY <1>1
<1>3. ASSUME NEW v \in Check!Paths \cup {Check!Special}
      PROVE  /\ Check!Named(v) \in Seq(Check!Paths) /\ Len(Check!Named(v)) \in {0, 1}
             /\ v # Check!Special => Len(Check!Named(v)) = 1 /\ Check!Named(v)[1] = v
  BY <1>3 DEF Check!Named
<1>4. /\ Check!Access \in Check!Paths \cup {Check!Special}
      /\ Check!Error \in Check!Paths \cup {Check!Special}
  BY DEF Check!Access, Check!Error, Check!Effective, Check!Options, Check!Paths, Check!Chosen
<1>5. /\ a \in Seq(Check!Paths) /\ Len(a) \in {0, 1}
      /\ Check!Access # Check!Special => Len(a) = 1 /\ a[1] = Check!Access
  BY <1>3, <1>4
<1>6. /\ e \in Seq(Check!Paths) /\ Len(e) \in {0, 1}
      /\ Check!Error # Check!Special => Len(e) = 1 /\ e[1] = Check!Error
  BY <1>3, <1>4
<1>7. Check!Targets = c \o a \o e
  BY DEF Check!Targets
<1> HIDE DEF c, a, e
<1>8. /\ c \o a \in Seq(Check!Paths) /\ Len(c \o a) = Len(c) + Len(a)
      /\ \A i \in 1..Len(c) : (c \o a)[i] = c[i]
      /\ \A i \in 1..Len(a) : (c \o a)[Len(c) + i] = a[i]
  <2>1. c \in Seq(Check!Paths) /\ a \in Seq(Check!Paths)
    BY <1>2, <1>5
  <2>2. QED
    BY <2>1, Joined
<1> DEFINE b == c \o a
<1>9. /\ Check!Targets \in Seq(Check!Paths) /\ Len(Check!Targets) = Len(b) + Len(e)
      /\ DOMAIN Check!Targets = 1..(Len(b) + Len(e))
      /\ \A i \in 1..Len(b) : Check!Targets[i] = b[i]
      /\ \A i \in 1..Len(e) : Check!Targets[Len(b) + i] = e[i]
  <2> HIDE DEF b
  <2>1. b \in Seq(Check!Paths) /\ Check!Targets = b \o e
    BY <1>7, <1>8 DEF b
  <2>2. QED
    BY <1>6, <2>1, Joined
<1>10. Len(b) = 1 + Len(a) /\ b[1] = Check!CapturedLog /\ (Len(a) = 1 => b[2] = a[1])
  BY <1>2, <1>5, <1>8
<1> HIDE DEF b
<1>11. Len(Check!Targets) \in 1..3
  <2>1. \A m, n \in {0, 1} : 1 + m + n \in 1..3
    OBVIOUS
  <2>2. Len(Check!Targets) = 1 + Len(a) + Len(e)
    BY <1>9, <1>10
  <2>3. Len(a) \in {0, 1} /\ Len(e) \in {0, 1}
    BY <1>5, <1>6
  <2>4. QED
    BY <2>1, <2>2, <2>3, Zenon
<1>12. Check!Targets[1] = Check!CapturedLog /\ 1 \in DOMAIN Check!Targets
  BY <1>5, <1>6, <1>9, <1>10
<1>13. ASSUME Check!Access # Check!Special
       PROVE  Check!Targets[2] = Check!Access /\ 2 \in DOMAIN Check!Targets
  BY <1>5, <1>6, <1>9, <1>10, <1>13
<1>14. ASSUME Check!Error # Check!Special
       PROVE  Check!Targets[Len(b) + 1] = Check!Error /\ Len(b) + 1 \in DOMAIN Check!Targets
  BY <1>5, <1>6, <1>9, <1>10, <1>14
<1>15. QED
  BY <1>9, <1>11, <1>12, <1>13, <1>14 DEF Check!LogDirs

\* Neither the settings nor the targets they name change.
LEMMA TargetsStay ==
  ASSUME UNCHANGED <<access, error>>
  PROVE  /\ Check!Targets' = Check!Targets /\ Check!LogDirs' = Check!LogDirs
         /\ Check!CapturedLog' = Check!CapturedLog
         /\ Check!Access' = Check!Access /\ Check!Error' = Check!Error
BY DEF Check!Targets, Check!LogDirs, Check!CapturedLog, Check!Access, Check!Error, Check!Effective,
       Check!Named

\* Where the walk over the targets is, and what it has seen of them.
LEMMA Walked ==
  ASSUME CheckTyped
  PROVE  /\ access \in Check!Options /\ error \in Check!Options
         /\ Len(Check!Targets) \in 1..3 /\ probe \in 1..(Len(Check!Targets) + 1)
         /\ probe <= Len(Check!Targets) => Check!Target \in Check!LogDirs
         /\ Check!Seen \subseteq Check!LogDirs /\ Check!LogDirs \subseteq Check!Paths
         /\ probe = Len(Check!Targets) + 1 => Check!Seen = Check!LogDirs
         /\ probe = 1 => Check!Seen = {}
<1>1. access \in Check!Options /\ error \in Check!Options
  BY DEF CheckTyped, Check!TypeOK
<1>2. /\ Check!Targets \in Seq(Check!Paths) /\ Len(Check!Targets) \in 1..3
      /\ DOMAIN Check!Targets = 1..Len(Check!Targets)
  BY <1>1, TargetsAre
<1>3. probe \in 1..(Len(Check!Targets) + 1)
  BY DEF CheckTyped, Check!TypeOK
<1>4. Check!LogDirs \subseteq Check!Paths
  BY <1>2 DEF Check!LogDirs
<1>5. QED
  BY <1>1, <1>2, <1>3, <1>4 DEF Check!LogDirs, Check!Seen, Check!Target

\* A target more is seen after a probe, none between.
LEMMA SeenGrows ==
  ASSUME CheckTyped, UNCHANGED <<access, error>>
  PROVE  /\ probe' = probe => Check!Seen' = Check!Seen /\ Check!Target' = Check!Target
         /\ probe' = probe + 1 => Check!Seen' = Check!Seen \cup {Check!Target}
<1>1. Check!Targets' = Check!Targets
  BY TargetsStay
<1>2. probe \in Nat /\ probe >= 1
  BY Walked
<1>3. ASSUME probe' = probe + 1 PROVE 1..(probe' - 1) = 1..(probe - 1) \cup {probe}
  BY <1>2, <1>3
<1>4. QED
  BY <1>1, <1>3 DEF Check!Seen, Check!Target

\* Nothing was probed before the preflight.
LEMMA CheckInit == Check!Init => CheckInv
<1> SUFFICES ASSUME Check!Init PROVE CheckInv
  OBVIOUS
<1>1. access \in Check!Options /\ error \in Check!Options
  BY DEF Check!Init
<1>2. Len(Check!Targets) \in 1..3
  BY <1>1, TargetsAre
<1>3. logs \in [Check!Paths -> Check!AllShapes]
  <2>1. PICK shapes \in Worlds : logs \in [Check!Paths -> shapes]
    BY DEF Check!Init
  <2>2. shapes \subseteq Check!AllShapes
    BY <2>1 DEF Check!ConstantsTyped
  <2>3. QED
    BY <2>1, <2>2
<1>4. CheckTyped
  <2>1. /\ checkPc = "dirs" /\ probe = 1 /\ errors = {} /\ existed = FALSE /\ met = FALSE
        /\ before = logs
    BY DEF Check!Init
  <2>2. probe \in 1..(Len(Check!Targets) + 1)
    BY <1>2, <2>1
  <2>3. QED
    BY <1>1, <1>3, <2>1, <2>2 DEF CheckTyped, Check!TypeOK
<1>5. Verified /\ Untraced
  BY <1>4, Walked DEF Check!Init, Verified, Untraced
<1>6. QED
  BY <1>4, <1>5 DEF CheckInv

\* No step of the preflight, nor of another xray, disturbs it.
LEMMA CheckStep == CheckInv /\ [Check!Next]_(Check!vars) => CheckInv'
<1> SUFFICES ASSUME CheckInv, [Check!Next]_(Check!vars) PROVE CheckInv'
  OBVIOUS
<1> USE DEF CheckInv
<1>1. UNCHANGED <<access, error>>
  BY DEF Check!Next, Check!Probe, Check!EnsureDirectories, Check!Skip, Check!Look, Check!OpenFails,
         Check!OpenSucceeds, Check!Unprobe, Check!Conclude, Check!Appear, Check!vars
<1>2. /\ Check!Targets' = Check!Targets /\ Check!LogDirs' = Check!LogDirs
      /\ access' \in Check!Options /\ error' \in Check!Options
  BY <1>1, TargetsStay, Walked
<1>3. /\ Len(Check!Targets) \in 1..3 /\ probe \in 1..(Len(Check!Targets) + 1)
      /\ probe <= Len(Check!Targets) => Check!Target \in Check!LogDirs
      /\ Check!Seen \subseteq Check!LogDirs /\ Check!LogDirs \subseteq Check!Paths
      /\ probe = Len(Check!Targets) + 1 => Check!Seen = Check!LogDirs
      /\ probe = 1 => Check!Seen = {}
  BY Walked
<1>4. /\ probe' = probe => Check!Seen' = Check!Seen /\ Check!Target' = Check!Target
      /\ probe' = probe + 1 => Check!Seen' = Check!Seen \cup {Check!Target}
  BY <1>1, SeenGrows
<1>5. /\ logs \in [Check!Paths -> Check!AllShapes] /\ before \in [Check!Paths -> Check!AllShapes]
      /\ existed \in BOOLEAN /\ met \in BOOLEAN /\ errors \subseteq Check!Paths
  BY DEF CheckTyped, Check!TypeOK
<1>6. CASE Check!EnsureDirectories
  <2>1. /\ logs' \in [Check!Paths -> Check!AllShapes]
        /\ \A p \in Check!LogDirs : logs'[p] # "noParent"
    BY <1>3, <1>5, <1>6 DEF Check!EnsureDirectories, Check!AllShapes
  <2>2. CheckTyped'
    BY <1>2, <1>3, <1>5, <1>6, <2>1 DEF CheckTyped, Check!TypeOK, Check!EnsureDirectories
  <2>3. Check!Seen' = {} /\ errors' = {} /\ checkPc' = "look" /\ before' = logs'
    BY <1>3, <1>4, <1>6 DEF CheckTyped, Check!EnsureDirectories
  <2>4. Verified' /\ Untraced'
    BY <1>2, <2>1, <2>3 DEF Verified, Untraced, Same
  <2>5. QED
    BY <2>2, <2>4
<1>7. CASE Check!Skip
  <2>1. /\ checkPc = "look" /\ checkPc' = "look" /\ Check!Seen' = Check!Seen
        /\ UNCHANGED <<logs, errors, before, met, existed>>
    BY <1>4, <1>7 DEF Check!Skip
  <2>2. CheckTyped'
    BY <1>2, <1>3, <1>5, <1>7 DEF CheckTyped, Check!TypeOK, Check!Skip
  <2>3. Verified' /\ Untraced'
    BY <1>2, <2>1 DEF Verified, Untraced, Same, Check!Opens
  <2>4. QED
    BY <2>2, <2>3
<1>8. CASE Check!Look
  <2>1. /\ checkPc = "look" /\ checkPc' = "open" /\ Check!Seen' = Check!Seen
        /\ Check!Target' = Check!Target /\ Check!Target \notin Check!Seen
        /\ Check!Target \in Check!Paths /\ existed' = (logs[Check!Target] \notin Check!Nothing)
        /\ UNCHANGED <<logs, errors, before, met>>
    BY <1>3, <1>4, <1>8 DEF Check!Look
  <2>2. CheckTyped'
    BY <1>2, <1>3, <1>5, <1>8, <2>1 DEF CheckTyped, Check!TypeOK, Check!Look
  <2>3. Verified' /\ Untraced'
    BY <1>2, <2>1 DEF Verified, Untraced, Same, Check!Opens
  <2>4. QED
    BY <2>2, <2>3
<1>9. CASE Check!OpenFails
  <2>1. /\ checkPc = "open" /\ checkPc' = "look" /\ Check!Seen' = Check!Seen \cup {Check!Target}
        /\ Check!Target \notin Check!Seen /\ Check!Target \in Check!LogDirs
        /\ Check!Target \in Check!Paths /\ errors' = errors \cup {Check!Target}
        /\ ~Check!Opens(Check!Target) /\ UNCHANGED <<logs, existed, before, met>>
    BY <1>3, <1>4, <1>9 DEF Check!OpenFails, CheckTyped
  <2>2. CheckTyped'
    BY <1>2, <1>3, <1>5, <1>9, <2>1 DEF CheckTyped, Check!TypeOK, Check!OpenFails
  <2>3. Verified'
    BY <2>1 DEF Verified, Check!Opens
  <2>4. logs[Check!Target] # "file"
    BY <2>1 DEF Check!Opens, Check!OpensStrictly, Check!OpensLoosely
  <2>5. Untraced'
    BY <1>2, <2>1, <2>4 DEF Untraced, Same
  <2>6. QED
    BY <2>2, <2>3, <2>5
<1>10. CASE Check!OpenSucceeds
  <2>1. /\ checkPc = "open" /\ Check!Target \notin Check!Seen /\ Check!Target \in Check!LogDirs
        /\ Check!Target \in Check!Paths /\ Check!Opens(Check!Target)
        /\ logs' = [logs EXCEPT ![Check!Target] = Check!Opened(@)]
        /\ UNCHANGED <<existed, errors, before, met>>
    BY <1>3, <1>10 DEF Check!OpenSucceeds, CheckTyped
  <2>2. /\ logs' \in [Check!Paths -> Check!AllShapes]
        /\ \A p \in Check!Paths \ {Check!Target} : logs'[p] = logs[p]
        /\ logs'[Check!Target] = Check!Opened(logs[Check!Target])
    BY <1>5, <2>1 DEF Check!Opened, Check!AllShapes
  <2>3. \A p \in {Check!Target} : Check!Opens(p)'
    BY <2>1, <2>2 DEF Check!Opens, Check!OpensStrictly, Check!OpensLoosely, Check!Opened
  <2>4. \A p \in Check!Seen : Check!Opens(p) => Check!Opens(p)'
    BY <1>3, <2>1, <2>2 DEF Check!Opens
  <2>5. \/ logs'[Check!Target] = logs[Check!Target]
        \/ logs[Check!Target] = "absent" /\ logs'[Check!Target] = "file"
        \/ logs[Check!Target] = "dangling" /\ logs'[Check!Target] = "linked"
    BY <2>2 DEF Check!Opened
  <2>6. CASE existed
    <3>1. checkPc' = "look" /\ probe' = probe + 1 /\ Check!Seen' = Check!Seen \cup {Check!Target}
      BY <1>4, <1>10, <2>6 DEF Check!OpenSucceeds
    <3>2. CheckTyped'
      BY <1>2, <1>3, <1>5, <2>1, <2>2, <3>1 DEF CheckTyped, Check!TypeOK
    <3>3. Verified'
      BY <2>1, <2>2, <2>3, <2>4, <3>1 DEF Verified
    <3>4. logs[Check!Target] # "absent"
      BY <2>1, <2>6 DEF Verified, Check!Nothing
    <3>5. Untraced'
      BY <1>2, <2>1, <2>2, <2>5, <3>1, <3>4 DEF Untraced, Same
    <3>6. QED
      BY <3>2, <3>3, <3>5
  <2>7. CASE ~existed
    <3>1. /\ checkPc' = "remove" /\ probe' = probe /\ Check!Seen' = Check!Seen
          /\ Check!Target' = Check!Target
      BY <1>4, <1>10, <2>7 DEF Check!OpenSucceeds
    <3>2. CheckTyped'
      BY <1>2, <1>3, <1>5, <2>1, <2>2, <3>1 DEF CheckTyped, Check!TypeOK
    <3>3. logs[Check!Target] \in {"absent", "file"} /\ logs'[Check!Target] = "file"
      BY <2>1, <2>2, <2>7
         DEF Verified, Check!Nothing, Check!Opens, Check!OpensStrictly, Check!OpensLoosely, Check!Opened
    <3>4. Verified'
      BY <2>1, <2>2, <2>4, <3>1, <3>3 DEF Verified
    <3>5. Untraced'
      BY <1>2, <2>1, <2>2, <2>7, <3>1, <3>3 DEF Untraced, Same, Check!Nothing
    <3>6. QED
      BY <3>2, <3>4, <3>5
  <2>8. QED
    BY <1>5, <2>6, <2>7
<1>11. CASE Check!Unprobe
  <2>1. /\ checkPc = "remove" /\ checkPc' = "look" /\ probe' = probe + 1
        /\ Check!Seen' = Check!Seen \cup {Check!Target} /\ Check!Target \notin Check!Seen
        /\ Check!Target \in Check!LogDirs /\ Check!Target \in Check!Paths
        /\ UNCHANGED <<existed, before, met>> /\ logs[Check!Target] = "file"
    BY <1>3, <1>4, <1>11 DEF Check!Unprobe, CheckTyped, Verified
  <2>2. CASE logs' = [logs EXCEPT ![Check!Target] = "absent"] /\ UNCHANGED errors
    <3>1. /\ logs' \in [Check!Paths -> Check!AllShapes] /\ logs'[Check!Target] = "absent"
          /\ \A p \in Check!Paths \ {Check!Target} : logs'[p] = logs[p]
      BY <1>5, <2>1, <2>2 DEF Check!AllShapes
    <3>2. CheckTyped'
      BY <1>2, <1>3, <1>5, <2>1, <2>2, <3>1 DEF CheckTyped, Check!TypeOK
    <3>3. \A p \in Check!Seen : Check!Opens(p) => Check!Opens(p)'
      BY <1>3, <2>1, <3>1 DEF Check!Opens
    <3>4. \A p \in {Check!Target} : Check!Opens(p)'
      BY <2>1, <3>1 DEF Check!Opens, Check!OpensStrictly, Check!OpensLoosely
    <3>5. Verified'
      BY <2>1, <2>2, <3>3, <3>4 DEF Verified
    <3>6. Untraced'
      BY <1>2, <2>1, <2>2, <3>1 DEF Untraced, Same
    <3>7. QED
      BY <3>2, <3>5, <3>6
  <2>3. CASE errors' = errors \cup {Check!Target} /\ UNCHANGED logs
    <3>1. CheckTyped'
      BY <1>2, <1>3, <1>5, <2>1, <2>3 DEF CheckTyped, Check!TypeOK
    <3>2. Verified'
      BY <2>1, <2>3 DEF Verified, Check!Opens
    <3>3. Untraced'
      BY <1>2, <2>1, <2>3 DEF Untraced, Same
    <3>4. QED
      BY <3>1, <3>2, <3>3
  <2>4. QED
    BY <1>11, <2>2, <2>3 DEF Check!Unprobe
<1>12. CASE Check!Conclude
  <2>1. /\ checkPc = "look" /\ checkPc' = (IF errors = {} THEN "passed" ELSE "refused")
        /\ probe = Len(Check!Targets) + 1 /\ Check!Seen' = Check!Seen
        /\ UNCHANGED <<logs, probe, existed, errors, before, met>>
    BY <1>3, <1>4, <1>12 DEF Check!Conclude
  <2>2. CheckTyped'
    BY <1>2, <1>3, <1>5, <2>1 DEF CheckTyped, Check!TypeOK
  <2>3. Verified' /\ Untraced'
    BY <1>2, <2>1 DEF Verified, Untraced, Same, Check!Opens
  <2>4. QED
    BY <2>2, <2>3
<1>13. CASE Check!Appear
  <2>1. PICK q \in Check!Paths : logs[q] = "absent" /\ logs' = [logs EXCEPT ![q] = "file"]
    BY <1>13 DEF Check!Appear
  <2>2. /\ checkPc \in {"look", "open"} /\ Check!Seen' = Check!Seen /\ Check!Target' = Check!Target
        /\ met' = TRUE /\ UNCHANGED <<checkPc, probe, existed, errors, before>>
    BY <1>4, <1>13 DEF Check!Appear
  <2>3. /\ logs' \in [Check!Paths -> Check!AllShapes]
        /\ \A p \in Check!Paths : logs'[p] = logs[p] \/ (logs[p] = "absent" /\ logs'[p] = "file")
    BY <1>5, <2>1 DEF Check!AllShapes
  <2>4. CheckTyped'
    BY <1>2, <1>3, <1>5, <2>2, <2>3 DEF CheckTyped, Check!TypeOK
  <2>5. \A p \in Check!Seen : Check!Opens(p) => Check!Opens(p)'
    BY <1>3, <2>3 DEF Check!Opens, Check!OpensStrictly, Check!OpensLoosely
  <2>6. Verified'
    <3>1. checkPc = "open" => Check!Target \in Check!Paths
      BY <1>3 DEF CheckTyped
    <3>2. QED
      BY <2>2, <2>3, <2>5, <3>1 DEF Verified, Check!Nothing
  <2>7. Untraced'
    BY <1>2, <2>2 DEF Untraced
  <2>8. QED
    BY <2>4, <2>6, <2>7
<1>14. CASE UNCHANGED Check!vars
  <2>1. UNCHANGED <<logs, access, error, checkPc, probe, existed, errors, before, met>>
    BY <1>14 DEF Check!vars
  <2>2. CheckTyped'
    BY <1>2, <1>4, <2>1 DEF CheckTyped, Check!TypeOK
  <2>3. Verified' /\ Untraced'
    BY <1>2, <1>4, <2>1 DEF Verified, Untraced, Same, Check!Opens
  <2>4. QED
    BY <2>2, <2>3
<1>15. QED
  BY <1>6, <1>7, <1>8, <1>9, <1>10, <1>11, <1>12, <1>13, <1>14 DEF Check!Next, Check!Probe

\* What the preflight promises follows.
LEMMA CheckHeld == CheckInv => PreflightHolds
<1> SUFFICES ASSUME CheckInv PROVE PreflightHolds
  OBVIOUS
<1> USE DEF CheckInv
<1>1. Check!TypeOK
  BY DEF CheckTyped
<1>2. /\ checkPc \in {"passed", "refused"} => Check!Seen = Check!LogDirs
      /\ Check!LogDirs \subseteq Check!Paths /\ Check!Seen \subseteq Check!LogDirs
      /\ Check!CapturedLog \in Check!LogDirs
      /\ \A v \in {Check!Access, Check!Error} \ {Check!Special} : v \in Check!LogDirs
  BY Walked, TargetsAre DEF CheckTyped
<1>3. checkPc = "passed" => \A p \in Check!LogDirs : Check!Opens(p)
  BY <1>2 DEF CheckTyped, Verified
<1>4. Check!PassMeansOpens
  BY <1>2, <1>3 DEF Check!PassMeansOpens, Check!XrayOpens, Check!Opens, Check!OpensStrictly,
                    Check!OpensLoosely
<1>5. Check!ChosenAreSafe
  BY <1>3 DEF Check!ChosenAreSafe, Check!Opens, Check!OpensStrictly
<1>6. Check!AllNamed
  BY <1>2 DEF Check!AllNamed, Verified
<1>7. Check!NoFalseAlarm
  BY DEF Check!NoFalseAlarm, Untraced
<1>8. Check!NoTrace
  BY DEF Check!NoTrace, Untraced, Same
<1>9. QED
  BY <1>1, <1>4, <1>5, <1>6, <1>7, <1>8 DEF PreflightHolds

checkAll == <<part, vars, checkVars>>

\* In the composition each of the two is what it is alone.
LEMMA PartsRun == LogsSpec => Spec /\ Check!Spec
<1>1. LogsInit => Init /\ Check!Init
  BY DEF LogsInit, LogRests, CheckRests
<1>2. [LogsNext]_checkAll => [Next]_vars
  BY DEF LogsNext, checkAll
<1>3. [LogsNext]_checkAll => [Check!Next]_(Check!vars)
  BY DEF LogsNext, checkAll, checkVars, Check!vars
<1>4. QED
  BY <1>1, <1>2, <1>3, PTL DEF LogsSpec, checkAll, Spec, Check!Spec

\* Whatever is at the paths, whatever the two settings, and whatever another
\* xray creates meanwhile (main.rs:971, config.rs:1733): a start that passes has
\* its logs, at safe places if they are corvex's choice, a refusal names all that
\* cannot be opened and nothing that is fine, and the probe leaves no trace.
THEOREM PreflightIsRight == LogsSpec => []PreflightHolds
<1>1. Check!Spec => []CheckInv
  BY CheckInit, CheckStep, PTL DEF Check!Spec
<1>2. QED
  BY <1>1, PartsRun, CheckHeld, PTL

\* Both at once, in the specification that the run checks (main.rs, TeeWriter.write;
\* config.rs, rotate_if_oversized; main.rs:971).
THEOREM LogsAreRight == LogsSpec => [](LogHolds /\ PreflightHolds) /\ OnePastGenerationKeptAlone
BY PartsRun, LogCorrect, PreflightIsRight, PastKept, PTL
=============================================================================
