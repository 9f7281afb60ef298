-------------------------- MODULE RestrictedFileProofs --------------------------
(***************************************************************************)
(* What holds of RestrictedFile for every set of processes and inodes, and *)
(* for files and contents of every length.                                 *)
(***************************************************************************)
EXTENDS RestrictedFile, TLAPS

USE NilIsNone, AttemptsIsNat, ChunksAreNats

-----------------------------------------------------------------------------
(* Contents *)

\* An empty file.
LEMMA EmptyTyped == ASSUME NEW S PROVE <<>> \in Seq(S)
OBVIOUS

\* A file with one chunk more.
LEMMA AppendTyped ==
  ASSUME NEW S, NEW s \in Seq(S), NEW x \in S
  PROVE  /\ Append(s, x) \in Seq(S)
         /\ \A k \in 1 .. Len(Append(s, x)) :
              Append(s, x)[k] = IF k <= Len(s) THEN s[k] ELSE x
OBVIOUS

\* What Put makes is a file, and holds no chunk but the new one, those of
\* before and holes.
LEMMA PutTyped ==
  ASSUME NEW s \in Seq(Chunks), NEW at \in Nat, NEW x \in Chunks
  PROVE  /\ Put(s, at, x) \in Seq(Chunks)
         /\ \A k \in 1 .. Len(Put(s, at, x)) :
              \/ Put(s, at, x)[k] = x \/ Put(s, at, x)[k] = <<Nil, 0>>
              \/ k \in 1 .. Len(s) /\ Put(s, at, x)[k] = s[k]
<1> DEFINE n == IF Len(s) > at THEN Len(s) ELSE at + 1
           f == [k \in 1 .. n |->
                   IF k = at + 1 THEN x ELSE IF k <= Len(s) THEN s[k] ELSE <<Nil, 0>>]
<1>1. n \in Nat /\ <<Nil, 0>> \in Chunks
  BY DEF Chunks
<1>2. \A k \in 1 .. n : f[k] \in Chunks
  BY <1>1
<1>3. f \in Seq(Chunks) /\ Len(f) = n
  BY <1>1, <1>2
<1>4. QED
  BY <1>3 DEF Put

-----------------------------------------------------------------------------
(* Types *)

\* Free, new and foreign inodes are inodes.
LEMMA RecordsTyped ==
  /\ Free \in InodeRecord
  /\ \A a \in BOOLEAN : Created(a) \in InodeRecord
  /\ \A t \in {"regular", "fifo", "link"} : Planted(t) \in InodeRecord
<1>1. Free \in InodeRecord
  BY EmptyTyped DEF Free, InodeRecord
<1>2. QED
  BY <1>1 DEF Free, Created, Planted, InodeRecord

\* A record stays one when one of its fields is set.
LEMMA FieldsTyped ==
  ASSUME NEW r \in InodeRecord
  PROVE  /\ [r EXCEPT !.tight = TRUE] \in InodeRecord
         /\ [r EXCEPT !.acl = FALSE] \in InodeRecord
         /\ [r EXCEPT !.reader = TRUE] \in InodeRecord
         /\ \A d \in Seq(Chunks) : [r EXCEPT !.data = d] \in InodeRecord
BY DEF InodeRecord

\* The three kinds of what is there before.
LEMMA ExistingCases ==
  ASSUME NEW r \in Existing
  PROVE  \/ \E s, t, a \in BOOLEAN : r = OldOwn(s, t, a)
         \/ \E type \in {"regular", "fifo", "link"} : r = OldOthers(type)
         \/ r = OldFifo
BY DEF Existing

\* What is there before has its type.
LEMMA ExistingTyped == Existing \subseteq InodeRecord
<1>1. \A k \in 1 .. OldChunks : <<Nil, k>> \in Chunks
  BY DEF Chunks
<1>2. [k \in 1 .. OldChunks |-> <<Nil, k>>] \in Seq(Chunks)
  BY <1>1
<1>3. Old \in InodeRecord
  BY <1>2 DEF InodeRecord, Free, Old
<1>4. ASSUME NEW r \in Existing PROVE r \in InodeRecord
  <2>1. CASE \E s, t, a \in BOOLEAN : r = OldOwn(s, t, a)
    BY <1>3, <2>1 DEF InodeRecord, OldOwn
  <2>2. CASE \E type \in {"regular", "fifo", "link"} : r = OldOthers(type)
    BY <1>3, <2>2 DEF InodeRecord, OldOthers
  <2>3. CASE r = OldFifo
    BY <1>3, <2>3 DEF InodeRecord, OldFifo
  <2>4. QED
    BY <2>1, <2>2, <2>3, ExistingCases
<1>5. QED
  BY <1>4

\* The first states are typed.
LEMMA InitTyped == Init => TypeOK
<1> SUFFICES ASSUME Init PROVE TypeOK
  OBVIOUS
<1>1. inode \in [Inodes -> InodeRecord] /\ target \in Inodes \cup {Nil}
  BY RecordsTyped, ExistingTyped DEF Init
<1>2. /\ raced \in [Procs -> BOOLEAN]
  BY Zenon DEF Init
<1>3. /\ stage \in [Procs -> StageRecord] /\ strippers \in [Inodes -> SUBSET Procs]
      /\ fd \in [Procs -> Inodes \cup {Nil}]
  BY DEF Init, StageRecord, NoStage
<1>4. QED
  BY <1>1, <1>2, <1>3 DEF Init, TypeOK, Pcs

\* The open keeps the types.
LEMMA OpenTyped == ASSUME TypeOK, NEW p \in Procs, Open(p) PROVE TypeOK'
<1> USE DEF TypeOK, Goto, Return, fs, dir, Pcs, Busy
<1>1. CASE Begin(p)
  <2>1. raced' \in [Procs -> BOOLEAN]
    BY <1>1, Zenon DEF Begin
  <2>2. QED
    BY <1>1, <2>1 DEF Begin
<1>2. CASE OpenExisting(p)
  BY <1>2 DEF OpenExisting
<1>3. CASE OpenCreate(p)
  BY <1>3, RecordsTyped DEF OpenCreate
<1>4. CASE Vet(p)
  BY <1>4 DEF Vet
<1>5. CASE Tighten(p)
  BY <1>5, FieldsTyped DEF Tighten
<1>6. CASE Strip(p)
  <2>1. pc' \in [Procs -> Pcs]
    BY <1>6 DEF Strip, AfterStrip, Ops
  <2>2. inode' \in [Inodes -> InodeRecord]
    BY <1>6, FieldsTyped DEF Strip
  <2>3. strippers' \in [Inodes -> SUBSET Procs]
    BY <1>6 DEF Strip
  <2>4. QED
    BY <1>6, <2>1, <2>2, <2>3 DEF Strip
<1>7. QED
  BY <1>1, <1>2, <1>3, <1>4, <1>5, <1>6 DEF Open

\* Writing in place keeps the types.
LEMMA InPlaceTyped == ASSUME TypeOK, NEW p \in Procs, InPlace(p) PROVE TypeOK'
<1> USE DEF TypeOK, Goto, Return, fs, dir, Pcs, Busy
<1>1. CASE Truncate(p)
  BY <1>1, EmptyTyped, FieldsTyped DEF Truncate
<1>2. CASE Write(p)
  <2>1. <<p, pos[p] + 1>> \in Chunks
    BY DEF Chunks
  <2>2. \A i \in Inodes : Put(inode[i].data, pos[p], <<p, pos[p] + 1>>) \in Seq(Chunks)
    BY <2>1, PutTyped DEF InodeRecord
  <2>3. inode' \in [Inodes -> InodeRecord]
    BY <1>2, <2>2, FieldsTyped DEF Write
  <2>4. QED
    BY <1>2, <2>3 DEF Write
<1>3. CASE AppendLine(p)
  <2>1. <<p, pos[p] + 1>> \in Chunks
    BY DEF Chunks
  <2>2. \A i \in Inodes : Append(inode[i].data, <<p, pos[p] + 1>>) \in Seq(Chunks)
    BY <2>1, AppendTyped DEF InodeRecord
  <2>3. inode' \in [Inodes -> InodeRecord]
    BY <1>3, <2>2, FieldsTyped DEF AppendLine
  <2>4. QED
    BY <1>3, <2>3 DEF AppendLine
<1>4. CASE Finish(p)
  BY <1>4 DEF Finish
<1>5. QED
  BY <1>1, <1>2, <1>3, <1>4 DEF InPlace

\* So does a staging directory.
LEMMA StagesTyped ==
  /\ NoStage \in StageRecord
  /\ \A a \in BOOLEAN : [made |-> TRUE, acl |-> a, file |-> Nil] \in StageRecord
  /\ \A r \in StageRecord :
       /\ [r EXCEPT !.acl = FALSE] \in StageRecord
       /\ \A i \in Inodes \cup {Nil} : [r EXCEPT !.file = i] \in StageRecord
BY DEF NoStage, StageRecord

\* The content a process writes.
LEMMA ContentTyped ==
  ASSUME NEW p \in Procs
  PROVE  /\ [k \in 1 .. NewChunks |-> <<p, k>>] \in Seq(Chunks)
         /\ Len([k \in 1 .. NewChunks |-> <<p, k>>]) = NewChunks
<1>1. \A k \in 1 .. NewChunks : <<p, k>> \in Chunks
  BY DEF Chunks
<1>2. QED
  BY <1>1

\* Staging keeps the types, if there is a descriptor to copy from.
LEMMA StagedTyped ==
  ASSUME TypeOK, NEW p \in Procs, Staged(p), pc[p] = "fill" => fd[p] \in Inodes,
         pc[p] = "rename" => stage[p].file \in Inodes
  PROVE  TypeOK'
<1> USE StagesTyped DEF TypeOK, Goto, Return, fs, dir, Pcs, Busy
<1>1. CASE Mkdir(p)
  BY <1>1 DEF Mkdir
<1>2. CASE MkdirGivesUp(p)
  BY <1>2 DEF MkdirGivesUp
<1>3. CASE OpenDir(p)
  BY <1>3 DEF OpenDir
<1>4. CASE CreateStaged(p)
  <2>1. PICK i \in Inodes :
          /\ inode' = [inode EXCEPT ![i] = Created(FALSE)]
          /\ stage' = [stage EXCEPT ![p].file = i]
          /\ strippers' = [strippers EXCEPT ![i] = IF stage[p].acl THEN @ \cup {p} ELSE @]
    BY <1>4 DEF CreateStaged
  <2>2. inode' \in [Inodes -> InodeRecord] /\ stage' \in [Procs -> StageRecord]
    BY <2>1, RecordsTyped
  <2>3. strippers' \in [Inodes -> SUBSET Procs]
    BY <2>1
  <2>4. pc' \in [Procs -> Pcs] /\ res' \in [Procs -> {"none", "ok", "err"}]
    BY <1>4 DEF CreateStaged
  <2>5. QED
    BY <1>4, <2>2, <2>3, <2>4 DEF CreateStaged
<1>5. CASE Fill(p)
  <2>1. Source(p) \in Seq(Chunks)
    <3>1. inode[fd[p]].data \in Seq(Chunks)
      BY <1>5 DEF Fill, InodeRecord
    <3>2. QED
      BY <3>1, ContentTyped DEF Source
  <2>2. Source(p)[pos[p] + 1] \in Chunks
    BY <1>5, <2>1 DEF Fill
  <2>3. \A i \in Inodes : Append(inode[i].data, Source(p)[pos[p] + 1]) \in Seq(Chunks)
    BY <2>2, AppendTyped DEF InodeRecord
  <2>4. inode' \in [Inodes -> InodeRecord]
    BY <1>5, <2>3, FieldsTyped DEF Fill
  <2>5. QED
    BY <1>5, <2>4 DEF Fill
<1>6. CASE Filled(p)
  BY <1>6 DEF Filled
<1>7. CASE Rename(p)
  BY <1>7 DEF Rename
<1>8. CASE SweepFile(p)
  <2>1. [stage[p] EXCEPT !.file = Nil] \in StageRecord
    BY StagesTyped
  <2>2. stage' \in [Procs -> StageRecord]
    BY <1>8, <2>1 DEF SweepFile
  <2>3. QED
    BY <1>8, <2>2 DEF SweepFile
<1>9. CASE SweepDir(p)
  BY <1>9 DEF SweepDir
<1>10. QED
  BY <1>1, <1>2, <1>3, <1>4, <1>5, <1>6, <1>7, <1>8, <1>9 DEF Staged

-----------------------------------------------------------------------------
(***************************************************************************)
(* What a call knows of its descriptor and of the file it stages: they are *)
(* what Vet accepts, and stay it whatever becomes of the path, for nothing *)
(* changes the kind of an inode that is not free.                          *)
(***************************************************************************)
Early == {"idle", "open", "vet"}
Ended == {"done", "dead"}

Sound(i) == inode[i].type = "regular" /\ inode[i].mine /\ inode[i].single

VettedAt(p) ==
  /\ pc[p] \notin Early \cup Ended => fd[p] \in Inodes /\ Sound(fd[p])
  /\ pc[p] = "vet" => fd[p] \in Inodes
  /\ pc[p] \in Early => stage[p] = NoStage
  /\ pc[p] \in {"fill", "rename"} => stage[p].file \in Inodes
  /\ stage[p].file # Nil => stage[p].file \in Inodes /\ Sound(stage[p].file)

Vetted == TypeOK /\ \A p \in Procs : VettedAt(p)

\* How an inode may change: one that exists keeps its kind, and its mode and
\* ACL only ever get tighter.
Keeps(i) ==
  inode[i].type # "none" =>
    /\ inode'[i].type = inode[i].type /\ inode'[i].mine = inode[i].mine
    /\ inode'[i].single = inode[i].single /\ inode'[i].loose = inode[i].loose
    /\ inode[i].tight => inode'[i].tight
    /\ inode'[i].acl => inode[i].acl

\* The steps that leave the inodes alone.
Apart(p) == Begin(p) \/ OpenExisting(p) \/ Vet(p) \/ Finish(p) \/ Mkdir(p) \/ MkdirGivesUp(p)
            \/ OpenDir(p) \/ Filled(p) \/ Rename(p) \/ SweepFile(p) \/ SweepDir(p) \/ Fail(p) \/ Kill(p)

\* Those steps do leave the inodes alone.
LEMMA ApartKeeps == ASSUME NEW p \in Procs, Apart(p) PROVE UNCHANGED inode
BY DEF Apart, fs, Begin, OpenExisting, Vet, Finish, Mkdir, MkdirGivesUp, OpenDir, Filled, Rename,
       SweepFile, SweepDir, Fail, Kill

\* No process changes the kind of an inode that exists, or loosens it.
LEMMA StepKeeps ==
  ASSUME TypeOK, NEW p \in Procs, Step(p) \/ Kill(p), NEW i \in Inodes
  PROVE  Keeps(i)
<1> USE DEF TypeOK, Keeps
<1>1. CASE Apart(p)
  BY <1>1, ApartKeeps
<1>2. CASE OpenCreate(p)
  BY <1>2 DEF OpenCreate, Free
<1>3. CASE Tighten(p)
  BY <1>3 DEF Tighten, InodeRecord
<1>4. CASE Strip(p)
  BY <1>4 DEF Strip, InodeRecord
<1>5. CASE Truncate(p)
  BY <1>5 DEF Truncate, InodeRecord
<1>6. CASE Write(p)
  BY <1>6 DEF Write, InodeRecord
<1>7. CASE AppendLine(p)
  BY <1>7 DEF AppendLine, InodeRecord
<1>8. CASE CreateStaged(p)
  <2>1. PICK j \in Inodes : inode[j] = Free /\ inode' = [inode EXCEPT ![j] = Created(FALSE)]
    BY <1>8 DEF CreateStaged
  <2>2. inode[j].type = "none" /\ \A k \in Inodes : k # j => inode'[k] = inode[k]
    BY <2>1 DEF Free
  <2>3. QED
    BY <2>2
<1>9. CASE Fill(p)
  BY <1>9 DEF Fill, InodeRecord
<1>10. QED
  BY <1>1, <1>2, <1>3, <1>4, <1>5, <1>6, <1>7, <1>8, <1>9
     DEF Apart, Step, Open, InPlace, Staged

\* Nor does another account.
LEMMA OthersKeep ==
  ASSUME TypeOK, Read \/ Plant, NEW i \in Inodes
  PROVE  Keeps(i)
<1>1. CASE Read
  <2>1. inode' = [inode EXCEPT ![target] = [@ EXCEPT !.reader = TRUE]] /\ target \in Inodes
    BY <1>1 DEF Read, TypeOK
  <2>2. QED
    BY <2>1 DEF TypeOK, Keeps, InodeRecord
<1>2. CASE Plant /\ target = Nil
  <2>1. PICK j \in Inodes, type \in {"regular", "fifo", "link"} :
          inode[j] = Free /\ inode' = [inode EXCEPT ![j] = Planted(type)]
    BY <1>2 DEF Plant
  <2>2. QED
    BY <2>1 DEF TypeOK, Keeps, Free
<1>3. CASE Plant /\ target # Nil
  BY <1>3 DEF Plant, Keeps
<1>4. QED
  BY <1>1, <1>2, <1>3

\* What a step of p leaves alone of another process.
LEMMA StepLocal ==
  ASSUME TypeOK, NEW p \in Procs, Step(p) \/ Kill(p), NEW q \in Procs, q # p
  PROVE  /\ pc'[q] = pc[q] /\ fd'[q] = fd[q] /\ stage'[q] = stage[q]
         /\ res'[q] = res[q] /\ op'[q] = op[q] /\ pos'[q] = pos[q]
<1> USE DEF TypeOK, Goto, Return, fs
<1>1. CASE Open(p)
  BY <1>1 DEF Open, Begin, OpenExisting, OpenCreate, Vet, Tighten, Strip
<1>2. CASE InPlace(p)
  BY <1>2 DEF InPlace, Truncate, Write, AppendLine, Finish
<1>3. CASE Mkdir(p) \/ MkdirGivesUp(p) \/ OpenDir(p) \/ CreateStaged(p)
  BY <1>3 DEF Mkdir, MkdirGivesUp, OpenDir, CreateStaged
<1>4. CASE Fill(p) \/ Filled(p) \/ Rename(p) \/ SweepFile(p) \/ SweepDir(p)
  BY <1>4 DEF Fill, Filled, Rename, SweepFile, SweepDir
<1>5. CASE Fail(p) \/ Kill(p)
  BY <1>5 DEF Fail, Kill
<1>6. QED
  BY <1>1, <1>2, <1>3, <1>4, <1>5 DEF Step, Staged

\* The process that steps knows the same of its new descriptor and file.
LEMMA StepVetted ==
  ASSUME Vetted, NEW p \in Procs, Step(p)
  PROVE  VettedAt(p)'
<1> USE DEF Vetted, TypeOK, Early, Ended, Goto, Return, fs, Pcs, Busy
<1>0. \A i \in Inodes : Sound(i) => Sound(i)'
  BY StepKeeps DEF Keeps, Sound
<1> USE DEF VettedAt
<1> HIDE DEF Sound
<1>1. CASE Begin(p) \/ OpenExisting(p)
  BY <1>0, <1>1 DEF Begin, OpenExisting, NoStage
<1>18. CASE OpenCreate(p)
  <2>1. fd'[p] \in Inodes /\ pc'[p] = "vet" /\ stage'[p] = NoStage
    BY <1>18 DEF OpenCreate
  <2>2. QED
    BY <2>1 DEF NoStage
<1>2. CASE Vet(p)
  BY <1>2 DEF Vet, Acceptable, Sound, NoStage
<1>3. CASE Tighten(p)
  BY <1>0, <1>3 DEF Tighten
<1>4. CASE Strip(p)
  <2>1. pc'[p] \in {"done", "mkdir", "truncate", "append"}
    BY <1>4 DEF Strip, AfterStrip, Ops
  <2>2. fd'[p] = fd[p] /\ stage'[p] = stage[p]
    BY <1>4 DEF Strip
  <2>3. QED
    BY <1>0, <1>4, <2>1, <2>2 DEF Strip
<1>5. CASE Truncate(p)
  BY <1>0, <1>5 DEF Truncate
<1>6. CASE Write(p) \/ AppendLine(p)
  BY <1>0, <1>6 DEF Write, AppendLine
<1>7. CASE Finish(p)
  BY <1>0, <1>7 DEF Finish
<1>8. CASE Mkdir(p)
  BY <1>0, <1>8 DEF Mkdir
<1>9. CASE MkdirGivesUp(p) \/ OpenDir(p)
  BY <1>0, <1>9 DEF MkdirGivesUp, OpenDir, StageRecord
<1>10. CASE CreateStaged(p)
  <2>1. PICK i \in Inodes :
          /\ inode[i] = Free
          /\ inode' = [inode EXCEPT ![i] = Created(FALSE)]
          /\ stage' = [stage EXCEPT ![p].file = i]
    BY <1>10 DEF CreateStaged
  <2>2. stage'[p].file = i /\ inode'[i] = Created(FALSE)
    BY <2>1 DEF StageRecord
  <2>3. Sound(i)'
    BY <2>2 DEF Created, Free, Sound
  <2>4. fd'[p] = fd[p] /\ pc'[p] \in {"sweepFile", "fill"}
    BY <1>10 DEF CreateStaged
  <2>5. fd[p] \in Inodes /\ Sound(fd[p])'
    BY <1>0, <1>10 DEF CreateStaged
  <2>6. QED
    BY <2>2, <2>3, <2>4, <2>5
<1>11. CASE Fill(p)
  BY <1>0, <1>11 DEF Fill
<1>12. CASE Filled(p)
  BY <1>0, <1>12 DEF Filled
<1>13. CASE Rename(p)
  BY <1>0, <1>13 DEF Rename, StageRecord
<1>14. CASE SweepFile(p)
  BY <1>0, <1>14 DEF SweepFile, StageRecord
<1>15. CASE SweepDir(p)
  BY <1>0, <1>15 DEF SweepDir, NoStage
<1>16. CASE Fail(p)
  BY <1>0, <1>16 DEF Fail, Active, NoStage
<1>17. QED
  BY <1>1, <1>2, <1>3, <1>4, <1>5, <1>6, <1>7, <1>8, <1>9, <1>10, <1>11, <1>12, <1>13, <1>14,
     <1>15, <1>16, <1>18 DEF Step, Open, InPlace, Staged

\* Every step keeps the types.
LEMMA NextTyped == ASSUME Vetted, [Next]_vars PROVE TypeOK'
<1> USE DEF Vetted
<1>1. ASSUME NEW p \in Procs, Step(p) PROVE TypeOK'
  <2>1. CASE Fail(p)
    BY <2>1 DEF Fail, TypeOK, Goto, Return, fs, dir, Pcs, Busy
  <2>2. pc[p] \in {"fill", "rename"} => fd[p] \in Inodes /\ stage[p].file \in Inodes
    BY DEF VettedAt, Early, Ended
  <2>3. QED
    BY <1>1, <2>1, <2>2, OpenTyped, InPlaceTyped, StagedTyped DEF Step
<1>2. ASSUME NEW p \in Procs, Kill(p) PROVE TypeOK'
  BY <1>2 DEF Kill, TypeOK, Goto, fs, dir, Pcs, Busy
<1>3. CASE Read
  <2>1. inode' = [inode EXCEPT ![target] = [@ EXCEPT !.reader = TRUE]] /\ target \in Inodes
    BY <1>3 DEF Read, TypeOK
  <2>2. inode' \in [Inodes -> InodeRecord]
    BY <2>1, FieldsTyped DEF TypeOK
  <2>3. QED
    BY <1>3, <2>2 DEF Read, TypeOK, dir
<1>4. CASE Plant
  BY <1>4, RecordsTyped DEF Plant, TypeOK, dir
<1>5. CASE UNCHANGED vars
  BY <1>5 DEF vars, fs, dir, TypeOK
<1>6. QED
  BY <1>1, <1>2, <1>3, <1>4, <1>5 DEF Next

\* At first nothing is open and nothing staged.
LEMMA InitVetted == Init => Vetted
BY InitTyped DEF Init, Vetted, VettedAt, Early, Ended, NoStage

\* No step takes from a call what it knows.
LEMMA NextVetted == ASSUME Vetted, [Next]_vars PROVE Vetted'
<1>1. ASSUME NEW p \in Procs, NEW q \in Procs, Step(p) \/ Kill(p), q # p PROVE VettedAt(q)'
  <2>1. \A i \in Inodes : Sound(i) => Sound(i)'
    BY <1>1, StepKeeps DEF Keeps, Sound, Vetted
  <2>2. /\ pc'[q] = pc[q] /\ fd'[q] = fd[q] /\ stage'[q] = stage[q]
    BY <1>1, StepLocal DEF Vetted
  <2>3. QED
    BY <2>1, <2>2 DEF Vetted, VettedAt
<1>2. ASSUME NEW p \in Procs, Kill(p) PROVE VettedAt(p)'
  BY <1>2 DEF Kill, Goto, fs, Vetted, TypeOK, VettedAt, Sound, Early, Ended
<1>3. ASSUME Read \/ Plant, NEW q \in Procs PROVE VettedAt(q)'
  <2>1. \A i \in Inodes : Sound(i) => Sound(i)'
    BY <1>3, OthersKeep DEF Keeps, Sound, Vetted
  <2>2. UNCHANGED <<pc, fd, stage>>
    BY <1>3 DEF Read, Plant
  <2>3. QED
    BY <2>1, <2>2 DEF Vetted, VettedAt
<1>4. CASE UNCHANGED vars
  BY <1>4, NextTyped DEF vars, fs, dir, Vetted, VettedAt, Sound
<1>5. ASSUME Next, NEW q \in Procs PROVE VettedAt(q)'
  BY <1>1, <1>2, <1>3, <1>5, StepVetted DEF Next
<1>6. QED
  BY <1>4, <1>5, NextTyped DEF Vetted

\* Every record has its type (RestrictedFile).
THEOREM TypeCorrect == Spec => []TypeOK
<1>1. Spec => []Vetted
  BY InitVetted, NextVetted, PTL DEF Spec
<1>2. Vetted => TypeOK
  BY DEF Vetted
<1>3. QED
  BY <1>1, <1>2, PTL

-----------------------------------------------------------------------------
(* Nothing is done to a file that is refused. *)

\* A record whose reader is set to what it is.
LEMMA ReaderOnly ==
  ASSUME NEW r \in InodeRecord
  PROVE  r = [r EXCEPT !.reader = r.reader]
BY DEF InodeRecord

\* One step leaves a refused inode alone, but for its reader.
LEMMA RefusedStep ==
  ASSUME Vetted, [Next]_vars, NEW i \in Inodes, Refused(inode[i])
  PROVE  inode'[i] = [inode[i] EXCEPT !.reader = inode'[i].reader]
<1> USE DEF Vetted
<1>0. ~Sound(i) /\ inode[i] # Free /\ inode[i] \in InodeRecord
  BY DEF Refused, Sound, Free, TypeOK
<1>1. ASSUME NEW p \in Procs, Step(p) \/ Kill(p) PROVE inode'[i] = inode[i]
  <2>1. CASE Apart(p)
    BY <2>1, ApartKeeps
  <2>2. CASE OpenCreate(p) \/ CreateStaged(p)
    BY <1>0, <2>2 DEF OpenCreate, CreateStaged, TypeOK
  <2>3. pc[p] \notin Early \cup Ended => fd[p] # i
    BY <1>0 DEF VettedAt
  <2>4. CASE Tighten(p) \/ Strip(p)
    BY <2>3, <2>4 DEF Tighten, Strip, Early, Ended, TypeOK
  <2>5. CASE Truncate(p) \/ Write(p) \/ AppendLine(p)
    BY <2>3, <2>5 DEF Truncate, Write, AppendLine, Early, Ended, TypeOK
  <2>6. CASE Fill(p)
    <3>1. stage[p].file # i
      BY <1>0, <2>6 DEF VettedAt, Fill
    <3>2. QED
      BY <2>6, <3>1 DEF Fill, TypeOK
  <2>7. QED
    BY <1>1, <2>1, <2>2, <2>4, <2>5, <2>6 DEF Apart, Step, Open, InPlace, Staged
<1>2. CASE Read
  <2>1. inode'[i] = inode[i] \/ inode'[i] = [inode[i] EXCEPT !.reader = TRUE]
    BY <1>2 DEF Read, TypeOK
  <2>2. QED
    BY <1>0, <2>1, ReaderOnly DEF InodeRecord
<1>3. CASE Plant
  BY <1>0, <1>3, ReaderOnly DEF Plant, TypeOK
<1>4. CASE UNCHANGED vars
  BY <1>0, <1>4, ReaderOnly DEF vars, fs
<1>5. QED
  BY <1>0, <1>1, <1>2, <1>3, <1>4, ReaderOnly DEF Next

\* A file that is not a regular, singly linked one of this account's is as it
\* was, but for its reader, whatever the calls on it do and meet
\* (config.rs:83, restricted_file_rejection).
THEOREM Untouched == Spec => RefusedUntouched
<1>1. Vetted /\ [Next]_vars =>
        [\A i \in Inodes : Refused(inode[i]) =>
           inode'[i] = [inode[i] EXCEPT !.reader = inode'[i].reader]]_vars
  BY RefusedStep
<1>2. QED
  BY <1>1, InitVetted, NextVetted, PTL DEF Spec, RefusedUntouched

-----------------------------------------------------------------------------
(***************************************************************************)
(* Who may have a file open: a reader got in by a loose mode or by an ACL, *)
(* and an ACL that is gone has left its stripper.  Whatever a process has  *)
(* written is in a file of its own that is closed and that it has not      *)
(* stripped itself.                                                        *)
(***************************************************************************)
Closed(i) == inode[i].mine /\ inode[i].tight /\ ~inode[i].acl
Own(p, i) == Closed(i) /\ p \notin strippers[i]
Holds(i, p) == \E k \in 1 .. Len(inode[i].data), n \in Nat : inode[i].data[k] = <<p, n>>

SealedAt(i) ==
  /\ ~inode[i].tight => inode[i].loose
  /\ inode[i].type = "none" => strippers[i] = {} /\ inode[i].data = <<>>
  /\ inode[i].reader /\ inode[i].mine /\ ~inode[i].loose => inode[i].acl \/ strippers[i] # {}
  /\ \A p \in Procs : Holds(i, p) => Own(p, i)

KnowsAt(p) ==
  /\ pc[p] \in {"idle", "open", "vet", "tighten", "strip"} => \A i \in Inodes : p \notin strippers[i]
  /\ pc[p] = "strip" => inode[fd[p]].tight
  /\ pc[p] \in {"truncate", "write", "append"} => Own(p, fd[p])
  /\ pc[p] \in {"sweepFile", "sweepDir"} /\ res[p] = "ok" => Own(p, fd[p])
  /\ pc[p] \in {"fill", "rename"} => Closed(stage[p].file) /\ strippers[stage[p].file] = {}

Sealed == /\ Vetted
          /\ \A i \in Inodes : SealedAt(i)
          /\ \A p \in Procs : KnowsAt(p)

\* An inode that exists gains a stripper only while it has an ACL, and nobody
\* but the process that steps.
StrippersGrow(p, i) ==
  /\ strippers'[i] = strippers[i] \/ strippers'[i] = strippers[i] \cup {p}
  /\ inode[i].type # "none" /\ ~inode[i].acl => strippers'[i] = strippers[i]

\* That is how a step changes the strippers.
LEMMA StepStrippers ==
  ASSUME TypeOK, NEW p \in Procs, Step(p) \/ Kill(p), NEW i \in Inodes
  PROVE  StrippersGrow(p, i)
<1> USE DEF TypeOK, StrippersGrow, fs
<1>1. CASE Begin(p) \/ OpenExisting(p) \/ OpenCreate(p) \/ Vet(p) \/ Tighten(p)
  BY <1>1 DEF Begin, OpenExisting, OpenCreate, Vet, Tighten
<1>2. CASE Strip(p)
  BY <1>2 DEF Strip
<1>3. CASE InPlace(p)
  BY <1>3 DEF InPlace, Truncate, Write, AppendLine, Finish
<1>4. CASE CreateStaged(p)
  <2>1. PICK j \in Inodes :
          /\ inode[j] = Free
          /\ strippers' = [strippers EXCEPT ![j] = IF stage[p].acl THEN @ \cup {p} ELSE @]
    BY <1>4 DEF CreateStaged
  <2>2. inode[j].type = "none"
    BY <2>1 DEF Free
  <2>3. QED
    BY <2>1, <2>2
<1>5. CASE Mkdir(p) \/ MkdirGivesUp(p) \/ OpenDir(p) \/ Fill(p) \/ Filled(p) \/ Rename(p)
           \/ SweepFile(p) \/ SweepDir(p) \/ Fail(p) \/ Kill(p)
  BY <1>5 DEF Mkdir, MkdirGivesUp, OpenDir, Fill, Filled, Rename, SweepFile, SweepDir, Fail, Kill
<1>6. QED
  BY <1>1, <1>2, <1>3, <1>4, <1>5 DEF Step, Open, Staged

\* What is closed stays so, and is nobody's but those who had it.
LEMMA StaysClosed ==
  ASSUME Sealed, NEW p \in Procs, Step(p) \/ Kill(p), NEW i \in Inodes,
         inode[i].type # "none", Closed(i)
  PROVE  Closed(i)' /\ strippers'[i] = strippers[i]
BY StepKeeps, StepStrippers DEF Sealed, Vetted, Closed, Keeps, StrippersGrow, TypeOK, InodeRecord

\* At first nobody has a file open or has written to one.
LEMMA InitSealed == Init => Sealed
<1> SUFFICES ASSUME Init PROVE Sealed
  OBVIOUS
<1>1. \A i \in Inodes : inode[i] = Free \/ inode[i] \in Existing
  BY DEF Init
<1>2. ASSUME NEW r \in Existing
      PROVE  /\ ~r.tight => r.loose
             /\ r.type # "none" /\ ~r.reader
             /\ r.data = [k \in 1 .. OldChunks |-> <<Nil, k>>]
  <2>1. CASE \E s, t, a \in BOOLEAN : r = OldOwn(s, t, a)
    BY <2>1 DEF Old, Free, OldOwn
  <2>2. CASE \E type \in {"regular", "fifo", "link"} : r = OldOthers(type)
    BY <2>2 DEF Old, Free, OldOthers
  <2>3. CASE r = OldFifo
    BY <2>3 DEF Old, Free, OldFifo
  <2>4. QED
    BY <2>1, <2>2, <2>3, ExistingCases
<1>3. \A i \in Inodes, p \in Procs : ~Holds(i, p)
  <2>1. \A i \in Inodes : inode[i].data = <<>> \/ inode[i].data = [k \in 1 .. OldChunks |-> <<Nil, k>>]
    BY <1>1, <1>2 DEF Free
  <2>2. Len([k \in 1 .. OldChunks |-> <<Nil, k>>]) = OldChunks /\ Len(<<>>) = 0
    OBVIOUS
  <2>3. \A k, n, m, q : q \in Procs => <<Nil, m>> # <<q, n>>
    OBVIOUS
  <2>4. SUFFICES ASSUME NEW i \in Inodes, NEW p \in Procs, NEW k \in 1 .. Len(inode[i].data), NEW n \in Nat,
                        inode[i].data[k] = <<p, n>>
                 PROVE  FALSE
    BY DEF Holds
  <2>5. inode[i].data = [j \in 1 .. OldChunks |-> <<Nil, j>>] /\ k \in 1 .. OldChunks
    BY <2>1, <2>2, <2>4
  <2>6. inode[i].data[k] = <<Nil, k>>
    BY <2>5
  <2>7. QED
    BY <2>3, <2>4, <2>6
<1>4. ASSUME NEW i \in Inodes PROVE SealedAt(i)
  <2>1. CASE inode[i] = Free
    BY <1>3, <2>1 DEF SealedAt, Free, Init
  <2>2. CASE inode[i] \in Existing
    BY <1>2, <1>3, <2>2 DEF SealedAt, Init
  <2>3. QED
    BY <1>1, <2>1, <2>2
<1>5. ASSUME NEW p \in Procs PROVE KnowsAt(p)
  BY DEF KnowsAt, Init
<1>6. QED
  BY <1>4, <1>5, InitVetted DEF Sealed

\* Whatever is written is written to a file its writer owns.
LEMMA HoldsStep ==
  ASSUME Sealed, NEW p \in Procs, Step(p) \/ Kill(p), NEW i \in Inodes, NEW q \in Procs, Holds(i, q)'
  PROVE  Own(q, i)'
<1> USE DEF Sealed, Vetted
<1>1. CASE Holds(i, q)
  <2>1. Own(q, i) /\ inode[i].data # <<>>
    BY <1>1 DEF SealedAt, Holds
  <2>2. inode[i].type # "none"
    BY <2>1 DEF SealedAt
  <2>3. QED
    BY <2>1, <2>2, StaysClosed DEF Own
<1>2. CASE ~Holds(i, q)
  <2>0. inode'[i].data # inode[i].data /\ inode'[i].data # <<>>
    BY <1>2 DEF Holds
  <2>1. CASE Apart(p)
    BY <2>0, <2>1, ApartKeeps
  <2>2. CASE OpenCreate(p) \/ CreateStaged(p)
    <3>1. PICK j \in Inodes, a \in BOOLEAN : inode' = [inode EXCEPT ![j] = Created(a)]
      BY <2>2 DEF OpenCreate, CreateStaged, TypeOK
    <3>2. Created(a).data = <<>>
      BY DEF Created, Free
    <3>3. QED
      BY <2>0, <3>1, <3>2 DEF TypeOK
  <2>3. CASE Tighten(p) \/ Strip(p) \/ Truncate(p)
    <3>1. \/ inode' = [inode EXCEPT ![fd[p]] = [@ EXCEPT !.tight = TRUE]]
          \/ inode' = [inode EXCEPT ![fd[p]] = [@ EXCEPT !.acl = FALSE]]
          \/ inode' = [inode EXCEPT ![fd[p]] = [@ EXCEPT !.data = <<>>]]
      BY <2>3 DEF Tighten, Strip, Truncate
    <3>2. \/ inode'[i] = inode[i]
          \/ inode'[i] = [inode[i] EXCEPT !.tight = TRUE]
          \/ inode'[i] = [inode[i] EXCEPT !.acl = FALSE]
          \/ inode'[i] = [inode[i] EXCEPT !.data = <<>>]
      BY <3>1 DEF TypeOK
    <3>3. inode[i] \in InodeRecord
      BY DEF TypeOK
    <3>4. QED
      BY <2>0, <3>2, <3>3 DEF InodeRecord
  <2>4. CASE Write(p)
    <3>1. i = fd[p] /\ inode'[i].data = Put(inode[i].data, pos[p], <<p, pos[p] + 1>>)
      BY <2>0, <2>4 DEF Write, TypeOK, InodeRecord
    <3>2. inode[i].data \in Seq(Chunks) /\ <<p, pos[p] + 1>> \in Chunks /\ pos[p] \in Nat
      BY DEF TypeOK, InodeRecord, Chunks
    <3>3. PICK k \in 1 .. Len(inode'[i].data), n \in Nat : inode'[i].data[k] = <<q, n>>
      BY DEF Holds
    <3>4. \/ <<q, n>> = <<p, pos[p] + 1>> \/ <<q, n>> = <<Nil, 0>>
          \/ k \in 1 .. Len(inode[i].data) /\ inode[i].data[k] = <<q, n>>
      <4> DEFINE new == Put(inode[i].data, pos[p], <<p, pos[p] + 1>>)
      <4>1. \A l \in 1 .. Len(new) :
              \/ new[l] = <<p, pos[p] + 1>> \/ new[l] = <<Nil, 0>>
              \/ l \in 1 .. Len(inode[i].data) /\ new[l] = inode[i].data[l]
        BY <3>2, PutTyped
      <4> HIDE DEF new
      <4>2. inode'[i].data = new
        BY <3>1 DEF new
      <4>3. QED
        BY <3>3, <4>1, <4>2
    <3>5. q = p
      BY <1>2, <3>4 DEF Holds
    <3>6. Own(q, i) /\ inode[i].type # "none"
      BY <2>4, <3>1, <3>5 DEF Write, KnowsAt, VettedAt, Early, Ended, Sound
    <3>7. QED
      BY <3>6, StaysClosed DEF Own
  <2>5. CASE AppendLine(p)
    <3>1. i = fd[p] /\ inode'[i].data = Append(inode[i].data, <<p, pos[p] + 1>>)
      BY <2>0, <2>5 DEF AppendLine, TypeOK, InodeRecord
    <3>2. inode[i].data \in Seq(Chunks) /\ <<p, pos[p] + 1>> \in Chunks
      BY DEF TypeOK, InodeRecord, Chunks
    <3>3. PICK k \in 1 .. Len(inode'[i].data), n \in Nat : inode'[i].data[k] = <<q, n>>
      BY DEF Holds
    <3>4. \/ <<q, n>> = <<p, pos[p] + 1>>
          \/ k \in 1 .. Len(inode[i].data) /\ inode[i].data[k] = <<q, n>>
      <4> DEFINE new == Append(inode[i].data, <<p, pos[p] + 1>>)
      <4>1. \A l \in 1 .. Len(new) :
              new[l] = IF l <= Len(inode[i].data) THEN inode[i].data[l] ELSE <<p, pos[p] + 1>>
        BY <3>2, AppendTyped
      <4> HIDE DEF new
      <4>2. inode'[i].data = new
        BY <3>1 DEF new
      <4>3. Len(inode[i].data) \in Nat /\ Len(inode'[i].data) \in Nat
        BY <3>2, <4>2, AppendTyped DEF new
      <4>4. QED
        <5>1. k \in 1 .. Len(new) /\ new[k] = <<q, n>> /\ k \in Nat
          BY <3>3, <4>2, <4>3
        <5>2. CASE k <= Len(inode[i].data)
          BY <4>1, <4>3, <5>1, <5>2
        <5>3. CASE ~(k <= Len(inode[i].data))
          <6>1. new[k] = IF k <= Len(inode[i].data) THEN inode[i].data[k] ELSE <<p, pos[p] + 1>>
            BY <4>1, <5>1
          <6>2. new[k] = <<p, pos[p] + 1>>
            BY <5>3, <6>1
          <6>3. QED
            BY <5>1, <6>2
        <5>4. QED
          BY <5>2, <5>3
    <3>5. q = p
      BY <1>2, <3>4 DEF Holds
    <3>6. Own(q, i) /\ inode[i].type # "none"
      BY <2>5, <3>1, <3>5 DEF AppendLine, KnowsAt, VettedAt, Early, Ended, Sound
    <3>7. QED
      BY <3>6, StaysClosed DEF Own
  <2>6. CASE Fill(p)
    <3>1. i = stage[p].file
      BY <2>0, <2>6 DEF Fill, TypeOK
    <3>2. Closed(i) /\ strippers[i] = {} /\ inode[i].type # "none"
      BY <2>6, <3>1 DEF Fill, KnowsAt, VettedAt, Sound
    <3>3. QED
      BY <3>2, StaysClosed DEF Own
  <2>7. QED
    BY <2>1, <2>2, <2>3, <2>4, <2>5, <2>6 DEF Apart, Step, Open, InPlace, Staged
<1>3. QED
  BY <1>1, <1>2

\* Inodes stay sealed when a process steps.
LEMMA StepSealed ==
  ASSUME Sealed, NEW p \in Procs, Step(p) \/ Kill(p), NEW i \in Inodes
  PROVE  SealedAt(i)'
<1> USE DEF Sealed, Vetted
<1>0. SealedAt(i)
  OBVIOUS
<1>1. /\ ~inode'[i].tight => inode'[i].loose
      /\ inode'[i].type = "none" => strippers'[i] = {} /\ inode'[i].data = <<>>
      /\ inode'[i].reader /\ inode'[i].mine /\ ~inode'[i].loose => inode'[i].acl \/ strippers'[i] # {}
  <2> USE DEF SealedAt, TypeOK
  <2>1. CASE Apart(p)
    <3>1. inode' = inode
      BY <2>1, ApartKeeps
    <3>2. strippers' = strippers
      BY <2>1 DEF Apart, Begin, OpenExisting, Vet, Finish, Mkdir, MkdirGivesUp, OpenDir, Filled,
                  Rename, SweepFile, SweepDir, Fail, Kill
    <3>3. QED
      BY <1>0, <3>1, <3>2
  <2>2. CASE OpenCreate(p)
    BY <1>0, <2>2 DEF OpenCreate, Created, Free
  <2>3. CASE CreateStaged(p)
    <3>1. PICK j \in Inodes :
            /\ inode' = [inode EXCEPT ![j] = Created(FALSE)]
            /\ strippers' = [strippers EXCEPT ![j] = IF stage[p].acl THEN @ \cup {p} ELSE @]
      BY <2>3 DEF CreateStaged
    <3>2. CASE i = j
      BY <3>1, <3>2 DEF Created, Free
    <3>3. CASE i # j
      BY <1>0, <3>1, <3>3
    <3>4. QED
      BY <3>2, <3>3
  <2>4. CASE Tighten(p)
    BY <1>0, <2>4 DEF Tighten, InodeRecord, VettedAt, Early, Ended, Sound
  <2>5. CASE Strip(p)
    <3>1. fd[p] \in Inodes /\ inode[fd[p]].type = "regular"
      BY <2>5 DEF Strip, VettedAt, Early, Ended, Sound
    <3>2. CASE i = fd[p]
      <4>1. inode'[i] = [inode[i] EXCEPT !.acl = FALSE]
        BY <2>5, <3>2 DEF Strip
      <4>2. strippers'[i] = IF inode[i].acl THEN strippers[i] \cup {p} ELSE strippers[i]
        BY <2>5, <3>2 DEF Strip
      <4>3. QED
        <5>1. /\ inode'[i].tight = inode[i].tight /\ inode'[i].loose = inode[i].loose
              /\ inode'[i].type = inode[i].type /\ inode'[i].mine = inode[i].mine
              /\ inode'[i].reader = inode[i].reader /\ inode[i].acl \in BOOLEAN
          BY <4>1 DEF InodeRecord
        <5>2. strippers'[i] # {} \/ (strippers'[i] = strippers[i] /\ ~inode[i].acl)
          BY <4>2
        <5>3. QED
          BY <1>0, <3>1, <3>2, <5>1, <5>2
    <3>3. CASE i # fd[p]
      BY <1>0, <2>5, <3>3 DEF Strip
    <3>4. QED
      BY <3>2, <3>3
  <2>6. CASE Truncate(p) \/ Write(p) \/ AppendLine(p)
    <3>1. fd[p] \in Inodes /\ inode[fd[p]].type = "regular"
      BY <2>6 DEF Truncate, Write, AppendLine, VettedAt, Early, Ended, Sound
    <3>2. \E d : inode' = [inode EXCEPT ![fd[p]] = [@ EXCEPT !.data = d]]
      BY <2>6 DEF Truncate, Write, AppendLine
    <3>3. strippers' = strippers
      BY <2>6 DEF Truncate, Write, AppendLine
    <3>4. QED
      BY <1>0, <3>1, <3>2, <3>3 DEF InodeRecord
  <2>7. CASE Fill(p)
    <3>1. stage[p].file \in Inodes /\ inode[stage[p].file].type = "regular"
      BY <2>7 DEF Fill, VettedAt, Sound
    <3>2. QED
      BY <1>0, <2>7, <3>1 DEF Fill, InodeRecord
  <2>8. QED
    BY <2>1, <2>2, <2>3, <2>4, <2>5, <2>6, <2>7 DEF Apart, Step, Open, InPlace, Staged
<1>2. QED
  BY <1>1, HoldsStep DEF SealedAt

\* What the process that steps knows of its files.
LEMMA StepKnows ==
  ASSUME Sealed, NEW p \in Procs, Step(p)
  PROVE  KnowsAt(p)'
<1> USE DEF Sealed, Vetted, TypeOK, Goto, Return, fs, KnowsAt
<1>0. /\ \A i \in Inodes : inode[i].type # "none" /\ Closed(i) => Closed(i)' /\ strippers'[i] = strippers[i]
      /\ \A i \in Inodes : inode[i].type # "none" /\ Own(p, i) => Own(p, i)'
  BY StaysClosed DEF Own
<1>1. /\ pc[p] \notin Early \cup Ended => fd[p] \in Inodes /\ inode[fd[p]].type # "none"
      /\ pc[p] \in {"fill", "rename"} => stage[p].file \in Inodes /\ inode[stage[p].file].type # "none"
  BY DEF VettedAt, Sound
<1> USE DEF Early, Ended
<1>2. CASE Begin(p) \/ OpenExisting(p) \/ OpenCreate(p) \/ Vet(p)
  BY <1>2 DEF Begin, OpenExisting, OpenCreate, Vet
<1>3. CASE Tighten(p)
  BY <1>1, <1>3 DEF Tighten, InodeRecord
<1>4. CASE Strip(p)
  <2>1. /\ fd' = fd
        /\ pc'[p] \in {"done", "mkdir"} \/ (pc'[p] \in {"truncate", "append"} /\ ~inode[fd[p]].acl)
    BY <1>4 DEF Strip, AfterStrip, Ops
  <2>2. CASE ~inode[fd[p]].acl
    <3>1. Own(p, fd[p])
      BY <1>1, <1>4, <2>2 DEF Strip, Own, Closed, VettedAt, Sound
    <3>2. Own(p, fd[p])'
      BY <1>0, <1>1, <1>4, <2>1, <3>1 DEF Strip
    <3>3. QED
      BY <2>1, <3>2
  <2>3. QED
    BY <2>1, <2>2
<1>5. CASE Truncate(p) \/ Write(p) \/ AppendLine(p)
  <2>1. /\ fd' = fd /\ pc[p] \in {"truncate", "write", "append"}
        /\ pc'[p] \in {"write", "append"}
    BY <1>5 DEF Truncate, Write, AppendLine
  <2>2. QED
    BY <1>0, <1>1, <2>1
<1>6. CASE Finish(p)
  BY <1>6 DEF Finish
<1>7. CASE Mkdir(p) \/ MkdirGivesUp(p) \/ OpenDir(p)
  BY <1>7 DEF Mkdir, MkdirGivesUp, OpenDir
<1>8. CASE CreateStaged(p)
  <2>1. PICK i \in Inodes :
          /\ inode[i] = Free
          /\ inode' = [inode EXCEPT ![i] = Created(FALSE)]
          /\ stage' = [stage EXCEPT ![p].file = i]
          /\ strippers' = [strippers EXCEPT ![i] = IF stage[p].acl THEN @ \cup {p} ELSE @]
    BY <1>8 DEF CreateStaged
  <2>2. CASE stage[p].acl
    BY <1>8, <2>2 DEF CreateStaged
  <2>3. CASE ~stage[p].acl
    <3>1. strippers[i] = {}
      BY <2>1 DEF SealedAt, Free
    <3>2. inode'[i] = Created(FALSE) /\ stage'[p].file = i /\ strippers'[i] = {}
      BY <2>1, <2>3, <3>1 DEF StageRecord
    <3>3. pc'[p] = "fill"
      BY <1>8, <2>3 DEF CreateStaged
    <3>4. QED
      BY <3>2, <3>3 DEF Closed, Created, Free
  <2>4. QED
    BY <2>2, <2>3
<1>9. CASE Fill(p)
  <2>1. pc'[p] = "fill" /\ pc[p] = "fill" /\ stage' = stage
    BY <1>9 DEF Fill
  <2>2. QED
    BY <1>0, <1>1, <2>1
<1>10. CASE Filled(p)
  BY <1>0, <1>1, <1>10 DEF Filled
<1>11. CASE Rename(p)
  <2>1. pc[p] = "rename" /\ pc'[p] = "sweepFile" /\ fd'[p] = stage[p].file
    BY <1>11 DEF Rename
  <2>2. QED
    BY <1>0, <1>1, <2>1 DEF Own
<1>12. CASE SweepFile(p)
  BY <1>0, <1>1, <1>12 DEF SweepFile
<1>13. CASE SweepDir(p)
  <2>1. /\ pc[p] = "sweepDir" /\ fd' = fd
        /\ (pc'[p] = "append" /\ res[p] = "ok") \/ pc'[p] = "done"
    BY <1>13 DEF SweepDir
  <2>2. QED
    BY <1>0, <1>1, <2>1
<1>14. CASE Fail(p)
  BY <1>14 DEF Fail
<1>15. QED
  BY <1>2, <1>3, <1>4, <1>5, <1>6, <1>7, <1>8, <1>9, <1>10, <1>11, <1>12, <1>13, <1>14
     DEF Step, Open, InPlace, Staged

\* Every step keeps the seal.
LEMMA NextSealed == ASSUME Sealed, [Next]_vars PROVE Sealed'
<1>0. Vetted'
  BY NextVetted DEF Sealed
<1>1. ASSUME NEW p \in Procs, NEW q \in Procs, Step(p) \/ Kill(p), q # p PROVE KnowsAt(q)'
  <2>1. pc'[q] = pc[q] /\ fd'[q] = fd[q] /\ stage'[q] = stage[q] /\ res'[q] = res[q]
    BY <1>1, StepLocal DEF Sealed, Vetted
  <2>2. \A i \in Inodes : inode[i].type # "none" /\ Closed(i) => Closed(i)' /\ strippers'[i] = strippers[i]
    BY <1>1, StaysClosed
  <2>3. \A i \in Inodes : q \notin strippers[i] => q \notin strippers'[i]
    BY <1>1, StepStrippers DEF Sealed, Vetted, StrippersGrow
  <2>4. \A i \in Inodes : inode[i].type # "none" /\ inode[i].tight => inode'[i].tight
    BY <1>1, StepKeeps DEF Keeps, Sealed, Vetted
  <2>5. /\ pc[q] \notin Early \cup Ended => fd[q] \in Inodes /\ inode[fd[q]].type # "none"
        /\ pc[q] \in {"fill", "rename"} => stage[q].file \in Inodes /\ inode[stage[q].file].type # "none"
    BY DEF Sealed, Vetted, VettedAt, Sound
  <2>6. KnowsAt(q)
    BY DEF Sealed
  <2>7. QED
    BY <2>1, <2>2, <2>3, <2>4, <2>5, <2>6 DEF KnowsAt, Own, Early, Ended
<1>2. ASSUME NEW p \in Procs, Kill(p) PROVE KnowsAt(p)'
  BY <1>2 DEF Kill, Goto, Sealed, Vetted, TypeOK, KnowsAt
<1>3. ASSUME Read \/ Plant, NEW i \in Inodes PROVE SealedAt(i)' /\ (Closed(i) => Closed(i)')
  <2> USE DEF Sealed, Vetted, TypeOK
  <2>1. CASE Read
    <3>1. /\ target \in Inodes /\ strippers' = strippers
          /\ inode' = [inode EXCEPT ![target] = [@ EXCEPT !.reader = TRUE]]
          /\ inode[target].acl \/ ~inode[target].tight \/ ~inode[target].mine
      BY <2>1 DEF Read
    <3>2. SealedAt(i)
      OBVIOUS
    <3>3. /\ inode'[i].data = inode[i].data /\ inode'[i].tight = inode[i].tight
          /\ inode'[i].loose = inode[i].loose /\ inode'[i].mine = inode[i].mine
          /\ inode'[i].acl = inode[i].acl /\ inode'[i].type = inode[i].type
          /\ i # target => inode'[i].reader = inode[i].reader
      <4>1. inode'[i] = inode[i] \/ (i = target /\ inode'[i] = [inode[i] EXCEPT !.reader = TRUE])
        BY <3>1
      <4>2. inode[i] \in InodeRecord
        OBVIOUS
      <4>3. QED
        BY <4>1, <4>2 DEF InodeRecord
    <3>4. Closed(i)' <=> Closed(i)
      BY <3>3 DEF Closed
    <3>5. ASSUME NEW q \in Procs, Holds(i, q)' PROVE Own(q, i)'
      <4>1. inode'[i].data = inode[i].data /\ strippers'[i] = strippers[i]
        BY <3>1, <3>3
      <4>2. Holds(i, q)
        BY <3>5, <4>1 DEF Holds
      <4>3. Own(q, i)
        BY <3>2, <4>2 DEF SealedAt
      <4>4. QED
        BY <3>4, <4>1, <4>3 DEF Own
    <3>6. inode'[i].reader /\ inode[i].mine /\ ~inode[i].loose => inode[i].acl \/ strippers[i] # {}
      BY <3>1, <3>2, <3>3 DEF SealedAt
    <3>7. /\ ~inode'[i].tight => inode'[i].loose
          /\ inode'[i].type = "none" => strippers'[i] = {} /\ inode'[i].data = <<>>
          /\ inode'[i].reader /\ inode'[i].mine /\ ~inode'[i].loose => inode'[i].acl \/ strippers'[i] # {}
      BY <3>1, <3>2, <3>3, <3>6 DEF SealedAt
    <3>8. QED
      BY <3>4, <3>5, <3>7 DEF SealedAt
  <2>2. CASE Plant /\ inode' = inode
    BY <2>2 DEF Plant, SealedAt, Closed, Own, Holds
  <2>3. CASE Plant /\ inode' # inode
    <3>1. PICK j \in Inodes, type \in {"regular", "fifo", "link"} :
            inode[j] = Free /\ inode' = [inode EXCEPT ![j] = Planted(type)]
      BY <2>3 DEF Plant
    <3>2. strippers' = strippers /\ SealedAt(i)
      BY <2>3 DEF Plant
    <3>3. CASE i # j
      BY <3>1, <3>2, <3>3 DEF SealedAt, Closed, Own, Holds
    <3>4. CASE i = j
      <4>1. inode[i].mine = FALSE
        BY <3>1, <3>4 DEF Free
      <4>2. /\ inode'[i].data = <<>> /\ inode'[i].loose /\ inode'[i].type # "none"
            /\ ~inode'[i].mine
        BY <3>1, <3>4 DEF Planted, Free
      <4>3. QED
        BY <3>2, <4>1, <4>2 DEF SealedAt, Closed, Holds
    <3>5. QED
      BY <3>3, <3>4
  <2>4. QED
    BY <1>3, <2>1, <2>2, <2>3
<1>4. ASSUME Read \/ Plant, NEW q \in Procs PROVE KnowsAt(q)'
  <2>1. UNCHANGED <<pc, fd, stage, res, strippers>>
    BY <1>4 DEF Read, Plant
  <2>2. \A i \in Inodes : Closed(i) => Closed(i)'
    BY <1>3, <1>4
  <2>3. \A i \in Inodes : inode[i].type # "none" /\ inode[i].tight => inode'[i].tight
    BY <1>4, OthersKeep DEF Keeps, Sealed, Vetted
  <2>4. /\ pc[q] \notin Early \cup Ended => fd[q] \in Inodes /\ inode[fd[q]].type # "none"
        /\ pc[q] \in {"fill", "rename"} => stage[q].file \in Inodes
    BY DEF Sealed, Vetted, VettedAt, Sound
  <2>5. KnowsAt(q)
    BY DEF Sealed
  <2>6. QED
    BY <2>1, <2>2, <2>3, <2>4, <2>5 DEF KnowsAt, Own, Early, Ended
<1>5. ASSUME UNCHANGED vars PROVE Sealed'
  BY <1>0, <1>5 DEF vars, fs, Sealed, SealedAt, KnowsAt, Closed, Own, Holds
<1>6. ASSUME Next PROVE Sealed'
  <2>1. \A i \in Inodes : SealedAt(i)'
    BY <1>3, <1>6, StepSealed DEF Next
  <2>2. \A q \in Procs : KnowsAt(q)'
    BY <1>1, <1>2, <1>4, <1>6, StepKnows DEF Next, Sealed
  <2>3. QED
    BY <1>0, <2>1, <2>2 DEF Sealed
<1>7. QED
  BY <1>5, <1>6

\* What a process writes is out of reach of a descriptor somebody else opened
\* while the file still had its inherited ACL (config.rs:1044,
\* write_restricted, and its replacement of a file that had an ACL).
THEOREM Secret == Spec => []Private
<1>1. Sealed => Private
  <2>1. SUFFICES ASSUME Sealed, NEW i \in Inodes, NEW p \in Procs, inode[i].reader, Holds(i, p)
                 PROVE  inode[i].loose \/ strippers[i] \ {p} # {}
    BY DEF Private, Holds
  <2>2. SealedAt(i) /\ Own(p, i)
    BY <2>1 DEF Sealed, SealedAt
  <2>3. QED
    BY <2>1, <2>2 DEF SealedAt, Own, Closed
<1>2. QED
  BY <1>1, InitSealed, NextSealed, PTL DEF Spec

-----------------------------------------------------------------------------
(***************************************************************************)
(* Why a file arrives whole.  A staged file is reached through no path and *)
(* no other descriptor (Placed), so only its own process writes to it, and *)
(* what it copies from does not change under a call that meets no other    *)
(* (Alone); hence it holds at every step the chunks copied so far.         *)
(***************************************************************************)
\* Two logs with the same chunks are the same.
LEMMA SameSequence ==
  ASSUME NEW S, NEW s \in Seq(S), NEW t \in Seq(S), Len(s) = Len(t),
         \A k \in 1 .. Len(t) : s[k] = t[k]
  PROVE  s = t
OBVIOUS

ApartAt(p) ==
  stage[p].file # Nil =>
    /\ target # stage[p].file
    /\ \A q \in Procs : fd[q] # stage[p].file
    /\ \A q \in Procs \ {p} : stage[q].file # stage[p].file

Placed ==
  /\ target # Nil => inode[target].type # "none"
  /\ \A p \in Procs : fd[p] # Nil => inode[fd[p]].type # "none"
  /\ \A p \in Procs : ApartAt(p)

Fresh == {"idle", "open", "vet", "tighten", "strip", "mkdir", "opendir", "create"}
Staging == {"mkdir", "opendir", "create", "fill", "rename"}

BegunAt(p) ==
  /\ pc[p] \in Fresh => pos[p] = 0
  /\ pc[p] \in Staging => op[p] # "open"
  /\ ~raced[p] /\ Active(p) => \A q \in Procs \ {p} : ~Active(q)

Copied(p) ==
  LET data == inode[stage[p].file].data
  IN  /\ pos[p] = Len(data) /\ Len(data) <= Len(Source(p))
      /\ \A k \in 1 .. Len(data) : data[k] = Source(p)[k]
      /\ pc[p] = "rename" => Len(data) = Len(Source(p))
CopiedAt(p) ==
  pc[p] \in {"fill", "rename"} /\ (op[p] = "append" => ~raced[p]) => Copied(p)

Arriving == /\ Sealed /\ Placed
            /\ \A p \in Procs : BegunAt(p) /\ CopiedAt(p)

\* The steps that change neither what is at the path, nor a descriptor, nor
\* what is staged, but for taking that away.
Steady ==
  /\ target' = target /\ fd' = fd
  /\ \A q \in Procs : stage'[q].file \in {stage[q].file, Nil}

\* All steps of a process but four are such.
LEMMA StepSteady ==
  ASSUME Vetted, NEW p \in Procs, Step(p) \/ Kill(p)
  PROVE  Steady \/ OpenExisting(p) \/ OpenCreate(p) \/ CreateStaged(p) \/ Rename(p)
<1> USE DEF Vetted, TypeOK, fs, Steady
<1>1. CASE Begin(p) \/ Vet(p) \/ Tighten(p) \/ Strip(p) \/ InPlace(p)
  BY <1>1 DEF Begin, Vet, Tighten, Strip, InPlace, Truncate, Write, AppendLine, Finish
<1>2. CASE Mkdir(p) \/ OpenDir(p)
  <2>1. target' = target /\ fd' = fd /\ \A q \in Procs \ {p} : stage'[q] = stage[q]
    BY <1>2 DEF Mkdir, OpenDir
  <2>2. stage'[p].file \in {stage[p].file, Nil}
    BY <1>2 DEF Mkdir, OpenDir, StageRecord
  <2>3. QED
    BY <2>1, <2>2
<1>5. CASE MkdirGivesUp(p) \/ Fill(p) \/ Filled(p)
  BY <1>5 DEF MkdirGivesUp, Fill, Filled
<1>3. CASE SweepFile(p) \/ SweepDir(p) \/ Fail(p) \/ Kill(p)
  BY <1>3 DEF SweepFile, SweepDir, Fail, Kill, StageRecord, NoStage
<1>4. QED
  BY <1>1, <1>2, <1>3, <1>5 DEF Step, Open, Staged

\* What is not free stays so under every step.
LEMMA StaysTaken ==
  ASSUME Vetted, [Next]_vars, NEW i \in Inodes, inode[i].type # "none"
  PROVE  inode'[i].type # "none"
BY StepKeeps, OthersKeep DEF Vetted, Keeps, Next, vars, fs

\* Staged files keep apart.
LEMMA NextPlaced == ASSUME Vetted, Placed, [Next]_vars PROVE Placed'
<1> USE DEF Vetted, TypeOK
<1>0. /\ \A q \in Procs : stage[q].file \in Inodes \cup {Nil} /\ fd[q] \in Inodes \cup {Nil}
      /\ \A q \in Procs : stage[q].file # Nil => inode[stage[q].file].type = "regular"
      /\ target \in Inodes \cup {Nil}
  BY DEF StageRecord, VettedAt, Sound
<1>1. ASSUME Steady PROVE Placed'
  BY <1>0, <1>1, StaysTaken DEF Steady, Placed, ApartAt
<1>2. ASSUME NEW p \in Procs, OpenExisting(p) PROVE Placed'
  <2>1. /\ target' = target /\ stage' = stage /\ inode' = inode
        /\ fd' = [fd EXCEPT ![p] = target] /\ target # Nil
    BY <1>2 DEF OpenExisting, fs
  <2>2. QED
    BY <1>0, <2>1 DEF Placed, ApartAt
<1>3. ASSUME NEW p \in Procs, OpenCreate(p) PROVE Placed'
  <2>1. PICK i \in Inodes :
          /\ inode[i] = Free /\ inode' = [inode EXCEPT ![i] = Created(inherits)]
          /\ target' = i /\ fd' = [fd EXCEPT ![p] = i]
    BY <1>3 DEF OpenCreate
  <2>2. stage' = stage /\ inode[i].type = "none" /\ inode'[i].type = "regular"
    BY <1>3, <2>1 DEF OpenCreate, Free, Created
  <2>3. QED
    BY <1>0, <2>1, <2>2, StaysTaken DEF Placed, ApartAt
<1>4. ASSUME NEW p \in Procs, CreateStaged(p) PROVE Placed'
  <2>1. PICK i \in Inodes : inode[i] = Free /\ stage' = [stage EXCEPT ![p].file = i]
    BY <1>4 DEF CreateStaged
  <2>2. /\ inode[i].type = "none" /\ target' = target /\ fd' = fd
        /\ stage'[p].file = i /\ \A q \in Procs \ {p} : stage'[q] = stage[q]
    BY <1>4, <2>1 DEF CreateStaged, Free, StageRecord
  <2>3. i # target /\ i # Nil /\ \A q \in Procs : fd[q] # i /\ stage[q].file # i
    BY <1>0, <2>2 DEF Placed
  <2>4. \A q \in Procs : ApartAt(q)'
    BY <1>0, <2>2, <2>3 DEF Placed, ApartAt
  <2>5. QED
    BY <1>0, <2>2, <2>4, StaysTaken DEF Placed
<1>5. ASSUME NEW p \in Procs, Rename(p) PROVE Placed'
  <2>1. /\ target' = stage[p].file /\ fd' = [fd EXCEPT ![p] = stage[p].file]
        /\ stage'[p].file = Nil /\ \A q \in Procs \ {p} : stage'[q] = stage[q]
        /\ inode' = inode /\ stage[p].file \in Inodes
    BY <1>5 DEF Rename, StageRecord, VettedAt
  <2>2. QED
    BY <1>0, <2>1 DEF Placed, ApartAt
<1>6. CASE Read
  BY <1>0, <1>6, StaysTaken DEF Read, Placed, ApartAt
<1>7. CASE Plant
  <2>1. UNCHANGED <<stage, fd>>
    BY <1>7 DEF Plant
  <2>2. \/ target' = Nil
        \/ /\ target' \in Inodes /\ inode[target'].type = "none"
           /\ inode'[target'].type # "none"
    <3>1. CASE target' = Nil
      BY <3>1
    <3>2. CASE target' # Nil
      <4>1. PICK i \in Inodes, type \in {"regular", "fifo", "link"} :
              inode[i] = Free /\ inode' = [inode EXCEPT ![i] = Planted(type)] /\ target' = i
        BY <1>7, <3>2 DEF Plant
      <4>2. QED
        BY <4>1 DEF Planted, Free
    <3>3. QED
      BY <3>1, <3>2
  <2>3. QED
    BY <1>0, <2>1, <2>2, StaysTaken DEF Placed, ApartAt
<1>8. CASE UNCHANGED vars
  BY <1>8 DEF vars, fs, Placed, ApartAt
<1>9. QED
  BY <1>1, <1>2, <1>3, <1>4, <1>5, <1>6, <1>7, <1>8, StepSteady DEF Next

\* A process that steps is in a call, unless it begins one, and only that
\* makes a call meet another.
LEMMA StepActive ==
  ASSUME NEW p \in Procs, Step(p) \/ Kill(p), ~Begin(p)
  PROVE  Active(p) /\ raced' = raced
<1> USE DEF Active, Busy
<1>1. CASE Open(p) \/ InPlace(p)
  BY <1>1 DEF Open, OpenExisting, OpenCreate, Vet, Tighten, Strip, InPlace, Truncate, Write,
              AppendLine, Finish
<1>2. CASE Staged(p) \/ Fail(p) \/ Kill(p)
  BY <1>2 DEF Staged, Mkdir, MkdirGivesUp, OpenDir, CreateStaged, Fill, Filled, Rename,
              SweepFile, SweepDir, Fail, Kill
<1>3. QED
  BY <1>1, <1>2 DEF Step

\* Whoever begins while a call is under way meets it, and it meets that one.
LEMMA BeginMeets ==
  ASSUME TypeOK, NEW p \in Procs, Begin(p), NEW q \in Procs, ~raced'[q]
  PROVE  /\ ~raced[q]
         /\ q = p => \A o \in Procs \ {p} : ~Active(o)
         /\ q # p => ~Active(q)
<1>1. raced'[q] = (raced[q] \/ (q = p /\ \E o \in Procs \ {p} : Active(o)) \/ (q # p /\ Active(q)))
  BY Zenon DEF Begin
<1>2. QED
  BY <1>1

\* Calls stay begun.
LEMMA NextBegun ==
  ASSUME Vetted, [Next]_vars, \A p \in Procs : BegunAt(p), NEW q \in Procs
  PROVE  BegunAt(q)'
<1> USE DEF Vetted, TypeOK
<1>1. ASSUME NEW p \in Procs, Step(p) \/ Kill(p)
      PROVE  pc'[q] \in Fresh => pos'[q] = 0
  <2>1. CASE q # p
    BY <1>1, <2>1, StepLocal DEF BegunAt
  <2>2. CASE q = p
    <3> USE DEF BegunAt, Goto, fs, Fresh
    <3>1. CASE Open(p)
      BY <2>2, <3>1 DEF Open, Begin, OpenExisting, OpenCreate, Vet, Tighten, Strip
    <3>2. CASE InPlace(p)
      BY <2>2, <3>2 DEF InPlace, Truncate, Write, AppendLine, Finish
    <3>3. CASE Mkdir(p) \/ MkdirGivesUp(p) \/ OpenDir(p) \/ CreateStaged(p)
      BY <2>2, <3>3 DEF Mkdir, MkdirGivesUp, OpenDir, CreateStaged
    <3>4. CASE Fill(p) \/ Filled(p) \/ Rename(p) \/ SweepFile(p) \/ SweepDir(p)
      BY <2>2, <3>4 DEF Fill, Filled, Rename, SweepFile, SweepDir
    <3>5. CASE Fail(p) \/ Kill(p)
      BY <2>2, <3>5 DEF Fail, Kill
    <3>6. QED
      BY <1>1, <3>1, <3>2, <3>3, <3>4, <3>5 DEF Step, Staged
  <2>3. QED
    BY <2>1, <2>2
<1>2. ASSUME NEW p \in Procs, Step(p) \/ Kill(p)
      PROVE  pc'[q] \in Staging => op'[q] # "open"
  <2>1. CASE q # p
    BY <1>2, <2>1, StepLocal DEF BegunAt
  <2>2. CASE q = p
    <3> USE DEF BegunAt, Goto, fs, Staging
    <3>1. CASE Strip(p)
      BY <2>2, <3>1 DEF Strip, AfterStrip
    <3>2. CASE Begin(p) \/ OpenExisting(p) \/ OpenCreate(p) \/ Vet(p) \/ Tighten(p)
      BY <2>2, <3>2 DEF Begin, OpenExisting, OpenCreate, Vet, Tighten
    <3>3. CASE InPlace(p)
      BY <2>2, <3>3 DEF InPlace, Truncate, Write, AppendLine, Finish
    <3>4. CASE Mkdir(p) \/ MkdirGivesUp(p) \/ OpenDir(p) \/ CreateStaged(p)
      BY <2>2, <3>4 DEF Mkdir, MkdirGivesUp, OpenDir, CreateStaged
    <3>5. CASE Fill(p) \/ Filled(p) \/ Rename(p) \/ SweepFile(p) \/ SweepDir(p)
      BY <2>2, <3>5 DEF Fill, Filled, Rename, SweepFile, SweepDir
    <3>6. CASE Fail(p) \/ Kill(p)
      BY <2>2, <3>6 DEF Fail, Kill
    <3>7. QED
      BY <1>2, <3>1, <3>2, <3>3, <3>4, <3>5, <3>6 DEF Step, Open, Staged
  <2>3. QED
    BY <2>1, <2>2
<1>3. ASSUME NEW p \in Procs, Step(p) \/ Kill(p), ~raced'[q], Active(q)', NEW o \in Procs \ {q}
      PROVE  ~Active(o)'
  <2>1. \A r \in Procs \ {p} : pc'[r] = pc[r]
    BY <1>3, StepLocal
  <2>2. CASE Begin(p)
    BY <1>3, <2>1, <2>2, BeginMeets DEF Active
  <2>3. CASE ~Begin(p)
    <3>1. Active(p) /\ ~raced[q]
      BY <1>3, <2>3, StepActive
    <3>2. CASE q = p
      BY <2>1, <3>1, <3>2 DEF BegunAt, Active
    <3>3. CASE q # p
      BY <1>3, <2>1, <3>1, <3>3 DEF BegunAt, Active
    <3>4. QED
      BY <3>2, <3>3
  <2>4. QED
    BY <2>2, <2>3
<1>4. CASE \E p \in Procs : Step(p) \/ Kill(p)
  BY <1>1, <1>2, <1>3, <1>4 DEF BegunAt
<1>5. CASE UNCHANGED <<pc, pos, op, raced>>
  BY <1>5 DEF BegunAt, Active
<1>6. UNCHANGED <<pc, pos, op, raced>> \/ \E p \in Procs : Step(p) \/ Kill(p)
  BY DEF Next, Read, Plant, vars, fs
<1>7. QED
  BY <1>4, <1>5, <1>6

\* A step changes a file that exists only through the descriptor of its
\* process or as what that stages.
LEMMA StepWrites ==
  ASSUME Vetted, NEW p \in Procs, Step(p) \/ Kill(p), NEW i \in Inodes,
         inode[i].type # "none", i # fd[p], i # stage[p].file
  PROVE  inode'[i] = inode[i]
<1> USE DEF Vetted, TypeOK
<1>1. CASE Apart(p)
  BY <1>1, ApartKeeps
<1>2. CASE OpenCreate(p) \/ CreateStaged(p)
  <2>1. PICK j \in Inodes : inode[j] = Free /\ \E a : inode' = [inode EXCEPT ![j] = Created(a)]
    BY <1>2 DEF OpenCreate, CreateStaged
  <2>2. i # j
    BY <2>1 DEF Free
  <2>3. QED
    BY <2>1, <2>2
<1>3. CASE Tighten(p) \/ Strip(p)
  BY <1>3 DEF Tighten, Strip
<1>4. CASE Truncate(p) \/ Write(p) \/ AppendLine(p) \/ Fill(p)
  BY <1>4 DEF Truncate, Write, AppendLine, Fill
<1>5. QED
  BY <1>1, <1>2, <1>3, <1>4 DEF Apart, Step, Open, InPlace, Staged

\* What a process copies from is a sequence of chunks.
LEMMA SourceTyped ==
  ASSUME TypeOK, NEW p \in Procs, fd[p] \in Inodes
  PROVE  Source(p) \in Seq(Chunks)
<1>1. inode[fd[p]].data \in Seq(Chunks)
  BY DEF TypeOK, InodeRecord
<1>2. QED
  BY <1>1, ContentTyped DEF Source

\* A step of another process leaves the copy and what it copies from alone.
LEMMA OthersCopied ==
  ASSUME Vetted, Placed, NEW p \in Procs, Step(p) \/ Kill(p), NEW q \in Procs, q # p,
         BegunAt(q), CopiedAt(q), BegunAt(p)
  PROVE  CopiedAt(q)'
<1> USE DEF Vetted
<1> SUFFICES ASSUME (pc[q] \in {"fill", "rename"} /\ (op[q] = "append" => ~raced[q]))'
             PROVE  Copied(q)'
  BY DEF CopiedAt
<1>1. /\ pc'[q] = pc[q] /\ fd'[q] = fd[q] /\ stage'[q] = stage[q]
      /\ op'[q] = op[q] /\ pos'[q] = pos[q]
  BY StepLocal
<1>2. /\ stage[q].file \in Inodes /\ inode[stage[q].file].type = "regular"
      /\ fd[q] \in Inodes /\ inode[fd[q]].type = "regular"
  BY <1>1 DEF VettedAt, Early, Ended, Sound
<1>3. stage[q].file # fd[p] /\ stage[q].file # stage[p].file
  BY <1>2 DEF Placed, ApartAt, TypeOK
<1>4. inode'[stage[q].file] = inode[stage[q].file]
  BY <1>2, <1>3, StepWrites
<1>5. op[q] = "append" => ~raced[q] /\ inode' = inode
  <2>1. SUFFICES ASSUME op[q] = "append" PROVE ~raced[q] /\ inode' = inode
    OBVIOUS
  <2>2. ~raced'[q] /\ Active(q)
    BY <1>1, <2>1 DEF Active, Busy
  <2>3. CASE Begin(p)
    BY <2>2, <2>3, BeginMeets
  <2>4. CASE ~Begin(p)
    BY <2>2, <2>4, StepActive DEF BegunAt
  <2>5. QED
    BY <2>3, <2>4
<1>6. Source(q)' = Source(q)
  BY <1>1, <1>2, <1>5 DEF Source, BegunAt, Staging, TypeOK, Ops
<1>7. Copied(q)
  BY <1>1, <1>5 DEF CopiedAt
<1>8. QED
  BY <1>1, <1>4, <1>6, <1>7 DEF Copied

\* A copy goes on by the chunk that comes next.
LEMMA CopyGoesOn ==
  ASSUME NEW from \in Seq(Chunks), NEW data \in Seq(Chunks), Len(data) < Len(from),
         \A k \in 1 .. Len(data) : data[k] = from[k],
         NEW new, new = Append(data, from[Len(data) + 1])
  PROVE  /\ Len(new) = Len(data) + 1 /\ Len(new) <= Len(from)
         /\ \A k \in 1 .. Len(new) : new[k] = from[k]
OBVIOUS

\* The copy of the process that steps.
LEMMA StepCopied ==
  ASSUME Vetted, Placed, NEW p \in Procs, Step(p) \/ Kill(p), BegunAt(p), CopiedAt(p)
  PROVE  CopiedAt(p)'
<1> USE DEF Vetted, TypeOK, Goto, Return, fs
<1> SUFFICES ASSUME (pc[p] \in {"fill", "rename"} /\ (op[p] = "append" => ~raced[p]))'
             PROVE  Copied(p)'
  BY DEF CopiedAt
<1>1. CASE CreateStaged(p)
  <2>1. PICK i \in Inodes :
          /\ inode[i] = Free /\ inode' = [inode EXCEPT ![i] = Created(FALSE)]
          /\ stage' = [stage EXCEPT ![p].file = i]
    BY <1>1 DEF CreateStaged
  <2>2. /\ stage'[p].file = i /\ inode'[i].data = <<>> /\ pc'[p] # "rename"
        /\ pos'[p] = pos[p] /\ pos[p] = 0 /\ fd'[p] = fd[p]
    BY <1>1, <2>1 DEF CreateStaged, Created, Free, StageRecord, BegunAt, Fresh
  <2>3. /\ fd[p] \in Inodes /\ inode'[fd[p]] = inode[fd[p]] /\ op' = op
    <3>1. fd[p] \in Inodes /\ inode[fd[p]].type = "regular" /\ op' = op
      BY <1>1 DEF CreateStaged, VettedAt, Early, Ended, Sound
    <3>2. fd[p] # i
      BY <2>1, <3>1 DEF Free
    <3>3. QED
      BY <2>1, <3>1, <3>2
  <2>4. Source(p)' = Source(p) /\ Source(p) \in Seq(Chunks)
    BY <2>2, <2>3, SourceTyped DEF Source
  <2>5. QED
    BY <2>2, <2>4 DEF Copied
<1>2. CASE Fill(p) \/ Filled(p)
  <2>1. /\ pc[p] = "fill" /\ fd' = fd /\ op' = op /\ stage' = stage /\ raced' = raced
        /\ fd[p] \in Inodes /\ stage[p].file \in Inodes /\ fd[p] # stage[p].file
    BY <1>2 DEF Fill, Filled, VettedAt, Early, Ended, Placed, ApartAt
  <2>2. Copied(p)
    BY <2>1 DEF CopiedAt
  <2>3. Source(p) \in Seq(Chunks) /\ inode[stage[p].file].data \in Seq(Chunks)
    BY <2>1, SourceTyped DEF InodeRecord
  <2>4. CASE Fill(p)
    <3>1. /\ inode'[stage[p].file].data = Append(inode[stage[p].file].data, Source(p)[pos[p] + 1])
          /\ inode'[fd[p]] = inode[fd[p]] /\ pos'[p] = pos[p] + 1 /\ pc'[p] = "fill"
          /\ pos[p] < Len(Source(p))
      BY <2>1, <2>4 DEF Fill, InodeRecord
    <3>2. Source(p)' = Source(p)
      BY <2>1, <3>1 DEF Source
    <3> DEFINE from == Source(p)
               data == inode[stage[p].file].data
               new == inode'[stage[p].file].data
    <3>3. /\ from \in Seq(Chunks) /\ data \in Seq(Chunks) /\ pos[p] = Len(data)
          /\ Len(data) < Len(from) /\ \A k \in 1 .. Len(data) : data[k] = from[k]
          /\ new = Append(data, from[Len(data) + 1])
      BY <2>2, <2>3, <3>1 DEF Copied
    <3> HIDE DEF from, data, new
    <3>4. /\ Len(new) = Len(data) + 1 /\ Len(new) <= Len(from)
          /\ \A k \in 1 .. Len(new) : new[k] = from[k]
      BY <3>3, CopyGoesOn
    <3>5. QED
      BY <2>1, <3>1, <3>2, <3>3, <3>4 DEF Copied, from, data, new
  <2>5. CASE Filled(p)
    <3>1. inode' = inode /\ pos' = pos /\ pos[p] >= Len(Source(p))
      BY <2>5 DEF Filled
    <3>2. Source(p)' = Source(p)
      BY <2>1, <3>1 DEF Source
    <3>3. QED
      BY <2>1, <2>2, <2>3, <3>1, <3>2 DEF Copied
  <2>6. QED
    BY <1>2, <2>4, <2>5
<1>3. CASE Open(p) \/ InPlace(p)
  BY <1>3 DEF Open, Begin, OpenExisting, OpenCreate, Vet, Tighten, Strip, AfterStrip, Ops,
              InPlace, Truncate, Write, AppendLine, Finish
<1>4. CASE Mkdir(p) \/ MkdirGivesUp(p) \/ OpenDir(p) \/ Rename(p)
  BY <1>4 DEF Mkdir, MkdirGivesUp, OpenDir, Rename
<1>5. CASE SweepFile(p) \/ SweepDir(p) \/ Fail(p) \/ Kill(p)
  BY <1>5 DEF SweepFile, SweepDir, Fail, Kill
<1>6. QED
  BY <1>1, <1>2, <1>3, <1>4, <1>5 DEF Step, Staged

\* At first nothing is staged and no call has begun.
LEMMA InitArriving == Init => Arriving
<1> SUFFICES ASSUME Init PROVE Arriving
  OBVIOUS
<1>1. \A r \in Existing : r.type # "none"
  <2> SUFFICES ASSUME NEW r \in Existing PROVE r.type # "none"
    OBVIOUS
  <2>1. CASE \E s, t, a \in BOOLEAN : r = OldOwn(s, t, a)
    BY <2>1 DEF Old, Free, OldOwn
  <2>2. CASE \E type \in {"regular", "fifo", "link"} : r = OldOthers(type)
    BY <2>2 DEF Old, Free, OldOthers
  <2>3. CASE r = OldFifo
    BY <2>3 DEF Old, Free, OldFifo
  <2>4. QED
    BY <2>1, <2>2, <2>3, ExistingCases
<1>2. Placed
  BY <1>1 DEF Init, Placed, ApartAt, NoStage
<1>3. \A p \in Procs : BegunAt(p) /\ CopiedAt(p)
  BY DEF Init, BegunAt, CopiedAt, Active, Busy, Staging
<1>4. QED
  BY <1>2, <1>3, InitSealed DEF Arriving

\* Copies stay what they are.
LEMMA NextArriving == ASSUME Arriving, [Next]_vars PROVE Arriving'
<1> USE DEF Arriving
<1>1. Vetted /\ Placed' /\ Sealed'
  BY NextPlaced, NextSealed DEF Sealed
<1>2. ASSUME NEW q \in Procs PROVE BegunAt(q)'
  BY <1>1, NextBegun
<1>3. ASSUME NEW q \in Procs PROVE CopiedAt(q)'
  <2>1. CASE \E p \in Procs : Step(p) \/ Kill(p)
    BY <1>1, <2>1, StepCopied, OthersCopied
  <2>2. CASE ~\E p \in Procs : Step(p) \/ Kill(p)
    <3>1. UNCHANGED <<pc, pos, op, raced, fd, stage>>
      BY <2>2 DEF Next, Read, Plant, vars, fs
    <3>2. \A i \in Inodes : inode[i].type # "none" => inode'[i].data = inode[i].data
      <4>1. CASE Read
        BY <1>1, <4>1 DEF Read, Vetted, TypeOK, InodeRecord
      <4>2. ASSUME Plant, NEW i \in Inodes, inode[i].type # "none" PROVE inode'[i].data = inode[i].data
        <5>1. CASE inode' = inode
          BY <5>1
        <5>2. CASE inode' # inode
          <6>1. PICK j \in Inodes, type \in {"regular", "fifo", "link"} :
                  inode[j] = Free /\ inode' = [inode EXCEPT ![j] = Planted(type)]
            BY <4>2, <5>2 DEF Plant
          <6>2. i # j
            BY <4>2, <6>1 DEF Free
          <6>3. QED
            BY <6>1, <6>2
        <5>3. QED
          BY <5>1, <5>2
      <4>3. QED
        BY <2>2, <4>1, <4>2 DEF Next, vars, fs
    <3>3. SUFFICES ASSUME CopiedAt(q), pc[q] \in {"fill", "rename"}, Copied(q) PROVE Copied(q)'
      BY <3>1 DEF CopiedAt
    <3>4. /\ stage[q].file \in Inodes /\ inode[stage[q].file].type = "regular"
          /\ fd[q] \in Inodes /\ inode[fd[q]].type = "regular"
      BY <1>1, <3>3 DEF Vetted, VettedAt, Early, Ended, Sound
    <3>5. QED
      BY <3>1, <3>2, <3>3, <3>4 DEF Copied, Source
  <2>3. QED
    BY <2>1, <2>2
<1>4. QED
  BY <1>1, <1>2, <1>3

\* The file never gets to its name half made: what a rename puts there is
\* closed to others and is the whole content, or, if the call met no other, all
\* of the log the copying process had vetted (config.rs:1130,
\* write_via_private_dir and append_via_private_dir).
THEOREM Arrives == Spec => ArrivesWhole
<1> DEFINE Comes(p) ==
      (stage[p].file # Nil /\ target' = stage[p].file) =>
        /\ inode[target'].tight /\ ~inode[target'].acl
        /\ \/ op[p] = "write" /\ inode[target'].data = Whole(p)
           \/ op[p] = "append" /\ (~raced[p] => inode[target'].data = inode[fd[p]].data)
<1>1. ASSUME Arriving, [Next]_vars, NEW p \in Procs PROVE Comes(p)
  <2> SUFFICES ASSUME stage[p].file # Nil, target' = stage[p].file PROVE Comes(p)
    OBVIOUS
  <2> USE <1>1 DEF Arriving, Sealed, Vetted
  <2>1. target # stage[p].file /\ stage[p].file \in Inodes /\ inode[stage[p].file].type = "regular"
    BY DEF Placed, ApartAt, VettedAt, Sound
  <2>2. Rename(p)
    <3>1. ASSUME NEW q \in Procs, Step(q) \/ Kill(q) PROVE Rename(p)
      <4>1. CASE Steady \/ OpenExisting(q) \/ CreateStaged(q)
        BY <2>1, <4>1 DEF Steady, OpenExisting, CreateStaged, fs
      <4>2. CASE OpenCreate(q)
        BY <2>1, <4>2 DEF OpenCreate, Free
      <4>3. CASE Rename(q)
        BY <4>3 DEF Rename, Placed, ApartAt
      <4>4. QED
        BY <3>1, <4>1, <4>2, <4>3, StepSteady
    <3>2. CASE Read \/ Plant
      BY <2>1, <3>2 DEF Read, Plant, Free
    <3>3. QED
      BY <2>1, <3>1, <3>2 DEF Next, vars, fs
  <2>3. pc[p] = "rename"
    BY <2>2 DEF Rename
  <2>4. inode[target'].tight /\ ~inode[target'].acl /\ op[p] \in {"write", "append"}
    BY <2>3 DEF KnowsAt, Closed, BegunAt, Staging, TypeOK, Ops
  <2>5. (op[p] = "append" => ~raced[p]) => inode[target'].data = Source(p)
    <3>1. SUFFICES ASSUME op[p] = "append" => ~raced[p] PROVE inode[target'].data = Source(p)
      OBVIOUS
    <3>2. Copied(p)
      BY <2>3, <3>1 DEF CopiedAt
    <3>3. inode[target'].data \in Seq(Chunks) /\ Source(p) \in Seq(Chunks)
      BY <2>1, <2>3, SourceTyped DEF TypeOK, InodeRecord, VettedAt, Early, Ended
    <3>4. /\ Len(inode[target'].data) = Len(Source(p))
          /\ \A k \in 1 .. Len(Source(p)) : inode[target'].data[k] = Source(p)[k]
      BY <2>3, <3>2 DEF Copied
    <3>5. QED
      BY <3>3, <3>4, SameSequence
  <2>6. QED
    BY <2>4, <2>5 DEF Source, Whole
<1>2. Arriving /\ [Next]_vars =>
        [\A p \in Procs :
           (stage[p].file # Nil /\ target' = stage[p].file) =>
             /\ inode[target'].tight /\ ~inode[target'].acl
             /\ \/ op[p] = "write" /\ inode[target'].data = Whole(p)
                \/ op[p] = "append" /\ (~raced[p] => inode[target'].data = inode[fd[p]].data)]_vars
  BY <1>1
<1>3. QED
  BY <1>2, InitArriving, NextArriving, PTL DEF Spec, ArrivesWhole

-----------------------------------------------------------------------------
(***************************************************************************)
(* What a call of a process alone leaves behind.  It meets no other, and   *)
(* nobody else may put a file in the place of one of this account's: from  *)
(* the open on the file at the path is the one it has vetted (or has       *)
(* staged, once it is renamed), and holds what was there and as much of    *)
(* what is to come after it as it has written.                             *)
(***************************************************************************)
\* The first chunks of a process.
First(p, n) == [k \in 1 .. n |-> <<p, k>>]
\* What may be there before its own.
Bases == {<<>>, Before}

CallAt(p) ==
  /\ res[p] = "ok" => pc[p] \in {"sweepFile", "sweepDir", "done", "dead"}
  /\ pc[p] \in {"truncate", "write"} => op[p] = "write"
  /\ pc[p] = "append" => op[p] = "append"
  /\ pc[p] = "truncate" => pos[p] = 0

Finished(p) ==
  /\ target # Nil /\ Closed(target)
  /\ op[p] = "write" => inode[target].data = Whole(p)
  /\ op[p] = "append" => inode[target].data \in {Before \o Whole(p), Whole(p)}

Copying == {"tighten", "strip", "truncate", "mkdir", "opendir", "create", "fill", "rename"}
LoneAt(p) ==
  LET data == inode[target].data
  IN  /\ pc[p] \in {"idle", "open"} /\ target # Nil /\ inode[target].mine => data = Before
      /\ pc[p] = "vet" /\ inode[fd[p]].mine => target = fd[p] /\ data \in Bases
      /\ pc[p] \in Copying => target = fd[p] /\ data \in Bases
      /\ pc[p] = "write" => target = fd[p] /\ data = First(p, pos[p])
      /\ pc[p] = "append" => target = fd[p] /\ \E base \in Bases : data = base \o First(p, pos[p])
      /\ pc[p] \in {"sweepFile", "sweepDir"} /\ res[p] = "ok" =>
           /\ target = fd[p] /\ pos[p] = 0
           /\ op[p] = "write" => data = Whole(p)
           /\ op[p] = "append" => data \in Bases
      /\ pc[p] = "done" /\ res[p] = "ok" => Finished(p)

Lone == /\ Arriving
        /\ \A p \in Procs : CallAt(p) /\ (MetNobody(p) => LoneAt(p))

\* What was there is a sequence of chunks, and the first chunks of a process are.
LEMMA BasesTyped == Bases \subseteq Seq(Chunks)
<1>1. \A k \in 1 .. OldChunks : <<Nil, k>> \in Chunks
  BY DEF Chunks
<1>2. Before \in Seq(Chunks)
  BY <1>1 DEF Before
<1>3. QED
  BY <1>2, EmptyTyped DEF Bases

\* They grow by one, at their end or put there.
LEMMA FirstGrows ==
  ASSUME NEW p \in Procs, NEW n \in Nat
  PROVE  /\ First(p, n) \in Seq(Chunks) /\ Len(First(p, n)) = n
         /\ First(p, 0) = <<>> /\ First(p, NewChunks) = Whole(p)
         /\ Append(First(p, n), <<p, n + 1>>) = First(p, n + 1)
         /\ Put(First(p, n), n, <<p, n + 1>>) = First(p, n + 1)
<1>1. ASSUME NEW m \in Nat
      PROVE  /\ First(p, m) \in Seq(Chunks) /\ Len(First(p, m)) = m
             /\ \A k \in 1 .. m : First(p, m)[k] = <<p, k>>
  <2>1. \A k \in 1 .. m : <<p, k>> \in Chunks
    BY DEF Chunks
  <2>2. QED
    BY <2>1 DEF First
<1>2. First(p, 0) = <<>>
  <2>1. First(p, 0) \in Seq(Chunks) /\ Len(First(p, 0)) = 0
    BY <1>1
  <2>2. QED
    BY <2>1
<1>3. First(p, NewChunks) = Whole(p)
  BY DEF First, Whole
<1>4. <<p, n + 1>> \in Chunks
  BY DEF Chunks
<1>5. Append(First(p, n), <<p, n + 1>>) = First(p, n + 1)
  <2>1. PICK s : s = First(p, n)
    OBVIOUS
  <2>2. PICK t : t = First(p, n + 1)
    OBVIOUS
  <2>3. PICK c : c = <<p, n + 1>>
    OBVIOUS
  <2>4. /\ s \in Seq(Chunks) /\ Len(s) = n /\ c \in Chunks
        /\ t \in Seq(Chunks) /\ Len(t) = n + 1 /\ t[n + 1] = c
        /\ \A k \in 1 .. n : s[k] = t[k]
    <3>1. PICK m \in Nat : m = n + 1
      OBVIOUS
    <3>2. /\ t \in Seq(Chunks) /\ Len(t) = m /\ \A k \in 1 .. m : t[k] = <<p, k>>
      BY <1>1, <2>2, <3>1
    <3>3. s \in Seq(Chunks) /\ Len(s) = n /\ \A k \in 1 .. n : s[k] = <<p, k>>
      BY <1>1, <2>1
    <3>4. m \in 1 .. m /\ \A k \in 1 .. n : k \in 1 .. m
      BY <3>1
    <3>5. QED
      BY <1>4, <2>3, <3>1, <3>2, <3>3, <3>4
  <2>5. /\ Append(s, c) \in Seq(Chunks) /\ Len(Append(s, c)) = n + 1
        /\ \A k \in 1 .. n + 1 : Append(s, c)[k] = t[k]
    BY <2>4
  <2>6. Append(s, c) = t
    BY <2>4, <2>5, SameSequence
  <2>7. QED
    BY <2>1, <2>2, <2>3, <2>6
<1>6. Put(First(p, n), n, <<p, n + 1>>) = First(p, n + 1)
  <2>1. PICK s : s = First(p, n)
    OBVIOUS
  <2>2. Len(s) = n /\ \A k \in 1 .. n : s[k] = <<p, k>>
    BY <1>1, <2>1
  <2>3. Put(s, n, <<p, n + 1>>) = [k \in 1 .. n + 1 |->
          IF k = n + 1 THEN <<p, n + 1>> ELSE IF k <= Len(s) THEN s[k] ELSE <<Nil, 0>>]
    BY <2>2 DEF Put
  <2>4. \A k \in 1 .. n + 1 :
          (IF k = n + 1 THEN <<p, n + 1>> ELSE IF k <= Len(s) THEN s[k] ELSE <<Nil, 0>>) = <<p, k>>
    BY <2>2
  <2>5. QED
    BY <2>1, <2>3, <2>4 DEF First
<1>7. QED
  BY <1>1, <1>2, <1>3, <1>5, <1>6

\* A chunk after the second of two sequences is after both.
LEMMA AppendAfter ==
  ASSUME NEW s \in Seq(Chunks), NEW t \in Seq(Chunks), NEW x \in Chunks
  PROVE  Append(s \o t, x) = s \o Append(t, x)
<1>1. PICK u : u = s \o t
  OBVIOUS
<1>2. PICK v : v = Append(t, x)
  OBVIOUS
<1>3. /\ u \in Seq(Chunks) /\ v \in Seq(Chunks)
      /\ Len(u) = Len(s) + Len(t) /\ Len(v) = Len(t) + 1 /\ Len(s) \in Nat /\ Len(t) \in Nat
      /\ \A k \in 1 .. Len(u) : u[k] = IF k <= Len(s) THEN s[k] ELSE t[k - Len(s)]
      /\ \A k \in 1 .. Len(v) : v[k] = IF k <= Len(t) THEN t[k] ELSE x
  BY <1>1, <1>2
<1>4. Append(u, x) \in Seq(Chunks) /\ s \o v \in Seq(Chunks) /\ Len(Append(u, x)) = Len(s \o v)
      /\ Len(s \o v) = Len(s) + Len(v)
  <2>1. Append(u, x) \in Seq(Chunks) /\ Len(Append(u, x)) = Len(u) + 1
    BY <1>3
  <2>2. s \o v \in Seq(Chunks) /\ Len(s \o v) = Len(s) + Len(v)
    <3>1. s \in Seq(Chunks) /\ v \in Seq(Chunks)
      BY <1>3
    <3>2. QED
      BY <3>1
  <2>3. QED
    BY <1>3, <2>1, <2>2
<1>5. ASSUME NEW k \in 1 .. Len(s \o v) PROVE Append(u, x)[k] = (s \o v)[k]
  <2>1. Len(s \o v) = Len(u) + 1 /\ Len(u) \in Nat /\ k \in 1 .. Len(u) + 1
    BY <1>3, <1>4
  <2>2. CASE k <= Len(s)
    BY <1>3, <2>1, <2>2
  <2>3. CASE k > Len(s) /\ k <= Len(u)
    BY <1>3, <2>1, <2>3
  <2>4. CASE k = Len(u) + 1
    BY <1>3, <2>1, <2>4
  <2>5. QED
    BY <1>3, <2>1, <2>2, <2>3, <2>4
<1>6. QED
  BY <1>1, <1>2, <1>4, <1>5, SameSequence

\* What is appended to what was written after a base is.
LEMMA BaseGrows ==
  ASSUME NEW base \in Seq(Chunks), NEW p \in Procs, NEW n \in Nat
  PROVE  /\ Append(base \o First(p, n), <<p, n + 1>>) = base \o First(p, n + 1)
         /\ base \o First(p, 0) = base
<1>1. <<p, n + 1>> \in Chunks
  BY DEF Chunks
<1>2. PICK s : s = First(p, n)
  OBVIOUS
<1>3. PICK c : c = <<p, n + 1>>
  OBVIOUS
<1>4. s \in Seq(Chunks) /\ c \in Chunks /\ Append(s, c) = First(p, n + 1)
  BY <1>1, <1>2, <1>3, FirstGrows
<1>5. Append(base \o s, c) = base \o Append(s, c)
  <2>1. base \in Seq(Chunks) /\ s \in Seq(Chunks) /\ c \in Chunks
    BY <1>4
  <2>2. QED
    BY <2>1, AppendAfter
<1>6. base \o <<>> = base
  OBVIOUS
<1>7. QED
  BY <1>2, <1>3, <1>4, <1>5, <1>6, FirstGrows

\* What a call is for and what it has returned go with where it is.
LEMMA CallStep ==
  ASSUME Vetted, NEW p \in Procs, Step(p) \/ Kill(p), BegunAt(p), CallAt(p)
  PROVE  CallAt(p)'
<1> USE DEF Vetted, TypeOK, Goto, Return, fs, CallAt
<1>1. CASE Begin(p) \/ OpenExisting(p) \/ OpenCreate(p) \/ Vet(p) \/ Tighten(p)
  BY <1>1 DEF Begin, OpenExisting, OpenCreate, Vet, Tighten
<1>2. CASE Strip(p)
  <2>1. /\ pc[p] = "strip" /\ op' = op /\ pos' = pos /\ pos[p] = 0 /\ res[p] # "ok"
        /\ op[p] \in Ops
    BY <1>2 DEF Strip, BegunAt, Fresh
  <2>2. PICK removed : pc'[p] = AfterStrip(op[p], removed)
    BY <1>2 DEF Strip
  <2>3. /\ pc'[p] = "truncate" => op[p] = "write"
        /\ pc'[p] = "append" => op[p] = "append"
        /\ pc'[p] # "write" /\ (op[p] = "open" => pc'[p] = "done")
    BY <2>1, <2>2 DEF AfterStrip, Ops
  <2>4. op[p] # "open" => res' = res
    BY <1>2 DEF Strip
  <2>5. QED
    BY <2>1, <2>3, <2>4
<1>3. CASE Truncate(p) \/ Write(p)
  BY <1>3 DEF Truncate, Write
<1>4. CASE AppendLine(p) \/ Finish(p)
  BY <1>4 DEF AppendLine, Finish
<1>5. CASE Mkdir(p) \/ MkdirGivesUp(p) \/ OpenDir(p)
  BY <1>5 DEF Mkdir, MkdirGivesUp, OpenDir
<1>10. CASE CreateStaged(p)
  <2>1. /\ pc[p] = "create" /\ op' = op /\ pos' = pos
        /\ \/ pc' = [pc EXCEPT ![p] = "sweepFile"] /\ res' = [res EXCEPT ![p] = "err"]
           \/ pc' = [pc EXCEPT ![p] = "fill"] /\ res' = res
    BY <1>10 DEF CreateStaged
  <2>2. QED
    BY <2>1
<1>6. CASE Fill(p) \/ Filled(p) \/ Rename(p)
  BY <1>6 DEF Fill, Filled, Rename
<1>7. CASE SweepFile(p) \/ SweepDir(p)
  BY <1>7 DEF SweepFile, SweepDir
<1>8. CASE Fail(p) \/ Kill(p)
  BY <1>8 DEF Fail, Kill, Active, Busy
<1>9. QED
  BY <1>1, <1>2, <1>3, <1>4, <1>5, <1>6, <1>7, <1>8, <1>10 DEF Step, Open, InPlace, Staged

\* The descriptor of a call that copies or writes is of a file it has vetted,
\* which is not free and not the one it stages.
LEMMA Vetting ==
  ASSUME Arriving, NEW p \in Procs, pc[p] \notin Early \cup Ended
  PROVE  /\ fd[p] \in Inodes /\ inode[fd[p]].type = "regular" /\ inode[fd[p]].mine
         /\ fd[p] # Nil /\ inode[fd[p]] # Free
         /\ inode[fd[p]] \in InodeRecord
         /\ pc[p] = "fill" => stage[p].file \in Inodes /\ stage[p].file # fd[p]
<1>1. VettedAt(p) /\ TypeOK /\ ApartAt(p)
  BY DEF Arriving, Sealed, Vetted, Placed
<1>2. fd[p] \in Inodes /\ Sound(fd[p])
  BY <1>1 DEF VettedAt
<1>3. inode[fd[p]].type = "regular" /\ inode[fd[p]].mine
  BY <1>2 DEF Sound
<1>4. inode[fd[p]] # Free
  BY <1>3 DEF Free
<1>5. pc[p] = "fill" => stage[p].file \in Inodes /\ stage[p].file # fd[p]
  BY <1>1 DEF VettedAt, ApartAt, TypeOK
<1>6. QED
  BY <1>1, <1>2, <1>3, <1>4, <1>5 DEF TypeOK

\* What a rename puts at the path is all of what was to be copied.
LEMMA RenamedIs ==
  ASSUME Arriving, NEW p \in Procs, pc[p] = "rename", ~raced[p]
  PROVE  /\ stage[p].file \in Inodes
         /\ op[p] = "write" => inode[stage[p].file].data = Whole(p)
         /\ op[p] = "append" => inode[stage[p].file].data = inode[fd[p]].data
<1> USE DEF Arriving, Sealed, Vetted
<1>1. stage[p].file \in Inodes /\ fd[p] \in Inodes
  BY DEF VettedAt, Early, Ended
<1>2. Copied(p)
  BY DEF CopiedAt
<1>3. inode[stage[p].file].data \in Seq(Chunks) /\ Source(p) \in Seq(Chunks)
  BY <1>1, SourceTyped DEF TypeOK, InodeRecord
<1>4. /\ Len(inode[stage[p].file].data) = Len(Source(p))
      /\ \A k \in 1 .. Len(Source(p)) : inode[stage[p].file].data[k] = Source(p)[k]
  BY <1>2 DEF Copied
<1>5. inode[stage[p].file].data = Source(p)
  BY <1>3, <1>4, SameSequence
<1>6. QED
  BY <1>1, <1>5 DEF Source, Whole

\* The open, of a call alone.
LEMMA LoneOpen ==
  ASSUME Arriving, NEW p \in Procs, Open(p), CallAt(p), LoneAt(p)
  PROVE  LoneAt(p)'
<1> DEFINE data == inode[target].data
<1>0. /\ pc \in [Procs -> Pcs] /\ op \in [Procs -> Ops] /\ fd \in [Procs -> Inodes \cup {Nil}]
      /\ res \in [Procs -> {"none", "ok", "err"}] /\ inode \in [Inodes -> InodeRecord]
      /\ target \in Inodes \cup {Nil} /\ TypeOK /\ Vetted
  BY DEF Arriving, Sealed, Vetted, TypeOK
<1>1. CASE Begin(p)
  <2>1. pc[p] = "idle" /\ pc'[p] = "open" /\ UNCHANGED <<inode, target>>
    BY <1>0, <1>1 DEF Begin, Goto, fs
  <2>2. QED
    BY <2>1 DEF LoneAt, Copying
<1>2. CASE OpenExisting(p)
  <2>1. /\ pc[p] = "open" /\ pc'[p] = "vet" /\ UNCHANGED <<inode, target>>
        /\ target # Nil /\ fd'[p] = target
    BY <1>0, <1>2 DEF OpenExisting, Goto, fs
  <2>2. inode[target].mine => data \in Bases
    BY <2>1 DEF LoneAt, Bases
  <2>3. QED
    BY <2>1, <2>2 DEF LoneAt, Copying
<1>3. CASE OpenCreate(p)
  <2>1. PICK i \in Inodes : inode' = [inode EXCEPT ![i] = Created(inherits)] /\ target' = i
                            /\ fd' = [fd EXCEPT ![p] = i]
    BY <1>3 DEF OpenCreate
  <2>2. pc'[p] = "vet" /\ fd'[p] = i /\ inode'[i] = Created(inherits) /\ target' = i
    BY <1>0, <1>3, <2>1 DEF OpenCreate, Goto
  <2>3. inode'[target'].data = <<>>
    BY <2>2 DEF Created, Free
  <2>4. QED
    BY <2>2, <2>3 DEF LoneAt, Copying, Bases
<1>4. CASE Vet(p)
  <2>1. pc[p] = "vet" /\ UNCHANGED <<inode, target, fd>>
    BY <1>4 DEF Vet, fs
  <2>2. \/ inode[fd[p]].mine /\ pc'[p] = "tighten"
        \/ pc'[p] = "done" /\ res'[p] = "err"
    BY <1>0, <1>4 DEF Vet, Acceptable, Goto, Return
  <2>3. QED
    BY <2>1, <2>2 DEF LoneAt, Copying
<1>5. CASE Tighten(p)
  <2>1. /\ pc[p] = "tighten" /\ pc'[p] = "strip" /\ UNCHANGED <<target, fd>>
        /\ inode' = [inode EXCEPT ![fd[p]] = [@ EXCEPT !.tight = TRUE]]
    BY <1>0, <1>5 DEF Tighten, Goto
  <2>2. fd[p] \in Inodes /\ inode[fd[p]] \in InodeRecord /\ target = fd[p] /\ data \in Bases
    BY <2>1, Vetting DEF LoneAt, Copying, Early, Ended
  <2>3. inode'[target].data = data
    BY <1>0, <2>1, <2>2 DEF InodeRecord
  <2>4. QED
    BY <2>1, <2>2, <2>3 DEF LoneAt, Copying
<1>6. CASE Strip(p)
  <2>1. /\ pc[p] = "strip" /\ UNCHANGED <<target, fd, op, pos>>
        /\ inode' = [inode EXCEPT ![fd[p]] = [@ EXCEPT !.acl = FALSE]]
    BY <1>6 DEF Strip
  <2>2. /\ fd[p] \in Inodes /\ inode[fd[p]] \in InodeRecord /\ inode[fd[p]].mine
        /\ target = fd[p] /\ data \in Bases /\ inode[fd[p]].tight /\ pos[p] = 0 /\ target # Nil
    BY <1>0, <2>1, Vetting
    DEF LoneAt, Copying, Early, Ended, Arriving, Sealed, KnowsAt, BegunAt, Fresh
  <2>3. /\ inode'[target].data = data /\ inode'[target].mine /\ inode'[target].tight
        /\ ~inode'[target].acl
    BY <1>0, <2>1, <2>2 DEF InodeRecord
  <2>4. PICK removed : pc'[p] = AfterStrip(op[p], removed)
    BY <1>0, <1>6 DEF Strip, Goto
  <2>5. \/ pc'[p] = "done" /\ op[p] = "open"
        \/ pc'[p] \in {"mkdir", "truncate"}
        \/ pc'[p] = "append"
    BY <1>0, <2>4 DEF AfterStrip, Ops
  <2>6. CASE pc'[p] = "done" /\ op[p] = "open"
    <3>1. Finished(p)'
      BY <2>1, <2>2, <2>3, <2>6 DEF Finished, Closed
    <3>2. QED
      BY <2>6, <3>1 DEF LoneAt, Copying
  <2>7. CASE pc'[p] \in {"mkdir", "truncate"}
    BY <2>1, <2>2, <2>3, <2>7 DEF LoneAt, Copying
  <2>8. CASE pc'[p] = "append"
    <3>1. data = data \o First(p, 0)
      BY <2>2, BasesTyped, BaseGrows
    <3>2. inode'[target'].data = data \o First(p, pos'[p]) /\ target' = fd'[p]
      BY <2>1, <2>2, <2>3, <3>1
    <3>3. QED
      BY <2>2, <2>8, <3>2 DEF LoneAt, Copying
  <2>9. QED
    BY <2>5, <2>6, <2>7, <2>8
<1>7. QED
  BY <1>1, <1>2, <1>3, <1>4, <1>5, <1>6 DEF Open

\* Writing in place, of a call alone.
LEMMA LoneInPlace ==
  ASSUME Arriving, NEW p \in Procs, InPlace(p), CallAt(p), LoneAt(p)
  PROVE  LoneAt(p)'
<1> DEFINE data == inode[target].data
<1>0. /\ pc \in [Procs -> Pcs] /\ op \in [Procs -> Ops] /\ fd \in [Procs -> Inodes \cup {Nil}]
      /\ pos \in [Procs -> Nat]
      /\ res \in [Procs -> {"none", "ok", "err"}] /\ inode \in [Inodes -> InodeRecord]
  BY DEF Arriving, Sealed, Vetted, TypeOK
<1>1. pc[p] \in {"truncate", "write", "append"} /\ UNCHANGED <<target, fd, op>>
  BY DEF InPlace, Truncate, Write, AppendLine, Finish, fs
<1>2. /\ fd[p] \in Inodes /\ inode[fd[p]] \in InodeRecord /\ fd[p] # Nil
      /\ target = fd[p] /\ Closed(target)
  BY <1>1, Vetting DEF LoneAt, Copying, Early, Ended, Arriving, Sealed, KnowsAt, Own
<1>3. CASE Truncate(p)
  <2>1. /\ pc'[p] = "write" /\ pos'[p] = 0
        /\ inode' = [inode EXCEPT ![fd[p]] = [@ EXCEPT !.data = <<>>]]
    BY <1>0, <1>3 DEF Truncate, Goto, CallAt
  <2>2. inode'[target].data = First(p, pos'[p])
    BY <1>0, <1>2, <2>1, FirstGrows DEF InodeRecord
  <2>3. QED
    BY <1>1, <1>2, <2>1, <2>2 DEF LoneAt, Copying
<1>4. CASE Write(p)
  <2>1. /\ pc[p] = "write" /\ pc'[p] = "write" /\ pos'[p] = pos[p] + 1 /\ data = First(p, pos[p])
    BY <1>0, <1>4 DEF Write, LoneAt
  <2>2. inode'[target].data = Put(data, pos[p], <<p, pos[p] + 1>>)
    <3>1. PICK d : d = Put(inode[fd[p]].data, pos[p], <<p, pos[p] + 1>>)
      OBVIOUS
    <3>2. inode' = [inode EXCEPT ![fd[p]].data = d]
      BY <1>4, <3>1 DEF Write
    <3>3. inode'[fd[p]].data = d
      BY <1>0, <1>2, <3>2 DEF InodeRecord
    <3>4. QED
      BY <1>2, <3>1, <3>3
  <2>3. pos[p] \in Nat
    BY <1>0
  <2>4. inode'[target].data = First(p, pos'[p])
    BY <2>1, <2>2, <2>3, FirstGrows
  <2>5. QED
    BY <1>1, <1>2, <2>1, <2>4 DEF LoneAt, Copying
<1>5. CASE AppendLine(p)
  <2>1. pc[p] = "append" /\ pc'[p] = "append" /\ pos'[p] = pos[p] + 1
    BY <1>0, <1>5 DEF AppendLine
  <2>2. PICK base \in Bases : data = base \o First(p, pos[p])
    BY <2>1 DEF LoneAt
  <2>3. inode'[target].data = Append(data, <<p, pos[p] + 1>>)
    <3>1. PICK d : d = Append(inode[fd[p]].data, <<p, pos[p] + 1>>)
      OBVIOUS
    <3>2. inode' = [inode EXCEPT ![fd[p]].data = d]
      BY <1>5, <3>1 DEF AppendLine
    <3>3. inode'[fd[p]].data = d
      BY <1>0, <1>2, <3>2 DEF InodeRecord
    <3>4. QED
      BY <1>2, <3>1, <3>3
  <2>4. base \in Seq(Chunks) /\ pos[p] \in Nat
    BY <1>0, BasesTyped
  <2>5. inode'[target].data = base \o First(p, pos'[p])
    <3>1. Append(base \o First(p, pos[p]), <<p, pos[p] + 1>>) = base \o First(p, pos[p] + 1)
      BY <2>4, BaseGrows
    <3>2. QED
      BY <2>1, <2>2, <2>3, <3>1
  <2>6. QED
    BY <1>1, <1>2, <2>1, <2>5 DEF LoneAt, Copying
<1>6. CASE Finish(p)
  <2>1. /\ pc[p] \in {"write", "append"} /\ pos[p] = NewChunks /\ pc'[p] = "done" /\ UNCHANGED inode
    BY <1>0, <1>6 DEF Finish, Goto, fs
  <2>2. op[p] = "write" => data = Whole(p)
    <3>1. op[p] = "write" => pc[p] = "write"
      BY <2>1 DEF CallAt
    <3>2. QED
      BY <2>1, <3>1, FirstGrows DEF LoneAt
  <2>3. op[p] = "append" => data \in {Before \o Whole(p), Whole(p)}
    <3>1. SUFFICES ASSUME op[p] = "append" PROVE data \in {Before \o Whole(p), Whole(p)}
      OBVIOUS
    <3>2. pc[p] = "append"
      BY <2>1, <3>1 DEF CallAt
    <3>3. PICK base \in Bases : data = base \o First(p, pos[p])
      BY <3>2 DEF LoneAt
    <3>4. First(p, pos[p]) = Whole(p) /\ Whole(p) \in Seq(Chunks)
      BY <2>1, FirstGrows
    <3>5. <<>> \o Whole(p) = Whole(p)
      BY <3>4
    <3>6. data = base \o Whole(p)
      BY <3>3, <3>4
    <3>7. QED
      BY <3>5, <3>6 DEF Bases
  <2>4. Finished(p)'
    BY <1>1, <1>2, <2>1, <2>2, <2>3 DEF Finished, Closed, Whole
  <2>5. QED
    BY <2>1, <2>4 DEF LoneAt, Copying
<1>7. QED
  BY <1>3, <1>4, <1>5, <1>6 DEF InPlace

\* Staging, of a call alone.
LEMMA LoneStaged ==
  ASSUME Arriving, NEW p \in Procs, Staged(p), CallAt(p), LoneAt(p), ~raced[p]
  PROVE  LoneAt(p)'
<1> DEFINE data == inode[target].data
<1>0. /\ pc \in [Procs -> Pcs] /\ op \in [Procs -> Ops] /\ fd \in [Procs -> Inodes \cup {Nil}]
      /\ pos \in [Procs -> Nat] /\ stage \in [Procs -> StageRecord]
      /\ res \in [Procs -> {"none", "ok", "err"}] /\ inode \in [Inodes -> InodeRecord]
  BY DEF Arriving, Sealed, Vetted, TypeOK
<1>1. CASE Mkdir(p) \/ OpenDir(p) \/ Filled(p)
  <2>1. /\ pc[p] \in Copying /\ pc'[p] \in {"mkdir", "opendir", "create", "rename"}
        /\ UNCHANGED <<target, fd, inode>>
    BY <1>0, <1>1 DEF Mkdir, OpenDir, Filled, Goto, fs, Copying
  <2>2. QED
    BY <2>1 DEF LoneAt, Copying
<1>2. CASE MkdirGivesUp(p)
  <2>1. pc'[p] = "done" /\ res'[p] = "err"
    BY <1>0, <1>2 DEF MkdirGivesUp, Goto, Return
  <2>2. QED
    BY <2>1 DEF LoneAt, Copying
<1>3. CASE CreateStaged(p)
  <2>1. PICK i \in Inodes : inode[i] = Free /\ inode' = [inode EXCEPT ![i] = Created(FALSE)]
    BY <1>3 DEF CreateStaged
  <2>2. /\ pc[p] = "create" /\ UNCHANGED <<target, fd>>
        /\ pc'[p] = "fill" \/ (pc'[p] = "sweepFile" /\ res'[p] = "err")
    BY <1>0, <1>3 DEF CreateStaged, Goto, Return
  <2>3. target = fd[p] /\ data \in Bases /\ inode[fd[p]] # Free /\ fd[p] \in Inodes
    BY <2>2, Vetting DEF LoneAt, Copying, Early, Ended
  <2>4. inode'[target] = inode[target]
    BY <1>0, <2>1, <2>3
  <2>5. QED
    BY <2>2, <2>3, <2>4 DEF LoneAt, Copying
<1>4. CASE Fill(p)
  <2>1. /\ pc[p] = "fill" /\ pc' = pc /\ UNCHANGED <<target, fd>>
        /\ \E x : inode' = [inode EXCEPT ![stage[p].file] = x]
    BY <1>4 DEF Fill
  <2>2. target = fd[p] /\ data \in Bases /\ stage[p].file # fd[p] /\ fd[p] \in Inodes
    BY <2>1, Vetting DEF LoneAt, Copying, Early, Ended
  <2>3. inode'[target] = inode[target]
    BY <1>0, <2>1, <2>2
  <2>4. QED
    BY <2>1, <2>2, <2>3 DEF LoneAt, Copying
<1>5. CASE Rename(p)
  <2>1. /\ pc[p] = "rename" /\ pc'[p] = "sweepFile" /\ pos'[p] = 0 /\ UNCHANGED <<inode, op>>
        /\ target' = stage[p].file /\ fd'[p] = stage[p].file
    BY <1>0, <1>5 DEF Rename, Goto
  <2>2. target = fd[p] /\ data \in Bases
    BY <2>1 DEF LoneAt, Copying
  <2>3. /\ op[p] = "write" => inode'[target'].data = Whole(p)
        /\ op[p] = "append" => inode'[target'].data \in Bases
    BY <2>1, <2>2, RenamedIs
  <2>4. Whole(p)' = Whole(p)
    BY DEF Whole
  <2>5. QED
    BY <2>1, <2>3, <2>4 DEF LoneAt, Copying
<1>6. CASE SweepFile(p)
  <2>1. /\ pc[p] = "sweepFile" /\ pc'[p] = "sweepDir" /\ UNCHANGED <<inode, target, fd, op, pos, res>>
    BY <1>0, <1>6 DEF SweepFile, Goto
  <2>2. QED
    BY <2>1 DEF LoneAt, Copying, Whole
<1>7. CASE SweepDir(p) /\ op[p] = "append" /\ res[p] = "ok"
  <2>1. /\ pc[p] = "sweepDir" /\ pc'[p] = "append" /\ UNCHANGED <<inode, target, fd, op, pos>>
    BY <1>0, <1>7 DEF SweepDir, Goto
  <2>2. target = fd[p] /\ pos[p] = 0 /\ data \in Bases
    BY <1>7, <2>1 DEF LoneAt
  <2>3. data = data \o First(p, pos[p])
    BY <2>2, BasesTyped, BaseGrows
  <2>4. QED
    BY <2>1, <2>2, <2>3 DEF LoneAt, Copying
<1>8. CASE SweepDir(p) /\ ~(op[p] = "append" /\ res[p] = "ok")
  <2>1. /\ pc[p] = "sweepDir" /\ pc'[p] = "done" /\ UNCHANGED <<inode, target, fd, op, pos, res>>
    BY <1>0, <1>8 DEF SweepDir, Goto
  <2>2. ASSUME res[p] = "ok" PROVE Finished(p)'
    <3>1. target = fd[p] /\ (op[p] = "write" => data = Whole(p)) /\ op[p] # "append"
      BY <1>8, <2>1, <2>2 DEF LoneAt
    <3>2. Closed(target) /\ target # Nil
      BY <2>1, <2>2, <3>1, Vetting DEF Arriving, Sealed, KnowsAt, Own, Early, Ended
    <3>3. QED
      BY <2>1, <3>1, <3>2 DEF Finished, Closed, Whole
  <2>3. QED
    BY <2>1, <2>2 DEF LoneAt, Copying
<1>9. QED
  BY <1>1, <1>2, <1>3, <1>4, <1>5, <1>6, <1>7, <1>8 DEF Staged

\* A call that fails or is killed has not said it is done.
LEMMA LoneEnds ==
  ASSUME Vetted, NEW p \in Procs, Fail(p) \/ Kill(p)
  PROVE  LoneAt(p)'
<1> USE DEF Vetted, TypeOK
<1>1. CASE Fail(p)
  <2>1. pc'[p] \in {"sweepFile", "done"} /\ res'[p] = "err"
    BY <1>1 DEF Fail, Goto, Return
  <2>2. QED
    BY <2>1 DEF LoneAt, Copying
<1>2. CASE Kill(p)
  <2>1. pc'[p] = "dead"
    BY <1>2 DEF Kill, Goto
  <2>2. QED
    BY <2>1 DEF LoneAt, Copying
<1>3. QED
  BY <1>1, <1>2

\* Nobody else takes a file of this account's away, or changes what it holds.
LEMMA OthersLeave ==
  ASSUME Arriving, Read \/ Plant, target # Nil, inode[target].mine
  PROVE  /\ target' = target /\ inode'[target].data = inode[target].data
         /\ inode'[target].mine /\ inode'[target].tight = inode[target].tight
         /\ inode'[target].acl = inode[target].acl
<1>1. Read
  BY DEF Plant
<1>2. /\ target' = target /\ target \in Inodes /\ inode[target] \in InodeRecord
      /\ inode' = [inode EXCEPT ![target] = [@ EXCEPT !.reader = TRUE]]
      /\ inode \in [Inodes -> InodeRecord]
  BY <1>1 DEF Read, Arriving, Sealed, Vetted, TypeOK
<1>3. QED
  BY <1>2 DEF InodeRecord

\* So what they do is no matter to a call alone.
LEMMA LoneStays ==
  ASSUME Arriving, NEW p \in Procs, LoneAt(p), Read \/ Plant
  PROVE  LoneAt(p)'
<1> DEFINE data == inode[target].data
<1>0. /\ UNCHANGED <<pc, fd, op, pos, res>> /\ Vetted /\ TypeOK /\ Placed
      /\ target \in Inodes \cup {Nil} /\ fd[p] \in Inodes \cup {Nil}
  BY DEF Read, Plant, Arriving, Sealed, Vetted, TypeOK
<1>1. CASE target # Nil /\ inode[target].mine
  <2>1. /\ target' = target /\ inode'[target].data = data /\ inode'[target].mine
        /\ inode'[target].tight = inode[target].tight /\ inode'[target].acl = inode[target].acl
    BY <1>1, OthersLeave
  <2>2. Whole(p)' = Whole(p)
    BY DEF Whole
  <2>3. pc[p] = "vet" => fd[p] \in Inodes /\ (inode'[fd[p]].mine => inode[fd[p]].mine)
    <3>1. SUFFICES ASSUME pc[p] = "vet"
                   PROVE  fd[p] \in Inodes /\ (inode'[fd[p]].mine => inode[fd[p]].mine)
      OBVIOUS
    <3>2. fd[p] \in Inodes /\ fd[p] # Nil
      BY <1>0, <3>1 DEF Vetted, VettedAt
    <3>3. inode[fd[p]].type # "none"
      BY <1>0, <3>2 DEF Placed
    <3>4. QED
      BY <1>0, <3>2, <3>3, OthersKeep DEF Keeps
  <2>4. Finished(p) => Finished(p)'
    BY <1>0, <2>1, <2>2 DEF Finished, Closed
  <2>5. QED
    BY <1>0, <1>1, <2>1, <2>2, <2>3, <2>4 DEF LoneAt, Copying
<1>2. CASE ~(target # Nil /\ inode[target].mine)
  <2>1. pc[p] \in Copying \cup {"write", "append"} => target # fd[p]
    <3>1. pc[p] \in Copying \cup {"write", "append"} => fd[p] # Nil /\ inode[fd[p]].mine
      BY Vetting DEF Copying, Early, Ended
    <3>2. QED
      BY <1>2, <3>1
  <2>2. pc[p] \in {"sweepFile", "sweepDir"} => target # fd[p]
    BY <1>2, Vetting DEF Early, Ended
  <2>3. pc[p] = "vet" => ~(inode'[fd[p]].mine)
    <3>1. SUFFICES ASSUME pc[p] = "vet" PROVE ~(inode'[fd[p]].mine)
      OBVIOUS
    <3>2. fd[p] \in Inodes /\ fd[p] # Nil
      BY <1>0, <3>1 DEF Vetted, VettedAt
    <3>3. ~inode[fd[p]].mine
      BY <1>2, <3>1, <3>2 DEF LoneAt
    <3>4. inode[fd[p]].type # "none"
      BY <1>0, <3>2 DEF Placed
    <3>5. QED
      BY <1>0, <3>2, <3>3, <3>4, OthersKeep DEF Keeps
  <2>4. target' # Nil => ~inode'[target'].mine
    <3>1. CASE Read
      <4>1. target' = target /\ target \in Inodes /\ inode[target].type # "none"
        BY <1>0, <3>1 DEF Read, Placed
      <4>2. QED
        BY <1>0, <1>2, <4>1, OthersKeep DEF Keeps
    <3>2. CASE Plant /\ target = Nil
      <4>1. PICK i \in Inodes, type \in {"regular", "fifo", "link"} :
              inode' = [inode EXCEPT ![i] = Planted(type)] /\ target' = i
        BY <3>2 DEF Plant
      <4>2. ~Planted(type).mine
        BY DEF Planted, Free
      <4>3. QED
        BY <1>0, <4>1, <4>2 DEF TypeOK
    <3>3. CASE Plant /\ target # Nil
      BY <3>3 DEF Plant
    <3>4. QED
      BY <3>1, <3>2, <3>3
  <2>5. ~(pc[p] = "done" /\ res[p] = "ok")
    BY <1>2 DEF LoneAt, Finished, Closed
  <2>6. pc[p] \notin Copying \cup {"write", "append"}
    BY <2>1 DEF LoneAt
  <2>7. ~(pc[p] \in {"sweepFile", "sweepDir"} /\ res[p] = "ok")
    BY <2>2 DEF LoneAt
  <2>8. QED
    BY <1>0, <2>3, <2>4, <2>5, <2>6, <2>7 DEF LoneAt
<1>3. QED
  BY <1>1, <1>2

\* A process that has stepped has begun, ...
LEMMA StepBegins ==
  ASSUME TypeOK, NEW p \in Procs, Step(p) \/ Kill(p)
  PROVE  pc'[p] # "idle"
<1> USE DEF TypeOK, Goto
<1>1. CASE Begin(p) \/ OpenExisting(p) \/ OpenCreate(p) \/ Vet(p) \/ Tighten(p)
  BY <1>1 DEF Begin, OpenExisting, OpenCreate, Vet, Tighten
<1>2. CASE Strip(p)
  <2>1. op[p] \in Ops /\ \E removed : pc'[p] = AfterStrip(op[p], removed)
    BY <1>2 DEF Strip
  <2>2. QED
    BY <2>1 DEF AfterStrip, Ops
<1>3. CASE InPlace(p)
  BY <1>3 DEF InPlace, Truncate, Write, AppendLine, Finish
<1>4. CASE Mkdir(p) \/ MkdirGivesUp(p) \/ OpenDir(p) \/ CreateStaged(p) \/ Fill(p) \/ Filled(p)
  BY <1>4 DEF Mkdir, MkdirGivesUp, OpenDir, CreateStaged, Fill, Filled
<1>5. CASE Rename(p) \/ SweepFile(p) \/ SweepDir(p) \/ Fail(p) \/ Kill(p)
  BY <1>5 DEF Rename, SweepFile, SweepDir, Fail, Kill
<1>6. QED
  BY <1>1, <1>2, <1>3, <1>4, <1>5 DEF Step, Open, Staged

\* ... so a call that has met nobody after a step had met nobody before, and the
\* step was its own.
LEMMA LoneSteps ==
  ASSUME TypeOK, NEW p \in Procs, Step(p) \/ Kill(p), NEW q \in Procs, MetNobody(q)'
  PROVE  q = p /\ MetNobody(p)
<1>1. q = p
  BY StepBegins DEF MetNobody
<1>2. ~raced'[p] /\ \A o \in Procs \ {p} : pc[o] = "idle"
  BY <1>1, StepLocal DEF MetNobody
<1>3. ~raced[p]
  BY <1>2, BeginMeets, StepActive
<1>4. QED
  BY <1>1, <1>2, <1>3 DEF MetNobody

\* At first every call is alone.
LEMMA InitLone == Init => Lone
<1> SUFFICES ASSUME Init PROVE Lone
  OBVIOUS
<1>1. ASSUME NEW r \in Existing PROVE r.data = Before
  <2>1. CASE \E s, t, a \in BOOLEAN : r = OldOwn(s, t, a)
    BY <2>1 DEF Old, Free, OldOwn, Before
  <2>2. CASE \E type \in {"regular", "fifo", "link"} : r = OldOthers(type)
    BY <2>2 DEF Old, Free, OldOthers, Before
  <2>3. CASE r = OldFifo
    BY <2>3 DEF Old, Free, OldFifo, Before
  <2>4. QED
    BY <2>1, <2>2, <2>3, ExistingCases
<1>2. target # Nil => inode[target] \in Existing
  BY DEF Init
<1>3. ASSUME NEW p \in Procs PROVE CallAt(p) /\ LoneAt(p)
  BY <1>1, <1>2 DEF Init, CallAt, LoneAt, Copying
<1>4. QED
  BY <1>3, InitArriving DEF Lone

\* And it stays what it is.
LEMMA NextLone == ASSUME Lone, [Next]_vars PROVE Lone'
<1>1. Arriving /\ Arriving' /\ Vetted /\ TypeOK
  BY NextArriving DEF Lone, Arriving, Sealed, Vetted
<1>2. ASSUME NEW p \in Procs, Step(p) \/ Kill(p), NEW q \in Procs PROVE CallAt(q)'
  <2>1. CASE q = p
    BY <1>1, <1>2, <2>1, CallStep DEF Lone, Arriving
  <2>2. CASE q # p
    BY <1>1, <1>2, <2>2, StepLocal DEF Lone, CallAt
  <2>3. QED
    BY <2>1, <2>2
<1>3. ASSUME NEW p \in Procs, Step(p) \/ Kill(p), NEW q \in Procs, MetNobody(q)' PROVE LoneAt(q)'
  <2>1. q = p /\ MetNobody(p)
    BY <1>1, <1>3, LoneSteps
  <2>2. CallAt(p) /\ LoneAt(p) /\ ~raced[p]
    BY <2>1 DEF Lone, MetNobody
  <2>3. QED
    BY <1>1, <1>3, <2>1, <2>2, LoneOpen, LoneInPlace, LoneStaged, LoneEnds DEF Step
<1>4. ASSUME Read \/ Plant, NEW q \in Procs PROVE CallAt(q)' /\ (MetNobody(q)' => LoneAt(q)')
  <2>1. UNCHANGED <<pc, fd, op, pos, res, raced>>
    BY <1>4 DEF Read, Plant
  <2>2. CallAt(q)' /\ (MetNobody(q)' => MetNobody(q))
    BY <2>1 DEF Lone, CallAt, MetNobody
  <2>3. QED
    BY <1>1, <1>4, <2>2, LoneStays DEF Lone
<1>5. ASSUME UNCHANGED vars, NEW q \in Procs PROVE CallAt(q)' /\ (MetNobody(q)' => LoneAt(q)')
  BY <1>5 DEF vars, fs, Lone, CallAt, MetNobody, LoneAt, Finished, Closed, Whole, Before, First, Bases
<1>6. QED
  BY <1>1, <1>2, <1>3, <1>4, <1>5 DEF Lone, Next

\* What a step leaves of an existing log.
LogGoesOn ==
  /\ target' # Nil
  /\ \/ inode'[target'].data = inode[target].data
     \/ \E chunk \in Procs \X (1 .. NewChunks) :
          inode'[target'].data = Append(inode[target].data, chunk)

\* The step of an append alone keeps it.
LEMMA LogStep ==
  ASSUME Lone, NEW p \in Procs, Step(p) \/ Kill(p), op[p] = "append", MetNobody(p), Active(p),
         target # Nil, inode[target].mine
  PROVE  LogGoesOn
<1>0. /\ Arriving /\ Vetted /\ TypeOK /\ Placed /\ CallAt(p) /\ LoneAt(p) /\ ~raced[p]
      /\ inode \in [Inodes -> InodeRecord] /\ target \in Inodes /\ inode[target].type # "none"
      /\ pos[p] \in Nat
  BY DEF Lone, Arriving, Sealed, Vetted, TypeOK, Placed, MetNobody
<1>1. CASE Apart(p) /\ ~Rename(p)
  <2>1. inode' = inode
    BY <1>1, ApartKeeps
  <2>2. target' = target
    BY <1>1 DEF Apart, fs, Begin, OpenExisting, Vet, Finish, Mkdir, MkdirGivesUp, OpenDir, Filled,
                SweepFile, SweepDir, Fail, Kill
  <2>3. QED
    BY <2>1, <2>2 DEF LogGoesOn
<1>2. CASE Rename(p)
  <2>1. pc[p] = "rename" /\ target' = stage[p].file /\ inode' = inode
    BY <1>2 DEF Rename
  <2>2. target = fd[p]
    BY <1>0, <2>1 DEF LoneAt, Copying
  <2>3. stage[p].file \in Inodes /\ inode[stage[p].file].data = inode[fd[p]].data
    BY <1>0, <2>1, RenamedIs
  <2>4. QED
    BY <2>1, <2>2, <2>3 DEF LogGoesOn
<1>3. CASE OpenCreate(p)
  BY <1>3 DEF OpenCreate
<1>4. CASE Tighten(p) \/ Strip(p)
  <2>1. /\ target' = target
        /\ \/ inode' = [inode EXCEPT ![fd[p]].tight = TRUE]
           \/ inode' = [inode EXCEPT ![fd[p]].acl = FALSE]
    BY <1>4 DEF Tighten, Strip
  <2>2. inode[target].data = [inode[target] EXCEPT !.tight = TRUE].data
        /\ inode[target].data = [inode[target] EXCEPT !.acl = FALSE].data
    BY <1>0 DEF InodeRecord
  <2>3. \/ inode'[target] = inode[target]
        \/ inode'[target] = [inode[target] EXCEPT !.tight = TRUE]
        \/ inode'[target] = [inode[target] EXCEPT !.acl = FALSE]
    BY <1>0, <2>1
  <2>4. QED
    BY <2>1, <2>2, <2>3 DEF LogGoesOn
<1>5. CASE Truncate(p) \/ Write(p)
  BY <1>0, <1>5 DEF Truncate, Write, CallAt
<1>6. CASE AppendLine(p)
  <2>1. pc[p] = "append" /\ pos[p] < NewChunks /\ target' = target
    BY <1>6 DEF AppendLine
  <2>2. target = fd[p]
    BY <1>0, <2>1 DEF LoneAt
  <2>3. PICK chunk : chunk = <<p, pos[p] + 1>>
    OBVIOUS
  <2>4. chunk \in Procs \X (1 .. NewChunks)
    BY <1>0, <2>1, <2>3
  <2>5. inode'[target].data = Append(inode[target].data, chunk)
    <3>1. PICK d : d = Append(inode[fd[p]].data, chunk)
      OBVIOUS
    <3>2. inode' = [inode EXCEPT ![fd[p]].data = d]
      BY <1>6, <2>3, <3>1 DEF AppendLine
    <3>3. QED
      BY <1>0, <2>2, <3>1, <3>2 DEF InodeRecord
  <2>6. QED
    BY <2>1, <2>4, <2>5 DEF LogGoesOn
<1>7. CASE CreateStaged(p)
  <2>1. PICK i \in Inodes : inode[i] = Free /\ inode' = [inode EXCEPT ![i] = Created(FALSE)]
    BY <1>7 DEF CreateStaged
  <2>2. target # i /\ target' = target
    BY <1>0, <1>7, <2>1 DEF Free, CreateStaged
  <2>3. QED
    BY <1>0, <2>1, <2>2 DEF LogGoesOn
<1>8. CASE Fill(p)
  <2>1. pc[p] = "fill" /\ target' = target /\ \E x : inode' = [inode EXCEPT ![stage[p].file] = x]
    BY <1>8 DEF Fill
  <2>2. target # stage[p].file
    BY <1>0, <2>1, Vetting DEF Placed, ApartAt, Early, Ended, TypeOK
  <2>3. QED
    BY <1>0, <2>1, <2>2 DEF LogGoesOn
<1>9. QED
  BY <1>1, <1>2, <1>3, <1>4, <1>5, <1>6, <1>7, <1>8 DEF Apart, Step, Open, InPlace, Staged

\* So does every step.
LEMMA LogStays ==
  ASSUME Lone, [Next]_vars, NEW p \in Procs, op[p] = "append", MetNobody(p), Active(p),
         target # Nil, inode[target].mine
  PROVE  LogGoesOn
<1>1. ASSUME NEW q \in Procs, Step(q) \/ Kill(q) PROVE LogGoesOn
  <2>1. CASE q = p
    BY <1>1, <2>1, LogStep
  <2>2. CASE q # p
    <3>1. pc[q] = "idle"
      BY <2>2 DEF MetNobody
    <3>2. Begin(q)
      BY <1>1, <3>1, StepActive DEF Active, Busy
    <3>3. QED
      BY <3>2 DEF Begin, fs, LogGoesOn
  <2>3. QED
    BY <2>1, <2>2
<1>2. CASE Read \/ Plant
  BY <1>2, OthersLeave DEF Lone, LogGoesOn
<1>3. CASE UNCHANGED vars
  BY <1>3 DEF vars, fs, LogGoesOn
<1>4. QED
  BY <1>1, <1>2, <1>3 DEF Next

\* A call that met no other and reports success has done all of it, whatever was at the path
\* and whatever others plant there: the file is this account's, closed to others, and holds
\* the content, or the earlier log with the new lines after it; and an append never costs a
\* line that was there, fails what may (config.rs:560, config.rs:1130).
THEOREM CallsDo == Spec => DoneMeansDone
<1>1. Lone => TypeOK /\ Done
  <2> SUFFICES ASSUME Lone PROVE TypeOK /\ Done
    OBVIOUS
  <2>1. TypeOK
    BY DEF Lone, Arriving, Sealed, Vetted
  <2>2. ASSUME NEW p \in Procs, res[p] = "ok", pc[p] = "done", MetNobody(p) PROVE Finished(p)
    BY <2>2 DEF Lone, LoneAt
  <2>3. Done
    BY <2>2 DEF Done, Finished, Closed
  <2>4. QED
    BY <2>1, <2>3
<1>2. Lone /\ [Next]_vars =>
        [\A p \in Procs :
           (op[p] = "append" /\ MetNobody(p) /\ Active(p) /\ target # Nil /\ inode[target].mine)
             => /\ target' # Nil
                /\ \/ inode'[target'].data = inode[target].data
                   \/ \E chunk \in Procs \X (1 .. NewChunks) :
                        inode'[target'].data = Append(inode[target].data, chunk)]_vars
  BY LogStays DEF LogGoesOn
<1>3. Spec => []Lone
  BY InitLone, NextLone, PTL DEF Spec
<1>4. Spec => [](TypeOK /\ Done)
  BY <1>1, <1>3, PTL
<1>5. Spec => LogKept
  BY <1>2, <1>3, PTL DEF Spec, LogKept
<1>6. QED
  BY <1>4, <1>5 DEF DoneMeansDone
================================================================================
