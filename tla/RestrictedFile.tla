---------------------------- MODULE RestrictedFile ----------------------------
(***************************************************************************)
(* write_restricted, open_write_restricted and open_append_restricted of   *)
(* src/src/config.rs (unix builds): several processes of one account       *)
(* write or append to one file of theirs, one system call a step, while    *)
(* other accounts read what they may and, in a sticky directory, put files *)
(* of their own at a name that is free.                                    *)
(*                                                                         *)
(* Inodes, names and ACL inheritance are external.  Contents are sequences *)
(* of chunks: <<p, k>> is the k-th that process p writes, <<Nil, k>> one   *)
(* that was there before, and <<Nil, 0>> a hole.                           *)
(***************************************************************************)
EXTENDS Naturals, Sequences

CONSTANTS
    Procs, Inodes, Nil,
    Attempts,    \* names create_private_dir tries
    OldChunks,   \* chunks in the file before
    NewChunks    \* chunks each process writes

ASSUME NilIsNone == Nil \notin Inodes \cup Procs
ASSUME AttemptsIsNat == Attempts \in Nat
ASSUME ChunksAreNats == OldChunks \in Nat /\ NewChunks \in Nat

Chunks == (Procs \cup {Nil}) \X Nat

\* `tight': mode 0600; `acl': entries that let others read; `reader': another
\* account has it open for reading; `loose': it once was readable by its mode.
InodeRecord ==
    [type : {"none", "regular", "fifo", "link"}, mine : BOOLEAN, single : BOOLEAN,
     tight : BOOLEAN, acl : BOOLEAN, reader : BOOLEAN, loose : BOOLEAN,
     data : Seq(Chunks)]
Free == [type |-> "none", mine |-> FALSE, single |-> TRUE, tight |-> TRUE,
         acl |-> FALSE, reader |-> FALSE, loose |-> FALSE, data |-> <<>>]
Created(acl) == [Free EXCEPT !.type = "regular", !.mine = TRUE, !.acl = acl]
Planted(type) == [Free EXCEPT !.type = type, !.tight = FALSE, !.loose = TRUE]

\* What may be at the path before: left by an earlier corvex or by anybody.
Old == [Free EXCEPT !.type = "regular", !.data = [k \in 1 .. OldChunks |-> <<Nil, k>>]]
OldOwn(s, t, a) ==
    [Old EXCEPT !.mine = TRUE, !.single = s, !.tight = t, !.loose = ~t, !.acl = a]
OldOthers(type) == [Old EXCEPT !.type = type, !.tight = FALSE, !.loose = TRUE]
OldFifo == [Old EXCEPT !.type = "fifo", !.mine = TRUE]
Existing ==
    {OldOwn(s, t, a) : s \in BOOLEAN, t \in BOOLEAN, a \in BOOLEAN}
    \cup {OldOthers(type) : type \in {"regular", "fifo", "link"}}
    \cup {OldFifo}

VARIABLES
    inherits,  \* the directory hands an ACL down (macOS)
    sticky,    \* others may create entries in it
    inode,
    target,    \* the inode at the path
    stage,     \* the staging directory of each process
    op, pc,
    fd,        \* the descriptor the open has returned
    tries,     \* attempt of create_private_dir
    pos,       \* chunks copied or written so far
    res,       \* what the call returned
    raced,     \* history: the call met another one
    strippers  \* history: who has removed an ACL from an inode

fs == <<inode, target, stage>>
dir == <<inherits, sticky>>
vars == <<dir, fs, op, pc, fd, tries, pos, res, raced, strippers>>

Ops == {"write", "open", "append"}
Busy == {"open", "vet", "tighten", "strip", "truncate", "write", "append",
         "mkdir", "opendir", "create", "fill", "rename", "sweepFile", "sweepDir"}
Pcs == Busy \cup {"idle", "done", "dead"}
StageRecord == [made : BOOLEAN, acl : BOOLEAN, file : Inodes \cup {Nil}]
NoStage == [made |-> FALSE, acl |-> FALSE, file |-> Nil]

Active(p) == pc[p] \in Busy

Init ==
    /\ inherits \in BOOLEAN /\ sticky \in BOOLEAN
    /\ \/ inode = [i \in Inodes |-> Free] /\ target = Nil
       \/ \E i \in Inodes, first \in Existing :
             /\ inode = [j \in Inodes |-> IF j = i THEN first ELSE Free]
             /\ target = i
    /\ stage = [p \in Procs |-> NoStage]
    /\ op \in [Procs -> Ops]
    /\ pc = [p \in Procs |-> "idle"]
    /\ fd = [p \in Procs |-> Nil]
    /\ tries = [p \in Procs |-> 0]
    /\ pos = [p \in Procs |-> 0]
    /\ res = [p \in Procs |-> "none"]
    /\ raced = [p \in Procs |-> FALSE]
    /\ strippers = [i \in Inodes |-> {}]

Goto(p, next) == pc' = [pc EXCEPT ![p] = next]
Return(p, r) == res' = [res EXCEPT ![p] = r]

-----------------------------------------------------------------------------
(* The open: open_write_restricted_reporting_acl, open_append_vetted *)

\* ensure_trusted_ancestry is a module of its own: it refuses (one of Fail), or
\* the open follows.
Begin(p) ==
    /\ pc[p] = "idle"
    /\ Goto(p, "open")
    /\ raced' = [q \in Procs |->
                   raced[q] \/ (q = p /\ \E o \in Procs \ {p} : Active(o))
                            \/ (q # p /\ Active(q))]
    /\ UNCHANGED <<dir, fs, op, fd, tries, pos, res, strippers>>

\* open with O_CREAT, O_NOFOLLOW and O_NONBLOCK, and without O_TRUNC.  A FIFO
\* opens only if somebody reads it.
FaultyTruncatingOpen(p) ==
    /\ pc[p] = "open" /\ target # Nil
    /\ inode[target].type # "link"
    /\ inode' = [inode EXCEPT ![target].data = <<>>]
    /\ fd' = [fd EXCEPT ![p] = target]
    /\ Goto(p, "vet")
    /\ UNCHANGED <<dir, target, stage, op, tries, pos, res, raced, strippers>>
OpenExisting(p) ==
    /\ pc[p] = "open" /\ target # Nil
    /\ inode[target].type # "link"
    /\ inode[target].type = "fifo" => inode[target].reader
    /\ fd' = [fd EXCEPT ![p] = target]
    /\ Goto(p, "vet")
    /\ UNCHANGED <<dir, fs, op, tries, pos, res, raced, strippers>>

OpenCreate(p) ==
    /\ pc[p] = "open" /\ target = Nil
    /\ \E i \in Inodes :
          /\ inode[i] = Free
          /\ inode' = [inode EXCEPT ![i] = Created(inherits)]
          /\ target' = i
          /\ fd' = [fd EXCEPT ![p] = i]
    /\ Goto(p, "vet")
    /\ UNCHANGED <<dir, stage, op, tries, pos, res, raced, strippers>>

\* accept_restricted_file, restricted_file_rejection
Acceptable(i) == inode[i].type = "regular" /\ inode[i].mine /\ inode[i].single
Vet(p) ==
    /\ pc[p] = "vet"
    /\ IF Acceptable(fd[p])
       THEN Goto(p, "tighten") /\ UNCHANGED res
       ELSE Goto(p, "done") /\ Return(p, "err")
    /\ UNCHANGED <<dir, fs, op, fd, tries, pos, raced, strippers>>

\* tighten_to_0600: fchmod of the descriptor.
Tighten(p) ==
    /\ pc[p] = "tighten"
    /\ inode' = [inode EXCEPT ![fd[p]].tight = TRUE]
    /\ Goto(p, "strip")
    /\ UNCHANGED <<dir, target, stage, op, fd, tries, pos, res, raced, strippers>>

\* strip_inherited_acl, and what its AclState decides: a file that had an ACL
\* is replaced.  open_write_restricted drops the state.
FaultyStripIsEnough(o, removed) ==
    CASE o = "open" -> "done" [] o = "write" -> "truncate" [] o = "append" -> "append"
AfterStrip(o, removed) ==
    CASE o = "open" -> "done"
      [] o # "open" /\ removed -> "mkdir"
      [] o = "write" /\ ~removed -> "truncate"
      [] o = "append" /\ ~removed -> "append"
Strip(p) ==
    /\ pc[p] = "strip"
    /\ LET i == fd[p]
           removed == inode[i].acl
       IN /\ inode' = [inode EXCEPT ![i].acl = FALSE]
          /\ strippers' = [strippers EXCEPT ![i] = IF removed THEN @ \cup {p} ELSE @]
          /\ Goto(p, AfterStrip(op[p], removed))
    /\ res' = IF op[p] = "open" THEN [res EXCEPT ![p] = "ok"] ELSE res
    /\ UNCHANGED <<dir, target, stage, op, fd, tries, pos, raced>>

-----------------------------------------------------------------------------
(* Writing in place *)

FaultyNoTruncate(p) ==
    /\ pc[p] = "truncate"
    /\ Goto(p, "write")
    /\ UNCHANGED <<dir, fs, op, fd, tries, pos, res, raced, strippers>>
\* set_len(0)
Truncate(p) ==
    /\ pc[p] = "truncate"
    /\ inode' = [inode EXCEPT ![fd[p]].data = <<>>]
    /\ Goto(p, "write")
    /\ UNCHANGED <<dir, target, stage, op, fd, tries, pos, res, raced, strippers>>

\* A chunk at the descriptor's own offset.
Put(data, at, chunk) ==
    [k \in 1 .. (IF Len(data) > at THEN Len(data) ELSE at + 1) |->
        IF k = at + 1 THEN chunk ELSE IF k <= Len(data) THEN data[k] ELSE <<Nil, 0>>]

Write(p) ==
    /\ pc[p] = "write" /\ pos[p] < NewChunks
    /\ inode' = [inode EXCEPT ![fd[p]].data = Put(@, pos[p], <<p, pos[p] + 1>>)]
    /\ pos' = [pos EXCEPT ![p] = @ + 1]
    /\ UNCHANGED <<dir, target, stage, op, pc, fd, tries, res, raced, strippers>>

\* What the holder of an append descriptor writes through it later: at the end,
\* wherever that is.
AppendLine(p) ==
    /\ pc[p] = "append" /\ pos[p] < NewChunks
    /\ inode' = [inode EXCEPT ![fd[p]].data = Append(@, <<p, pos[p] + 1>>)]
    /\ pos' = [pos EXCEPT ![p] = @ + 1]
    /\ UNCHANGED <<dir, target, stage, op, pc, fd, tries, res, raced, strippers>>

Finish(p) ==
    /\ pc[p] \in {"write", "append"} /\ pos[p] = NewChunks
    /\ Goto(p, "done") /\ Return(p, "ok")
    /\ UNCHANGED <<dir, fs, op, fd, tries, pos, raced, strippers>>

-----------------------------------------------------------------------------
(* Through a private directory: write_via_private_dir, append_via_private_dir *)

\* create_private_dir: a name somebody has taken is left alone.
Mkdir(p) ==
    /\ pc[p] = "mkdir" /\ tries[p] < Attempts
    /\ \/ /\ stage' = [stage EXCEPT ![p] = [made |-> TRUE, acl |-> inherits, file |-> Nil]]
          /\ Goto(p, "opendir")
          /\ UNCHANGED tries
       \/ /\ sticky
          /\ tries' = [tries EXCEPT ![p] = @ + 1]
          /\ UNCHANGED <<pc, stage>>
    /\ UNCHANGED <<dir, inode, target, op, fd, pos, res, raced, strippers>>

MkdirGivesUp(p) ==
    /\ pc[p] = "mkdir" /\ tries[p] = Attempts
    /\ Goto(p, "done") /\ Return(p, "err")
    /\ UNCHANGED <<dir, fs, op, fd, tries, pos, raced, strippers>>

\* create_in_private_dir: the directory is corvex's own, for nobody else can
\* put another one in its place; its ACL goes before the file is created.
OpenDir(p) ==
    /\ pc[p] = "opendir"
    /\ stage' = [stage EXCEPT ![p].acl = FALSE]
    /\ Goto(p, "create")
    /\ UNCHANGED <<dir, inode, target, op, fd, tries, pos, res, raced, strippers>>

\* The staged file, vetted: one that inherited an ACL is not written to.
CreateStaged(p) ==
    /\ pc[p] = "create"
    /\ \E i \in Inodes :
          /\ inode[i] = Free
          /\ inode' = [inode EXCEPT ![i] = Created(FALSE)]
          /\ stage' = [stage EXCEPT ![p].file = i]
          /\ strippers' = [strippers EXCEPT ![i] = IF stage[p].acl THEN @ \cup {p} ELSE @]
    /\ IF stage[p].acl
       THEN Goto(p, "sweepFile") /\ Return(p, "err")
       ELSE Goto(p, "fill") /\ UNCHANGED res
    /\ UNCHANGED <<dir, target, op, fd, tries, pos, raced>>

\* The content, or what the vetted descriptor reads, chunk by chunk.
Source(p) == IF op[p] = "write" THEN [k \in 1 .. NewChunks |-> <<p, k>>] ELSE inode[fd[p]].data
Fill(p) ==
    /\ pc[p] = "fill" /\ pos[p] < Len(Source(p))
    /\ inode' = [inode EXCEPT ![stage[p].file].data = Append(@, Source(p)[pos[p] + 1])]
    /\ pos' = [pos EXCEPT ![p] = @ + 1]
    /\ UNCHANGED <<dir, target, stage, op, pc, fd, tries, res, raced, strippers>>

FaultyRenameEarly(p) ==
    /\ pc[p] = "fill"
    /\ Goto(p, "rename")
    /\ UNCHANGED <<dir, fs, op, fd, tries, pos, res, raced, strippers>>
Filled(p) ==
    /\ pc[p] = "fill" /\ pos[p] >= Len(Source(p))
    /\ Goto(p, "rename")
    /\ UNCHANGED <<dir, fs, op, fd, tries, pos, res, raced, strippers>>

\* rename replaces whatever is at the path by then.
Rename(p) ==
    /\ pc[p] = "rename"
    /\ target' = stage[p].file
    /\ stage' = [stage EXCEPT ![p].file = Nil]
    /\ fd' = [fd EXCEPT ![p] = stage[p].file]
    /\ pos' = [pos EXCEPT ![p] = 0]
    /\ Goto(p, "sweepFile")
    /\ Return(p, "ok")
    /\ UNCHANGED <<dir, inode, op, tries, raced, strippers>>

\* remove_file and remove_dir, whatever the outcome; their own failures are
\* dropped.  A caller of append goes on with the new descriptor.
SweepFile(p) ==
    /\ pc[p] = "sweepFile"
    /\ \/ stage' = [stage EXCEPT ![p].file = Nil]
       \/ stage[p].file # Nil /\ UNCHANGED stage
    /\ Goto(p, "sweepDir")
    /\ UNCHANGED <<dir, inode, target, op, fd, tries, pos, res, raced, strippers>>

SweepDir(p) ==
    /\ pc[p] = "sweepDir"
    /\ \/ stage[p].file = Nil /\ stage' = [stage EXCEPT ![p] = NoStage]
       \/ UNCHANGED stage
    /\ IF op[p] = "append" /\ res[p] = "ok"
       THEN Goto(p, "append") /\ Return(p, "none")
       ELSE Goto(p, "done") /\ UNCHANGED res
    /\ UNCHANGED <<dir, inode, target, op, fd, tries, pos, raced, strippers>>

-----------------------------------------------------------------------------
(* Failures, kills and the rest of the machine *)

\* Any call may fail; what is in a staging directory is swept first.
Fail(p) ==
    /\ Active(p) /\ pc[p] \notin {"vet", "sweepFile", "sweepDir"}
    /\ Return(p, "err")
    /\ Goto(p, IF stage[p].made /\ pc[p] # "append" THEN "sweepFile" ELSE "done")
    /\ UNCHANGED <<dir, fs, op, fd, tries, pos, raced, strippers>>

Kill(p) ==
    /\ Active(p)
    /\ Goto(p, "dead")
    /\ UNCHANGED <<dir, fs, op, fd, tries, pos, res, raced, strippers>>

\* Another account opens what the path leads to, if it may.
Read ==
    /\ target # Nil /\ ~inode[target].reader
    /\ inode[target].acl \/ ~inode[target].tight \/ ~inode[target].mine
    /\ inode' = [inode EXCEPT ![target].reader = TRUE]
    /\ UNCHANGED <<dir, target, stage, op, pc, fd, tries, pos, res, raced, strippers>>

\* It creates a file of its own at the free name, or removes that again.
Plant ==
    /\ sticky
    /\ \/ /\ target = Nil
          /\ \E i \in Inodes, type \in {"regular", "fifo", "link"} :
                /\ inode[i] = Free
                /\ inode' = [inode EXCEPT ![i] = Planted(type)]
                /\ target' = i
       \/ /\ target # Nil /\ ~inode[target].mine
          /\ target' = Nil
          /\ UNCHANGED inode
    /\ UNCHANGED <<dir, stage, op, pc, fd, tries, pos, res, raced, strippers>>

Open(p) == Begin(p) \/ OpenExisting(p) \/ OpenCreate(p) \/ Vet(p)
           \/ Tighten(p) \/ Strip(p)
InPlace(p) == Truncate(p) \/ Write(p) \/ AppendLine(p) \/ Finish(p)
Staged(p) == Mkdir(p) \/ MkdirGivesUp(p) \/ OpenDir(p) \/ CreateStaged(p) \/ Fill(p)
             \/ Filled(p) \/ Rename(p) \/ SweepFile(p) \/ SweepDir(p)
Step(p) == Open(p) \/ InPlace(p) \/ Staged(p) \/ Fail(p)

Next ==
    \/ \E p \in Procs : Step(p) \/ Kill(p)
    \/ Read
    \/ Plant
Spec == Init /\ [][Next]_vars

\* A process that runs gets on with its calls; none of them blocks.
FairSpec == Spec /\ \A p \in Procs : WF_vars(Step(p))

-----------------------------------------------------------------------------
(* Properties *)

TypeOK ==
    /\ inherits \in BOOLEAN /\ sticky \in BOOLEAN
    /\ inode \in [Inodes -> InodeRecord]
    /\ target \in Inodes \cup {Nil}
    /\ stage \in [Procs -> StageRecord]
    /\ op \in [Procs -> Ops]
    /\ pc \in [Procs -> Pcs]
    /\ fd \in [Procs -> Inodes \cup {Nil}]
    /\ tries \in [Procs -> 0 .. Attempts]
    /\ pos \in [Procs -> Nat]
    /\ res \in [Procs -> {"none", "ok", "err"}]
    /\ raced \in [Procs -> BOOLEAN]
    /\ strippers \in [Inodes -> SUBSET Procs]

\* A file that is not a regular, singly linked one of this account's is as it
\* was when corvex is through with it: neither emptied nor tightened nor
\* written to.  Only its reader comes and goes.
Refused(i) == i.type # "none" /\ ~(i.type = "regular" /\ i.mine /\ i.single)
RefusedUntouched ==
    [][\A i \in Inodes : Refused(inode[i]) => inode'[i] = [inode[i] EXCEPT !.reader = inode'[i].reader]]_vars

\* What a process writes is out of reach of a descriptor somebody else opened
\* while the file still had its inherited ACL.  Left out are files that were
\* readable by their mode, and inodes whose ACL another process has removed:
\* that one alone knows, and may have ended since.
Private ==
    \A i \in Inodes, p \in Procs :
        (inode[i].reader /\ \E k \in 1 .. Len(inode[i].data), n \in 1 .. NewChunks :
                               inode[i].data[k] = <<p, n>>)
            => inode[i].loose \/ strippers[i] \ {p} # {}

\* The file never gets to its name half made: what a rename puts there is the
\* whole content, or all of the log as the copying process last read it.
Whole(p) == [k \in 1 .. NewChunks |-> <<p, k>>]
Before == [k \in 1 .. OldChunks |-> <<Nil, k>>]
ArrivesWhole ==
    [][\A p \in Procs :
         (stage[p].file # Nil /\ target' = stage[p].file) =>
            /\ inode[target'].tight /\ ~inode[target'].acl
            /\ \/ op[p] = "write" /\ inode[target'].data = Whole(p)
               \/ op[p] = "append" /\ (~raced[p] => inode[target'].data = inode[fd[p]].data)]_vars

\* A call that met no other and reports success has done all of it: the file
\* at the path is this account's, closed to others, and holds the content, or
\* the earlier log with the new lines after it.
MetNobody(p) == ~raced[p] /\ \A q \in Procs \ {p} : pc[q] = "idle"
Done ==
    \A p \in Procs : (res[p] = "ok" /\ pc[p] = "done" /\ MetNobody(p)) =>
        /\ target # Nil
        /\ inode[target].mine /\ inode[target].tight /\ ~inode[target].acl
        /\ op[p] = "write" => inode[target].data = Whole(p)
        /\ op[p] = "append" => inode[target].data \in {Before \o Whole(p), Whole(p)}

\* An append never costs a line that was there: whatever fails, and even if
\* it is killed, the log at the path goes on from what it was.
LogKept ==
    [][\A p \in Procs : (op[p] = "append" /\ MetNobody(p) /\ Active(p) /\ target # Nil /\ inode[target].mine)
         => /\ target' # Nil
            /\ \/ inode'[target'].data = inode[target].data
               \/ \E chunk \in Procs \X (1 .. NewChunks) : inode'[target'].data = Append(inode[target].data, chunk)]_vars

\* What a call of a process alone has said by its end is so, and an append costs
\* no line on the way there (config.rs:560).
DoneMeansDone == [](TypeOK /\ Done) /\ LogKept

\* Every call returns, whatever is at the path: a FIFO that nobody reads, names
\* that are taken, a directory that hands down ACLs.
Returns == \A p \in Procs : [](pc[p] = "open" => <>(pc[p] \in {"done", "dead"}))
=============================================================================
