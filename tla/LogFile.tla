------------------------------- MODULE LogFile -------------------------------
(***************************************************************************)
(* corvex.log: init_logger and TeeWriter of src/src/main.rs and            *)
(* rotate_if_oversized of src/src/config.rs, from any number of corvex     *)
(* processes.  Sizes are counted in records; a record is <<p, k>>, the     *)
(* k-th of process p, or <<p, k, "torn">> when the write failed half way.  *)
(* How the log is opened in detail is RestrictedFile.                      *)
(***************************************************************************)
EXTENDS Naturals, Sequences

CONSTANTS
    Procs, Nil,
    Max,       \* LOG_MAX_BYTES
    Records,   \* records a command logs at level info
    Details    \* and at level debug

ASSUME NamesApart == {"first", "older"} \cap Procs = {} /\ Nil \notin Procs \cup {"first", "older"}
ASSUME SizesAreNats == Max \in Nat /\ Records \in Nat /\ Details \in Nat

\* A generation is named by the process that created it; "first" and "older"
\* were there before.
Generations == Procs \cup {"first", "older"}

\* debug_requested_inner: the settings count only if they load.
Settings == {"unreadable", "silent", "no", "yes"}
DebugRequested(env, settings) == env \/ settings = "yes"

VARIABLES
    data,     \* records of each generation
    log,      \* the generation at corvex.log, or Nil
    past,     \* the one at corvex.log.1, or Nil
    pc,       \* "idle", "mkdir", "stat", "retire", "rename", "open", "logs", "done", "dead"
    debug,    \* this command logs details too
    file,     \* TeeWriter.file: the generation it writes to, or Nil
    said,     \* records emitted so far
    told,     \* times the failed file was reported
    spoiled,  \* history: a step of the rotation failed
    raced     \* history: another corvex was at work meanwhile

disk == <<data, log, past>>
vars == <<disk, pc, debug, file, said, told, spoiled, raced>>

Pcs == {"idle", "mkdir", "stat", "retire", "rename", "open", "logs", "done", "dead"}
Active(p) == pc[p] \notin {"idle", "done", "dead"}
Length(p) == IF debug[p] THEN Records + Details ELSE Records

Init ==
    /\ \E before \in 0 .. Max + 1 :
          data = [g \in Generations |->
                    IF g = "first" THEN [k \in 1 .. before |-> <<Nil, k>>]
                    ELSE IF g = "older" THEN <<<<Nil, 0>>>> ELSE <<>>]
    /\ log \in {Nil, "first"}
    /\ past \in {Nil, "older"}
    /\ pc = [p \in Procs |-> "idle"]
    /\ \E env \in [Procs -> BOOLEAN], s \in Settings :
          debug = [p \in Procs |-> DebugRequested(env[p], s)]
    /\ file = [p \in Procs |-> Nil]
    /\ said = [p \in Procs |-> 0]
    /\ told = [p \in Procs |-> 0]
    /\ spoiled = [p \in Procs |-> FALSE]
    /\ raced = [p \in Procs |-> FALSE]

Goto(p, next) == pc' = [pc EXCEPT ![p] = next]
Quiet == UNCHANGED <<debug, said, told, raced>>

-----------------------------------------------------------------------------
(* prepare_log_file_at *)

\* create_dir_restricted: without the directory there is no log.
Begin(p) ==
    /\ pc[p] = "idle"
    /\ \/ Goto(p, "stat")
       \/ Goto(p, "logs")
    /\ raced' = [q \in Procs |-> raced[q] \/ (q = p /\ \E o \in Procs : Active(o))
                                          \/ (q # p /\ Active(q))]
    /\ UNCHANGED <<disk, debug, file, said, told, spoiled>>

\* rotate_if_oversized: the metadata.
FaultyAlwaysFull(p) ==
    /\ pc[p] = "stat"
    /\ Goto(p, IF log # Nil THEN "retire" ELSE "open")
    /\ UNCHANGED <<disk, file, spoiled>> /\ Quiet
Stat(p) ==
    /\ pc[p] = "stat"
    /\ Goto(p, IF log # Nil /\ Len(data[log]) > Max THEN "retire" ELSE "open")
    /\ UNCHANGED <<disk, file, spoiled>> /\ Quiet

\* remove_file of the previous generation; none is fine.
Retire(p) ==
    /\ pc[p] = "retire"
    /\ past' = Nil
    /\ Goto(p, "rename")
    /\ UNCHANGED <<data, log, file, spoiled>> /\ Quiet

Rename(p) ==
    /\ pc[p] = "rename" /\ log # Nil
    /\ log' = Nil
    /\ past' = log
    /\ Goto(p, "open")
    /\ UNCHANGED <<data, file, spoiled>> /\ Quiet

\* Any of the three calls fails, or there is nothing left to rename: reported
\* on stderr, and the log is opened all the same.
RotationFails(p) ==
    /\ pc[p] \in {"stat", "retire", "rename"}
    /\ spoiled' = [spoiled EXCEPT ![p] = TRUE]
    /\ Goto(p, "open")
    /\ UNCHANGED <<disk, file>> /\ Quiet

\* open_append_restricted
Open(p) ==
    /\ pc[p] = "open"
    /\ log' = IF log = Nil THEN p ELSE log
    /\ file' = [file EXCEPT ![p] = log']
    /\ Goto(p, "logs")
    /\ UNCHANGED <<data, past, spoiled>> /\ Quiet

OpenFails(p) ==
    /\ pc[p] = "open"
    /\ Goto(p, "logs")
    /\ UNCHANGED <<disk, file, spoiled>> /\ Quiet

-----------------------------------------------------------------------------
(* TeeWriter.write *)

\* stderr first, which may fail; that is returned only after the file has had
\* its turn.
Emit(p) ==
    /\ pc[p] = "logs" /\ said[p] < Length(p)
    /\ said' = [said EXCEPT ![p] = @ + 1]
    /\ data' = IF file[p] = Nil THEN data
               ELSE [data EXCEPT ![file[p]] = Append(@, <<p, said[p] + 1>>)]
    /\ UNCHANGED <<log, past, pc, debug, file, told, spoiled, raced>>

\* The file takes none or a part of it: dropped for good, and said so once.
FaultyKeepFile(p) ==
    /\ pc[p] = "logs" /\ said[p] < Length(p) /\ file[p] # Nil
    /\ said' = [said EXCEPT ![p] = @ + 1]
    /\ told' = [told EXCEPT ![p] = 1]
    /\ UNCHANGED <<disk, pc, debug, file, spoiled, raced>>
FileFails(p) ==
    /\ pc[p] = "logs" /\ said[p] < Length(p) /\ file[p] # Nil
    /\ said' = [said EXCEPT ![p] = @ + 1]
    /\ data' \in {data, [data EXCEPT ![file[p]] = Append(@, <<p, said[p] + 1, "torn">>)]}
    /\ file' = [file EXCEPT ![p] = Nil]
    /\ told' = [told EXCEPT ![p] = 1]
    /\ UNCHANGED <<log, past, pc, debug, spoiled, raced>>

Finish(p) ==
    /\ pc[p] = "logs" /\ said[p] = Length(p)
    /\ Goto(p, "done")
    /\ UNCHANGED <<disk, file, spoiled>> /\ Quiet

Kill(p) ==
    /\ Active(p)
    /\ Goto(p, "dead")
    /\ UNCHANGED <<disk, file, spoiled>> /\ Quiet

Prepare(p) == Begin(p) \/ Stat(p) \/ Retire(p) \/ Rename(p) \/ RotationFails(p)
              \/ Open(p) \/ OpenFails(p)
Step(p) == Prepare(p) \/ Emit(p) \/ FileFails(p) \/ Finish(p)
Next == \E p \in Procs : Step(p) \/ Kill(p)
Spec == Init /\ [][Next]_vars

-----------------------------------------------------------------------------
(* Properties *)

TypeOK ==
    /\ \A g \in Generations : \A k \in 1 .. Len(data[g]) : data[g][k][1] \in Procs \cup {Nil}
    /\ log \in Generations \cup {Nil} /\ past \in Generations \cup {Nil}
    /\ pc \in [Procs -> Pcs]
    /\ debug \in [Procs -> BOOLEAN]
    /\ file \in [Procs -> Generations \cup {Nil}]
    /\ said \in [Procs -> 0 .. Records + Details]
    /\ told \in [Procs -> {0, 1}]
    /\ spoiled \in [Procs -> BOOLEAN] /\ raced \in [Procs -> BOOLEAN]

\* A log read later has no hole: where a record of a command stands, all before
\* it stand whole, in order and once, in the same generation.  So nothing
\* follows a torn one.
Places(p, g) == {i \in DOMAIN data[g] : data[g][i][1] = p}
InOrder(p, g) ==
    \A i \in Places(p, g) :
        /\ \A k \in 1 .. data[g][i][2] - 1 :
              \E j \in Places(p, g) : j < i /\ data[g][j] = <<p, k>>
        /\ \A j \in Places(p, g) :
              j < i => data[g][j][2] < data[g][i][2] /\ data[g][j] = <<p, data[g][j][2]>>
NoHoles == \A p \in Procs, g \in Generations : InOrder(p, g)

\* The file keeps what a broken stderr loses: as long as the sink is there,
\* it has every record.
Complete(p, g) == {data[g][i] : i \in Places(p, g)} = {<<p, k>> : k \in 1 .. said[p]}
Durable == \A p \in Procs : file[p] # Nil => Complete(p, file[p])

\* A command that meets no other finds its records under the name corvex.log:
\* what it writes to is not the generation it has just rotated away.
AtItsName == \A p \in Procs : (file[p] # Nil /\ pc[p] = "logs" /\ ~raced[p]) => log = file[p]

\* Unless it could not rotate, such a command leaves no more than the limit
\* and its own records there.
Bounded ==
    \A p \in Procs : (file[p] # Nil /\ pc[p] = "logs" /\ ~raced[p] /\ ~spoiled[p])
                        => Len(data[log]) <= Max + said[p]

\* A past generation is given up only for one that takes its place: a full
\* corvex.log is there, which is what it is removed for.
GivenUpForNext ==
    past # Nil /\ past' # past => log # Nil /\ Len(data[log]) > Max
OnePastGenerationKeptAlone == [][(\A p \in Procs : Active(p) => ~raced[p]) => GivenUpForNext]_vars

\* corvex.log has no holes, no line of it is lost once a write has succeeded, a
\* command alone writes to the file of that name, and leaves it within the
\* limit and its own records.
LogHolds == TypeOK /\ NoHoles /\ Durable /\ AtItsName /\ Bounded
=============================================================================
