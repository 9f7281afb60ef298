----------------------------- MODULE MCLifecycle -----------------------------
(***************************************************************************)
(* XrayLifecycle with all commands one after another, over every situation *)
(* and hazard, or, in other behaviours, with two stops, reloads or reports *)
(* that overlap.                                                           *)
(***************************************************************************)
EXTENDS XrayLifecycle, TLC

VARIABLE part   \* "sequence", "overlap"; chosen at the start

\* PIDs are interchangeable, and so are the invocations: no step orders or
\* compares them.
FullSymmetry == Permutations(Pids) \cup Permutations(Clis)

\* Nothing is or refers to p.
Spare(p) ==
  /\ state[p] = "none" /\ pidContent # p /\ p \notin lost
  /\ \A c \in Clis : target[c] # p /\ seen[c] # p

\* Commands that overlap do so on one PID fewer and with one fault at most.
Bounds ==
  /\ part = "sequence" => OneAtATime
  /\ part = "overlap" =>
       /\ \A c \in Clis : cmd[c] # "start"
       /\ faults <= 1 /\ \E p \in Pids : Spare(p)

MCInit ==
  /\ Init /\ part \in {"sequence", "overlap"}
  /\ part = "overlap" => pidContent # Absent /\ pidPerm # "rootDir"
MCNext == Next /\ UNCHANGED part
MCSpec == MCInit /\ [][MCNext]_<<vars, part>>
=============================================================================
