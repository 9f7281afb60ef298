----------------------------- MODULE ProxySwitch -----------------------------
(***************************************************************************)
(* What Platform::enable_proxy and disable_proxy promise their callers in  *)
(* src/src/main.rs: a switch that is off, on, or left half way by a batch  *)
(* of commands that failed, and a report the caller may act upon.          *)
(*                                                                         *)
(* Several corvex processes may have a batch in progress.  The switch is   *)
(* theirs together, so a report speaks of it only where its batch met no   *)
(* other.                                                                  *)
(***************************************************************************)
CONSTANT Callers

VARIABLES
    switch,     \* "off", "mixed", "on"
    task,       \* what each caller is doing: "none", "enable", "disable"
    told,       \* the last thing each caller was told
    before,     \* history: the switch as its batch found it
    alone       \* history: its batch has met no other

vars == <<switch, task, told, before, alone>>

Switches == {"off", "mixed", "on"}
Goal(t) == IF t = "enable" THEN "on" ELSE "off"

\* Where a failing batch may leave a switch: as it was, half way, or, if it
\* was half way already, by chance at its goal.
HalfDone(from, goal) ==
    {from, "mixed"} \cup (IF from = "mixed" THEN {goal} ELSE {})

Init ==
    /\ switch \in Switches
    /\ task = [c \in Callers |-> "none"]
    /\ told = [c \in Callers |-> "none"]
    /\ before = [c \in Callers |-> switch]
    /\ alone = [c \in Callers |-> FALSE]

\* Whoever is in progress has now met another.
Begin(c) ==
    /\ task[c] = "none"
    /\ \E t \in {"enable", "disable"} : task' = [task EXCEPT ![c] = t]
    /\ told' = [told EXCEPT ![c] = "none"]
    /\ before' = [before EXCEPT ![c] = switch]
    /\ alone' = [d \in Callers |-> d = c /\ \A e \in Callers : task[e] = "none"]
    /\ UNCHANGED switch

\* One command of the batch takes effect.
Turn(c) ==
    /\ task[c] # "none"
    /\ switch' \in {"mixed", Goal(task[c])}
    /\ UNCHANGED <<task, told, before, alone>>

Truthful(c, t) ==
    CASE t \in {"enabled", "disabled"} -> switch = Goal(task[c])
      [] t = "unchanged" -> switch = before[c]
      [] t = "failed" -> switch \in HalfDone(before[c], Goal(task[c]))
      [] OTHER -> TRUE

Finish(c) ==
    /\ task[c] # "none"
    /\ \E t \in {"enabled", "disabled", "unchanged", "failed", "killed"} :
        /\ t = "enabled" => task[c] = "enable"
        /\ t = "disabled" => task[c] = "disable"
        /\ alone[c] => Truthful(c, t)
        /\ told' = [told EXCEPT ![c] = t]
    /\ task' = [task EXCEPT ![c] = "none"]
    /\ UNCHANGED <<switch, before, alone>>

Next == \E c \in Callers : Begin(c) \/ Turn(c) \/ Finish(c)

Spec == Init /\ [][Next]_vars
=============================================================================
