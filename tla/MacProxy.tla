------------------------------- MODULE MacProxy -------------------------------
(***************************************************************************)
(* The macOS proxy batches of src/src/platform/macos.rs: networksetup      *)
(* commands run one after the other, and the whole batch run once more     *)
(* behind an administrator prompt when one of them asks for it.            *)
(*                                                                         *)
(* networksetup and osascript are external.  A command takes effect when   *)
(* it exits well and prints no error, and only then.                       *)
(***************************************************************************)
EXTENDS Naturals, Sequences, ProxyAddresses

Kinds == {"socks", "web", "secure"}

VARIABLES
    on, addr,   \* the settings, of each kind of proxy
    task,       \* "none", "enable", "disable"
    want,       \* the address it enables
    phase,      \* "plain", "prompt" (osascript asks), "chain" (as root)
    step,       \* number of the command to run next
    already,    \* already_applied
    told,       \* its last report
    before, alone,  \* history, as in ProxySwitch
    applied     \* history: one of its commands has taken effect

settings == <<on, addr>>
vars == <<settings, task, want, phase, step, already, told, before, alone, applied>>

Switch == IF \A k \in Kinds : on[k] THEN "on"
          ELSE IF \E k \in Kinds : on[k] THEN "mixed" ELSE "off"

-----------------------------------------------------------------------------
(* The batches *)

EnableCommands ==
    <<<<"set", "socks">>, <<"on", "socks">>, <<"set", "web">>, <<"on", "web">>,
      <<"set", "secure">>, <<"on", "secure">>>>

DisableCommands == <<<<"off", "socks">>, <<"off", "web">>, <<"off", "secure">>>>

Batch(t) == IF t = "enable" THEN EnableCommands ELSE DisableCommands
Command(c) == Batch(task[c])[step[c]]

Apply(c) ==
    LET k == Command(c)[2] IN
    /\ CASE Command(c)[1] = "set" -> addr' = [addr EXCEPT ![k] = want[c]] /\ UNCHANGED on
         [] Command(c)[1] = "on"  -> on' = [on EXCEPT ![k] = TRUE] /\ UNCHANGED addr
         [] OTHER                 -> on' = [on EXCEPT ![k] = FALSE] /\ UNCHANGED addr
    /\ applied' = [applied EXCEPT ![c] = TRUE]

\* What a command may answer: its exit status, and on either stream no error,
\* "** Error: Command requires admin privileges.", or another "** Error".
Replies == [exit : BOOLEAN, text : {"none", "admin", "error"}]
TookEffect(r) == r.exit /\ r.text = "none"
Answer(c, r) == IF TookEffect(r) THEN Apply(c) ELSE UNCHANGED <<settings, applied>>

FaultyTrustExit(r) ==
    IF r.exit THEN "ok" ELSE IF r.text = "admin" THEN "needsAdmin" ELSE "failed"
Classify(r) ==
    IF r.exit /\ r.text = "none" THEN "ok"
    ELSE IF r.text = "admin" THEN "needsAdmin" ELSE "failed"

\* The guarded chain goes on only past a command that exits well and prints
\* no error, although a plain && would look at the exit status alone.
FaultyPlainAnd(r) == r.exit
GuardPasses(r) == r.exit /\ r.text = "none"

CallerOK(c) ==
    /\ task[c] = "enable" => want[c] \in Ports
    /\ task[c] = "none" => phase[c] = "plain"
    /\ step[c] \in 1..(Len(Batch(task[c])) + 1)
    /\ phase[c] = "prompt" => (already[c] <=> step[c] > 1)

\* Types, and that a corvex at the prompt knows whether anything was applied.
TypeOK ==
    /\ on \in [Kinds -> BOOLEAN]
    /\ addr \in [Kinds -> Ports \cup {Other}]
    /\ task \in [Callers -> {"none", "enable", "disable"}]
    /\ want \in [Callers -> Ports \cup {Other}]
    /\ phase \in [Callers -> {"plain", "prompt", "chain"}]
    /\ step \in [Callers -> Nat]
    /\ already \in [Callers -> BOOLEAN]
    /\ told \in [Callers -> {"none", "enabled", "disabled", "unchanged", "failed", "killed"}]
    /\ before \in [Callers -> {"off", "mixed", "on"}]
    /\ alone \in [Callers -> BOOLEAN]
    /\ applied \in [Callers -> BOOLEAN]
    /\ \A c \in Callers : CallerOK(c)

-----------------------------------------------------------------------------
Init ==
    /\ on \in [Kinds -> BOOLEAN]
    /\ addr = [k \in Kinds |-> Other]
    /\ task = [c \in Callers |-> "none"]
    /\ want = [c \in Callers |-> Other]
    /\ phase = [c \in Callers |-> "plain"]
    /\ step = [c \in Callers |-> 1]
    /\ already = [c \in Callers |-> FALSE]
    /\ told = [c \in Callers |-> "none"]
    /\ before = [c \in Callers |-> Switch]
    /\ alone = [c \in Callers |-> FALSE]
    /\ applied = [c \in Callers |-> FALSE]

Begin(c) ==
    /\ task[c] = "none"
    /\ \/ \E p \in Ports : want' = [want EXCEPT ![c] = p] /\ task' = [task EXCEPT ![c] = "enable"]
       \/ task' = [task EXCEPT ![c] = "disable"] /\ UNCHANGED want
    /\ step' = [step EXCEPT ![c] = 1]
    /\ told' = [told EXCEPT ![c] = "none"]
    /\ before' = [before EXCEPT ![c] = Switch]
    /\ alone' = [d \in Callers |-> d = c /\ \A e \in Callers : task[e] = "none"]
    /\ applied' = [applied EXCEPT ![c] = FALSE]
    /\ UNCHANGED <<settings, phase, already>>

\* The batch is over; its locals are dead.
Report(c, t) ==
    /\ task' = [task EXCEPT ![c] = "none"]
    /\ told' = [told EXCEPT ![c] = t]
    /\ want' = [want EXCEPT ![c] = Other]
    /\ phase' = [phase EXCEPT ![c] = "plain"]
    /\ step' = [step EXCEPT ![c] = 1]
    /\ already' = [already EXCEPT ![c] = FALSE]

Finished(c) == step[c] > Len(Batch(task[c]))
InProgress == UNCHANGED <<task, want, told, before, alone>>

\* run_networksetup_all, one command.  One that cannot even be spawned is
\* like one that fails.
FaultyForgetsProgress(c) ==
    /\ task[c] # "none" /\ phase[c] = "plain" /\ ~Finished(c)
    /\ \E r \in Replies :
        /\ Answer(c, r)
        /\ CASE Classify(r) = "ok" ->
                  step' = [step EXCEPT ![c] = @ + 1] /\ InProgress /\ UNCHANGED <<phase, already>>
             [] Classify(r) = "needsAdmin" ->
                  phase' = [phase EXCEPT ![c] = "prompt"] /\ InProgress /\ UNCHANGED <<step, already>>
             [] OTHER -> Report(c, "failed") /\ UNCHANGED <<before, alone>>

RunPlain(c) ==
    /\ task[c] # "none" /\ phase[c] = "plain" /\ ~Finished(c)
    /\ \E r \in Replies :
        /\ Answer(c, r)
        /\ CASE Classify(r) = "ok" ->
                  /\ step' = [step EXCEPT ![c] = @ + 1]
                  /\ InProgress /\ UNCHANGED <<phase, already>>
             [] Classify(r) = "needsAdmin" ->
                  /\ phase' = [phase EXCEPT ![c] = "prompt"]
                  /\ already' = [already EXCEPT ![c] = step[c] > 1]
                  /\ InProgress /\ UNCHANGED step
             [] OTHER ->
                  Report(c, "failed") /\ UNCHANGED <<before, alone>>

\* The user answers the one prompt; the batch starts over from its first
\* command, or does not.  Without a GUI session nothing can be asked.
Authorize(c) ==
    /\ phase[c] = "prompt"
    /\ phase' = [phase EXCEPT ![c] = "chain"]
    /\ step' = [step EXCEPT ![c] = 1]
    /\ InProgress
    /\ UNCHANGED <<settings, already, applied>>

Cancel(c) ==
    /\ phase[c] = "prompt"
    /\ Report(c, IF already[c] THEN "failed" ELSE "unchanged")
    /\ UNCHANGED <<settings, before, alone, applied>>

NoGui(c) ==
    /\ phase[c] = "prompt"
    /\ Report(c, "failed")
    /\ UNCHANGED <<settings, before, alone, applied>>

RunElevated(c) ==
    /\ phase[c] = "chain" /\ ~Finished(c)
    /\ \E r \in Replies :
        /\ Answer(c, r)
        /\ \/ /\ GuardPasses(r)
              /\ step' = [step EXCEPT ![c] = @ + 1]
              /\ InProgress /\ UNCHANGED <<phase, already>>
           \/ /\ ~GuardPasses(r)
              /\ Report(c, "failed") /\ UNCHANGED <<before, alone>>

Done(c) ==
    /\ task[c] # "none" /\ phase[c] \in {"plain", "chain"} /\ Finished(c)
    /\ Report(c, IF task[c] = "enable" THEN "enabled" ELSE "disabled")
    /\ UNCHANGED <<settings, before, alone, applied>>

\* corvex is killed.  A chain whose corvex is gone but which still runs is
\* the same, to everyone else, as one whose corvex is not.
Kill(c) ==
    /\ task[c] # "none"
    /\ Report(c, "killed")
    /\ UNCHANGED <<settings, before, alone, applied>>

Next == \E c \in Callers :
    \/ Begin(c) \/ RunPlain(c) \/ Authorize(c) \/ Cancel(c) \/ NoGui(c)
    \/ RunElevated(c) \/ Done(c) \/ Kill(c)

Spec == Init /\ [][Next]_vars

-----------------------------------------------------------------------------
(* Properties *)

\* A proxy never flips on at a stale address (the comment on
\* enable_proxy_commands), whether its setter failed, lied with exit status
\* 0, or ran in another process: if two enable at once it is one of theirs.
NeverOnAtStale ==
    [][\A k \in Kinds : ~on[k] /\ on'[k] =>
         /\ addr[k] # Other
         /\ \A c \in Callers : task[c] = "enable" /\ alone[c] => addr[k] = want[c]]_vars

\* "Authorization denied - proxy settings were not changed" is said only by a
\* corvex that has changed none of them, addresses included.
HonestDenial == \A c \in Callers : told[c] = "unchanged" => ~applied[c]

\* When everyone's last word was a success of the same kind, the switch is
\* there, whatever failed or overlapped before: a batch sets every kind anew.
LastWordsAgree ==
    /\ (\A c \in Callers : told[c] = "enabled") => Switch = "on"
    /\ (\A c \in Callers : told[c] = "disabled") => Switch = "off"

\* The batches are an implementation of the switch main.rs relies upon.
PS == INSTANCE ProxySwitch WITH switch <- Switch
ImplementsProxySwitch == PS!Spec
=============================================================================
