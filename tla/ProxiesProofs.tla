---------------------------- MODULE ProxiesProofs ----------------------------
(***************************************************************************)
(* That each platform implements ProxySwitch and what it shows the proxy   *)
(* in agrees, for every set of callers and of addresses: first the macOS   *)
(* batches, then proxy.env and the desktop of Linux, then the registry and *)
(* WinHTTP of Windows, and last the three of them side by side.            *)
(***************************************************************************)
EXTENDS Proxies, TLAPS

USE OtherApart, AddressesApart, LinuxApart, ServersApart DEF OtherApart, Linux!AddressesApart

-----------------------------------------------------------------------------
(* macOS *)

-----------------------------------------------------------------------------
(* The batches *)

\* The commands of an enable, in order: each kind is set before it is switched on.
LEMMA EnableBatch ==
  /\ Len(EnableCommands) = 6
  /\ EnableCommands[1] = <<"set", "socks">> /\ EnableCommands[2] = <<"on", "socks">>
  /\ EnableCommands[3] = <<"set", "web">> /\ EnableCommands[4] = <<"on", "web">>
  /\ EnableCommands[5] = <<"set", "secure">> /\ EnableCommands[6] = <<"on", "secure">>
  BY DEF EnableCommands

\* The commands of a disable.
LEMMA DisableBatch ==
  /\ Len(DisableCommands) = 3
  /\ DisableCommands[1] = <<"off", "socks">> /\ DisableCommands[2] = <<"off", "web">>
  /\ DisableCommands[3] = <<"off", "secure">>
  BY DEF DisableCommands

\* Every batch has a first command, or is over.
LEMMA FirstStep ==
  ASSUME NEW t
  PROVE  1 \in 1..(Len(Batch(t)) + 1)
  BY EnableBatch, DisableBatch DEF Batch

\* The next command of a batch that is not over is one of its own.
LEMMA StepRange ==
  ASSUME TypeOK, NEW c \in Callers, ~Finished(c)
  PROVE  step[c] \in 1..(IF task[c] = "enable" THEN 6 ELSE 3)
<1>1. step[c] \in 1..Len(Batch(task[c]))
  BY DEF Finished, TypeOK, CallerOK
<1>2. QED
  BY <1>1, EnableBatch, DisableBatch DEF Batch

\* Every command of a batch names a kind, and only enabling ones give addresses.
LEMMA CommandTyped ==
  ASSUME TypeOK, NEW c \in Callers, ~Finished(c)
  PROVE  /\ Command(c)[1] \in {"set", "on", "off"}
         /\ Command(c)[2] \in Kinds
         /\ Command(c)[1] # "off" <=> task[c] = "enable"
<1>1. CASE task[c] = "enable"
  <2>1. step[c] \in {1, 2, 3, 4, 5, 6}
    BY <1>1, StepRange
  <2>2. QED
    BY <1>1, <2>1, EnableBatch DEF Command, Batch, Kinds
<1>2. CASE task[c] # "enable"
  <2>1. step[c] \in {1, 2, 3}
    BY <1>2, StepRange
  <2>2. QED
    BY <1>2, <2>1, DisableBatch DEF Command, Batch, Kinds
<1>3. QED
  BY <1>1, <1>2

-----------------------------------------------------------------------------
(* What running one command comes to *)

Advance(c) ==
    /\ Apply(c)
    /\ step' = [step EXCEPT ![c] = @ + 1]
    /\ InProgress /\ UNCHANGED <<phase, already>>

Ask(c) ==
    /\ phase' = [phase EXCEPT ![c] = "prompt"]
    /\ already' = [already EXCEPT ![c] = step[c] > 1]
    /\ InProgress /\ UNCHANGED <<step, settings, applied>>

GiveUp(c, t) == Report(c, t) /\ UNCHANGED <<settings, before, alone, applied>>

\* A command run without elevation takes effect, is refused for want of a
\* password, or ends the batch.
LEMMA RunCases ==
  ASSUME NEW c \in Callers, RunPlain(c)
  PROVE  /\ task[c] # "none" /\ phase[c] = "plain" /\ ~Finished(c)
         /\ Advance(c) \/ Ask(c) \/ GiveUp(c, "failed")
<1>1. PICK r \in Replies :
        /\ Answer(c, r)
        /\ CASE Classify(r) = "ok" ->
                  /\ step' = [step EXCEPT ![c] = @ + 1]
                  /\ InProgress /\ UNCHANGED <<phase, already>>
             [] Classify(r) = "needsAdmin" ->
                  /\ phase' = [phase EXCEPT ![c] = "prompt"]
                  /\ already' = [already EXCEPT ![c] = step[c] > 1]
                  /\ InProgress /\ UNCHANGED step
             [] OTHER ->
                  Report(c, "failed") /\ UNCHANGED <<before, alone>>
  BY DEF RunPlain
<1>2. TookEffect(r) <=> Classify(r) = "ok"
  BY DEF TookEffect, Classify
<1>3. CASE Classify(r) = "ok"
  BY <1>1, <1>2, <1>3 DEF Answer, Advance, RunPlain
<1>4. CASE Classify(r) = "needsAdmin"
  BY <1>1, <1>2, <1>4 DEF Answer, Ask, RunPlain
<1>5. CASE Classify(r) \notin {"ok", "needsAdmin"}
  BY <1>1, <1>2, <1>5 DEF Answer, GiveUp, RunPlain
<1>6. QED
  BY <1>3, <1>4, <1>5

\* A command of the elevated chain takes effect or ends the batch.
LEMMA ChainCases ==
  ASSUME NEW c \in Callers, RunElevated(c)
  PROVE  /\ phase[c] = "chain" /\ ~Finished(c)
         /\ Advance(c) \/ GiveUp(c, "failed")
<1>1. PICK r \in Replies :
        /\ Answer(c, r)
        /\ \/ /\ GuardPasses(r)
              /\ step' = [step EXCEPT ![c] = @ + 1]
              /\ InProgress /\ UNCHANGED <<phase, already>>
           \/ /\ ~GuardPasses(r)
              /\ Report(c, "failed") /\ UNCHANGED <<before, alone>>
  BY DEF RunElevated
<1>2. TookEffect(r) <=> GuardPasses(r)
  BY DEF TookEffect, GuardPasses
<1>3. CASE GuardPasses(r)
  BY <1>1, <1>2, <1>3 DEF Answer, Advance, RunElevated
<1>4. CASE ~GuardPasses(r)
  BY <1>1, <1>2, <1>4 DEF Answer, GiveUp, RunElevated
<1>5. QED
  BY <1>3, <1>4

\* Every way a batch ends other than through a command that fails.
LEMMA EndCases ==
  ASSUME NEW c \in Callers, Cancel(c) \/ NoGui(c) \/ Done(c) \/ Kill(c)
  PROVE  \E t \in {"enabled", "disabled", "unchanged", "failed", "killed"} : GiveUp(c, t)
  BY DEF Cancel, NoGui, Done, Kill, GiveUp

-----------------------------------------------------------------------------
(* Types *)

\* The first states are typed.
LEMMA InitTyped == Init => TypeOK
<1> SUFFICES ASSUME Init PROVE TypeOK
  OBVIOUS
<1>1. [c \in Callers |-> FALSE] \in [Callers -> BOOLEAN]
  BY Zenon
<1>2. /\ already \in [Callers -> BOOLEAN] /\ alone \in [Callers -> BOOLEAN]
      /\ applied \in [Callers -> BOOLEAN]
  BY <1>1, Zenon DEF Init
<1>3. \A c \in Callers : CallerOK(c)
  BY FirstStep DEF Init, CallerOK
<1>4. QED
  BY <1>2, <1>3 DEF Init, TypeOK, Switch

\* A command keeps the settings what they are.
LEMMA ApplyTyped ==
  ASSUME TypeOK, NEW c \in Callers, ~Finished(c), Apply(c)
  PROVE  /\ on' \in [Kinds -> BOOLEAN]
         /\ addr' \in [Kinds -> Ports \cup {Other}]
         /\ applied' \in [Callers -> BOOLEAN]
<1> DEFINE k == Command(c)[2]
<1>1. k \in Kinds /\ Command(c)[1] \in {"set", "on", "off"}
  BY CommandTyped
<1>2. /\ on' = on \/ on' = [on EXCEPT ![k] = TRUE] \/ on' = [on EXCEPT ![k] = FALSE]
      /\ addr' = addr \/ addr' = [addr EXCEPT ![k] = want[c]]
      /\ applied' = [applied EXCEPT ![c] = TRUE]
  BY <1>1 DEF Apply
<1>3. \A b \in BOOLEAN : [on EXCEPT ![k] = b] \in [Kinds -> BOOLEAN]
  BY Zenon DEF TypeOK
<1>4. [applied EXCEPT ![c] = TRUE] \in [Callers -> BOOLEAN]
  BY Zenon DEF TypeOK
<1>5. on' \in [Kinds -> BOOLEAN] /\ applied' \in [Callers -> BOOLEAN]
  BY <1>2, <1>3, <1>4 DEF TypeOK
<1>6. addr' \in [Kinds -> Ports \cup {Other}]
  BY <1>1, <1>2 DEF TypeOK
<1>7. QED
  BY <1>5, <1>6

\* Going on to the next command keeps the types.
LEMMA AdvanceTyped ==
  ASSUME TypeOK, NEW c \in Callers, ~Finished(c), task[c] # "none", Advance(c),
         phase[c] # "prompt"
  PROVE  TypeOK'
<1>1. /\ on' \in [Kinds -> BOOLEAN]
      /\ addr' \in [Kinds -> Ports \cup {Other}]
      /\ applied' \in [Callers -> BOOLEAN]
  BY ApplyTyped DEF Advance
<1>2. step[c] + 1 \in 1..(Len(Batch(task[c])) + 1)
  BY DEF TypeOK, CallerOK, Finished
<1>3. CallerOK(c)'
  BY <1>2 DEF Advance, InProgress, TypeOK, CallerOK
<1>4. ASSUME NEW d \in Callers, d # c PROVE CallerOK(d)'
  BY <1>4 DEF Advance, InProgress, TypeOK, CallerOK
<1>5. step' \in [Callers -> Nat]
  BY DEF Advance, TypeOK
<1>6. UNCHANGED <<task, want, told, before, alone, phase, already>>
  BY DEF Advance, InProgress
<1>7. QED
  BY <1>1, <1>3, <1>4, <1>5, <1>6, Zenon DEF TypeOK

\* So does ending the batch.
LEMMA GiveUpTyped ==
  ASSUME TypeOK, NEW c \in Callers,
         NEW t \in {"enabled", "disabled", "unchanged", "failed", "killed"}, GiveUp(c, t)
  PROVE  TypeOK'
<1>1. /\ already' \in [Callers -> BOOLEAN]
      /\ UNCHANGED <<on, addr, before, alone, applied>>
  BY DEF GiveUp, Report, TypeOK, settings
<1>2. CallerOK(c)'
  BY FirstStep DEF GiveUp, Report, TypeOK, CallerOK
<1>3. ASSUME NEW d \in Callers, d # c PROVE CallerOK(d)'
  BY <1>3 DEF GiveUp, Report, TypeOK, CallerOK
<1>4. QED
  BY <1>1, <1>2, <1>3 DEF GiveUp, Report, TypeOK

\* Every step keeps the types.
LEMMA NextTyped == TypeOK /\ [Next]_vars => TypeOK'
<1> SUFFICES ASSUME TypeOK, [Next]_vars PROVE TypeOK'
  OBVIOUS
<1>1. ASSUME NEW c \in Callers, Begin(c) PROVE TypeOK'
  <2>1. /\ alone' \in [Callers -> BOOLEAN] /\ applied' \in [Callers -> BOOLEAN]
        /\ UNCHANGED <<on, addr, already, phase>>
    <3>1. [d \in Callers |-> d = c /\ \A e \in Callers : task[e] = "none"]
             \in [Callers -> BOOLEAN]
      BY Zenon
    <3>2. QED
      BY <1>1, <3>1 DEF Begin, TypeOK, settings
  <2>2. /\ before' \in [Callers -> {"off", "mixed", "on"}]
        /\ task' \in [Callers -> {"none", "enable", "disable"}]
        /\ want' \in [Callers -> Ports \cup {Other}]
        /\ step' \in [Callers -> Nat] /\ step'[c] = 1
        /\ told' \in [Callers -> {"none", "enabled", "disabled", "unchanged", "failed", "killed"}]
    BY <1>1 DEF Begin, TypeOK, Switch
  <2>3. CallerOK(c)'
    BY <1>1, FirstStep DEF Begin, TypeOK, CallerOK
  <2>4. ASSUME NEW d \in Callers, d # c PROVE CallerOK(d)'
    BY <1>1, <2>4 DEF Begin, TypeOK, CallerOK
  <2>5. QED
    BY <2>1, <2>2, <2>3, <2>4 DEF TypeOK
<1>2. ASSUME NEW c \in Callers, RunPlain(c) PROVE TypeOK'
  <2>1. CASE Ask(c)
    <3>1. (step[c] > 1) \in BOOLEAN
      BY DEF TypeOK
    <3>2. already' \in [Callers -> BOOLEAN]
      BY <2>1, <3>1, Zenon DEF Ask, TypeOK
    <3>3. CallerOK(c)'
      BY <1>2, <2>1, RunCases DEF Ask, InProgress, TypeOK, CallerOK
    <3>4. ASSUME NEW d \in Callers, d # c PROVE CallerOK(d)'
      BY <2>1, <3>4 DEF Ask, InProgress, TypeOK, CallerOK
    <3>5. QED
      BY <1>2, <2>1, <3>2, <3>3, <3>4, RunCases DEF Ask, InProgress, TypeOK, settings
  <2>2. QED
    BY <1>2, <2>1, RunCases, AdvanceTyped, GiveUpTyped
<1>3. ASSUME NEW c \in Callers, RunElevated(c) PROVE TypeOK'
  <2>1. task[c] # "none"
    BY <1>3, ChainCases DEF TypeOK, CallerOK
  <2>2. QED
    BY <1>3, <2>1, ChainCases, AdvanceTyped, GiveUpTyped
<1>4. ASSUME NEW c \in Callers, Authorize(c) PROVE TypeOK'
  BY <1>4, EnableBatch, DisableBatch DEF Authorize, InProgress, TypeOK, settings, CallerOK, Batch
<1>5. ASSUME NEW c \in Callers, Cancel(c) \/ NoGui(c) \/ Done(c) \/ Kill(c) PROVE TypeOK'
  BY <1>5, EndCases, GiveUpTyped
<1>6. CASE UNCHANGED vars
  BY <1>6 DEF vars, settings, TypeOK, CallerOK, Batch
<1>7. QED
  BY <1>1, <1>2, <1>3, <1>4, <1>5, <1>6 DEF Next

\* Every variable keeps its type, and a corvex that asks for a password knows
\* whether one of its commands has already been applied.
THEOREM TypeCorrect == Spec => []TypeOK
  BY InitTyped, NextTyped, PTL DEF Spec

-----------------------------------------------------------------------------
(* What a batch that has met no other knows of the settings *)

Enabling(c) ==
    /\ step[c] > 2 => on["socks"]
    /\ step[c] > 4 => on["web"]
    /\ step[c] > 6 => on["secure"]
    /\ before[c] = "off" /\ step[c] <= 6 => ~on["secure"]
    /\ before[c] = "on" => Switch = "on"
    /\ before[c] = "mixed" => Switch # "off"

Disabling(c) ==
    /\ step[c] > 1 => ~on["socks"]
    /\ step[c] > 2 => ~on["web"]
    /\ step[c] > 3 => ~on["secure"]
    /\ before[c] = "on" /\ step[c] <= 3 => on["secure"]
    /\ before[c] = "off" => Switch = "off"
    /\ before[c] = "mixed" => Switch # "on"

Knows(c) ==
    /\ \A d \in Callers : task[d] # "none" => d = c
    /\ phase[c] # "chain" /\ step[c] = 1 => Switch = before[c]
    /\ task[c] = "enable" => Enabling(c)
    /\ task[c] = "disable" => Disabling(c)

\* Before its first command has taken effect, none has.
Pristine(c) ==
    /\ task[c] # "none" /\ phase[c] # "chain" /\ step[c] = 1 => ~applied[c]
    /\ told[c] = "unchanged" => ~applied[c] /\ task[c] = "none"

IInv ==
    /\ TypeOK
    /\ \A c \in Callers :
        /\ phase[c] = "prompt" => ~Finished(c)
        /\ Pristine(c)
        /\ task[c] # "none" /\ alone[c] => Knows(c)

\* What a command of an enable makes of the three switches.
LEMMA EnableEffect ==
  ASSUME TypeOK, NEW c \in Callers, task[c] = "enable", ~Finished(c), Apply(c)
  PROVE  \/ step[c] \in {1, 3, 5} /\ on' = on
         \/ step[c] = 2 /\ on' = [on EXCEPT !["socks"] = TRUE]
         \/ step[c] = 4 /\ on' = [on EXCEPT !["web"] = TRUE]
         \/ step[c] = 6 /\ on' = [on EXCEPT !["secure"] = TRUE]
<1>1. step[c] \in {1, 2, 3, 4, 5, 6}
  BY StepRange
<1>2. QED
  BY <1>1, EnableBatch DEF Apply, Command, Batch

\* And those of a disable.
LEMMA DisableEffect ==
  ASSUME TypeOK, NEW c \in Callers, task[c] = "disable", ~Finished(c), Apply(c)
  PROVE  \/ step[c] = 1 /\ on' = [on EXCEPT !["socks"] = FALSE]
         \/ step[c] = 2 /\ on' = [on EXCEPT !["web"] = FALSE]
         \/ step[c] = 3 /\ on' = [on EXCEPT !["secure"] = FALSE]
<1>1. step[c] \in {1, 2, 3}
  BY StepRange
<1>2. QED
  BY <1>1, DisableBatch DEF Apply, Command, Batch

\* The three positions of the switch.
LEMMA SwitchIs ==
  /\ Switch = "on" <=> on["socks"] /\ on["web"] /\ on["secure"]
  /\ Switch = "off" <=> ~on["socks"] /\ ~on["web"] /\ ~on["secure"]
  /\ Switch \in {"off", "mixed", "on"}
  BY DEF Switch, Kinds

\* The same of the state after a step.
LEMMA SwitchWillBe ==
  /\ Switch' = "on" <=> on'["socks"] /\ on'["web"] /\ on'["secure"]
  /\ Switch' = "off" <=> ~on'["socks"] /\ ~on'["web"] /\ ~on'["secure"]
  /\ Switch' \in {"off", "mixed", "on"}
  BY DEF Switch, Kinds

\* A command that takes effect leaves a lone batch knowing one kind more.
LEMMA AdvanceKnows ==
  ASSUME TypeOK, NEW c \in Callers, Knows(c), task[c] # "none", ~Finished(c), Advance(c)
  PROVE  Knows(c)'
<1>1. /\ Apply(c) /\ step'[c] = step[c] + 1 /\ step[c] \in Nat \ {0}
      /\ UNCHANGED <<task, phase, before>>
  BY DEF Advance, InProgress, TypeOK, CallerOK
<1>2. CASE task[c] = "enable"
  <2>1. Enabling(c)'
    BY <1>1, <1>2, EnableEffect, SwitchIs, SwitchWillBe DEF Knows, Enabling, TypeOK, Kinds
  <2>2. QED
    BY <1>1, <1>2, <2>1 DEF Knows
<1>3. CASE task[c] = "disable"
  <2>1. Disabling(c)'
    BY <1>1, <1>3, DisableEffect, SwitchIs, SwitchWillBe DEF Knows, Disabling, TypeOK, Kinds
  <2>2. QED
    BY <1>1, <1>3, <2>1 DEF Knows
<1>4. QED
  BY <1>2, <1>3 DEF TypeOK

\* Going on is past the first command, so nothing need be untouched any more.
LEMMA AdvancePristine ==
  ASSUME TypeOK, NEW c \in Callers, Pristine(c), task[c] # "none", Advance(c)
  PROVE  Pristine(c)'
  BY DEF Advance, Apply, InProgress, Pristine, TypeOK, CallerOK

\* A step of one caller takes nothing from what another knows, for whoever
\* knows anything is the only one in progress.
LEMMA OthersKnow ==
  ASSUME IInv, NEW c \in Callers, NEW d \in Callers, d # c, task[c] # "none",
         UNCHANGED alone, task'[d] = task[d]
  PROVE  task'[d] # "none" /\ alone'[d] => Knows(d)'
<1>1. task[d] # "none" /\ alone[d] => FALSE
  BY DEF IInv, Knows
<1>2. QED
  BY <1>1

\* Going on keeps the invariant.
LEMMA AdvanceIInv ==
  ASSUME IInv, NEW c \in Callers, task[c] # "none", phase[c] # "prompt", ~Finished(c), Advance(c)
  PROVE  IInv'
<1>1. TypeOK'
  BY AdvanceTyped DEF IInv
<1>2. /\ phase'[c] # "prompt" /\ Pristine(c)'
      /\ task'[c] # "none" /\ alone'[c] => Knows(c)'
  BY AdvanceKnows, AdvancePristine DEF IInv, Advance, InProgress
<1>3. ASSUME NEW d \in Callers, d # c
      PROVE  /\ phase'[d] = "prompt" => ~Finished(d)'
             /\ Pristine(d)'
             /\ task'[d] # "none" /\ alone'[d] => Knows(d)'
  <2>1. /\ UNCHANGED <<task, phase, told, alone>>
        /\ step'[d] = step[d] /\ applied'[d] = applied[d]
    BY <1>3 DEF Advance, Apply, InProgress, IInv, TypeOK
  <2>2. QED
    BY <1>3, <2>1, OthersKnow DEF IInv, Finished, Pristine
<1>4. QED
  BY <1>1, <1>2, <1>3 DEF IInv

\* So does ending the batch.
LEMMA GiveUpIInv ==
  ASSUME IInv, NEW c \in Callers, task[c] # "none",
         NEW t \in {"enabled", "disabled", "unchanged", "failed", "killed"}, GiveUp(c, t),
         t = "unchanged" => ~applied[c]
  PROVE  IInv'
<1>1. TypeOK'
  BY GiveUpTyped DEF IInv
<1>2. /\ task'[c] = "none" /\ phase'[c] = "plain" /\ told'[c] = t
      /\ UNCHANGED <<alone, applied>>
  BY DEF GiveUp, Report, IInv, TypeOK
<1>3. ASSUME NEW d \in Callers, d # c
      PROVE  /\ phase'[d] = "prompt" => ~Finished(d)'
             /\ Pristine(d)'
             /\ task'[d] # "none" /\ alone'[d] => Knows(d)'
  <2>1. /\ UNCHANGED <<alone, applied>>
        /\ task'[d] = task[d] /\ phase'[d] = phase[d] /\ told'[d] = told[d]
        /\ step'[d] = step[d]
    BY <1>3 DEF GiveUp, Report, IInv, TypeOK
  <2>2. QED
    BY <1>3, <2>1, OthersKnow DEF IInv, Finished, Pristine
<1>4. QED
  BY <1>1, <1>2, <1>3 DEF IInv, Pristine

\* Every step keeps the invariant.
LEMMA NextIInv == IInv /\ [Next]_vars => IInv'
<1> SUFFICES ASSUME IInv, [Next]_vars PROVE IInv'
  OBVIOUS
<1> TypeOK
  BY DEF IInv
<1>1. ASSUME NEW c \in Callers, Begin(c) PROVE IInv'
  <2>1. /\ task[c] = "none" /\ task'[c] \in {"enable", "disable"} /\ step'[c] = 1
        /\ before'[c] = Switch /\ told'[c] = "none" /\ applied'[c] = FALSE
        /\ UNCHANGED <<on, phase>>
        /\ \A d \in Callers : alone'[d] <=> d = c /\ \A e \in Callers : task[e] = "none"
    BY <1>1 DEF Begin, TypeOK, settings
  <2>2. phase'[c] = "plain" /\ Switch' = Switch
    BY <2>1 DEF TypeOK, CallerOK, Switch
  <2>3. Pristine(c)'
    BY <2>1 DEF Pristine
  <2>4. alone'[c] => Knows(c)'
    <3>1. ASSUME alone'[c] PROVE \A d \in Callers : task'[d] # "none" => d = c
      BY <1>1, <2>1, <3>1 DEF Begin, TypeOK
    <3>2. Enabling(c)' /\ Disabling(c)'
      BY <2>1, <2>2, SwitchIs, SwitchWillBe DEF Enabling, Disabling
    <3>3. QED
      BY <2>1, <2>2, <3>1, <3>2 DEF Knows
  <2>5. ASSUME NEW d \in Callers, d # c
        PROVE  /\ phase'[d] = "prompt" => ~Finished(d)'
               /\ Pristine(d)' /\ ~alone'[d]
    <3>1. /\ task'[d] = task[d] /\ told'[d] = told[d] /\ step'[d] = step[d]
          /\ applied'[d] = applied[d]
      BY <1>1, <2>5 DEF Begin, TypeOK
    <3>2. QED
      BY <2>1, <2>5, <3>1 DEF IInv, Finished, Pristine
  <2>6. QED
    BY <1>1, <2>2, <2>3, <2>4, <2>5, NextTyped DEF IInv
<1>2. ASSUME NEW c \in Callers, RunPlain(c) PROVE IInv'
  <2>1. task[c] # "none" /\ phase[c] = "plain" /\ ~Finished(c)
    BY <1>2, RunCases
  <2>2. CASE Ask(c)
    <3>1. UNCHANGED <<task, step, told, before, alone, on, applied>> /\ phase'[c] = "prompt"
      BY <2>2 DEF Ask, InProgress, settings, TypeOK
    <3>2. ~Finished(c)' /\ Pristine(c)' /\ (alone'[c] => Knows(c)')
      BY <2>1, <3>1 DEF IInv, Finished, Pristine, Knows, Enabling, Disabling, Switch
    <3>3. ASSUME NEW d \in Callers, d # c
          PROVE  /\ phase'[d] = "prompt" => ~Finished(d)'
                 /\ Pristine(d)'
                 /\ task'[d] # "none" /\ alone'[d] => Knows(d)'
      <4>1. phase'[d] = phase[d]
        BY <2>2, <3>3 DEF Ask, TypeOK
      <4>2. QED
        BY <2>1, <3>1, <3>3, <4>1, OthersKnow DEF IInv, Finished, Pristine
    <3>4. QED
      BY <3>2, <3>3, NextTyped DEF IInv
  <2>3. QED
    BY <1>2, <2>1, <2>2, RunCases, AdvanceIInv, GiveUpIInv
<1>3. ASSUME NEW c \in Callers, RunElevated(c) PROVE IInv'
  <2>1. task[c] # "none"
    BY <1>3, ChainCases DEF TypeOK, CallerOK
  <2>2. QED
    BY <1>3, <2>1, ChainCases, AdvanceIInv, GiveUpIInv
<1>4. ASSUME NEW c \in Callers, Authorize(c) PROVE IInv'
  <2>1. /\ phase[c] = "prompt" /\ task[c] # "none" /\ phase'[c] = "chain" /\ step'[c] = 1
        /\ UNCHANGED <<task, told, before, alone, on, applied>>
    BY <1>4 DEF Authorize, InProgress, settings, TypeOK, CallerOK
  <2>2. Pristine(c)'
    BY <2>1 DEF IInv, Pristine
  <2>3. alone'[c] => Knows(c)'
    <3>1. step[c] \in 1..(IF task[c] = "enable" THEN 6 ELSE 3)
      BY <2>1, StepRange DEF IInv
    <3>2. QED
      BY <2>1, <3>1 DEF IInv, Knows, Enabling, Disabling, Switch
  <2>4. ASSUME NEW d \in Callers, d # c
        PROVE  /\ phase'[d] = "prompt" => ~Finished(d)'
               /\ Pristine(d)'
               /\ task'[d] # "none" /\ alone'[d] => Knows(d)'
    <3>1. phase'[d] = phase[d] /\ step'[d] = step[d]
      BY <1>4, <2>4 DEF Authorize, TypeOK
    <3>2. QED
      BY <2>1, <2>4, <3>1, OthersKnow DEF IInv, Finished, Pristine
  <2>5. QED
    BY <2>1, <2>2, <2>3, <2>4, NextTyped DEF IInv
<1>5. ASSUME NEW c \in Callers, Cancel(c) PROVE IInv'
  <2>1. task[c] # "none" /\ phase[c] = "prompt"
    BY <1>5 DEF Cancel, TypeOK, CallerOK
  <2>2. already[c] \/ ~applied[c]
    BY <2>1 DEF IInv, Pristine, TypeOK, CallerOK
  <2>3. CASE GiveUp(c, "failed")
    BY <2>1, <2>3, GiveUpIInv
  <2>4. CASE ~already[c] /\ GiveUp(c, "unchanged")
    BY <2>1, <2>2, <2>4, GiveUpIInv
  <2>5. QED
    BY <1>5, <2>3, <2>4 DEF Cancel, GiveUp
<1>6. ASSUME NEW c \in Callers, NoGui(c) \/ Done(c) \/ Kill(c) PROVE IInv'
  <2>1. task[c] # "none"
    BY <1>6 DEF NoGui, Done, Kill, TypeOK, CallerOK
  <2>2. \E t \in {"enabled", "disabled", "failed", "killed"} : GiveUp(c, t)
    BY <1>6 DEF NoGui, Done, Kill, GiveUp
  <2>3. QED
    BY <2>1, <2>2, GiveUpIInv
<1>7. CASE UNCHANGED vars
  BY <1>7, NextTyped DEF vars, settings, IInv, Finished, Pristine, Knows, Enabling, Disabling, Switch
<1>8. QED
  BY <1>1, <1>2, <1>3, <1>4, <1>5, <1>6, <1>7 DEF Next

\* What a batch that has met no other has seen of the three proxies is still so
\* when it runs its next command (macos.rs, run_networksetup_batch).
THEOREM Inductive == Spec => []IInv
<1>1. Init => IInv
  BY InitTyped DEF Init, IInv, Pristine
<1>2. QED
  BY <1>1, NextIInv, PTL DEF Spec

\* "proxy settings were not changed" is the truth about the settings, as far
\* as the corvex that says so is concerned.
THEOREM Denial == Spec => []HonestDenial
<1>1. IInv => HonestDenial
  BY DEF IInv, Pristine, HonestDenial
<1>2. QED
  BY <1>1, Inductive, PTL

-----------------------------------------------------------------------------
(* The batches implement the switch *)

\* A command that takes effect turns the switch, or leaves it half way.
LEMMA AdvanceRefined ==
  ASSUME TypeOK, NEW c \in Callers, task[c] # "none", ~Finished(c), Advance(c)
  PROVE  PS!Turn(c) \/ UNCHANGED PS!vars
<1>1. UNCHANGED <<task, told, before, alone>> /\ Apply(c)
  BY DEF Advance, InProgress
<1>2. CASE task[c] = "enable"
  BY <1>1, <1>2, EnableEffect, SwitchIs, SwitchWillBe
     DEF PS!Turn, PS!Goal, PS!vars, TypeOK, Kinds
<1>3. CASE task[c] = "disable"
  BY <1>1, <1>3, DisableEffect, SwitchIs, SwitchWillBe
     DEF PS!Turn, PS!Goal, PS!vars, TypeOK, Kinds
<1>4. QED
  BY <1>2, <1>3 DEF TypeOK

\* A batch that ends with a truthful report is a finished one of ProxySwitch.
LEMMA GiveUpRefined ==
  ASSUME NEW c \in Callers, task[c] # "none",
         NEW t \in {"enabled", "disabled", "unchanged", "failed", "killed"}, GiveUp(c, t),
         t = "enabled" => task[c] = "enable",
         t = "disabled" => task[c] = "disable",
         alone[c] => PS!Truthful(c, t)
  PROVE  PS!Finish(c)
<1>1. /\ told' = [told EXCEPT ![c] = t] /\ task' = [task EXCEPT ![c] = "none"]
      /\ UNCHANGED <<Switch, before, alone>>
  BY DEF GiveUp, Report, settings, Switch
<1>2. QED
  BY <1>1 DEF PS!Finish

\* A batch that has not run its last command has not reached its goal, unless
\* it found the switch half way or there already.
LEMMA FailureTruthful ==
  ASSUME IInv, NEW c \in Callers, task[c] # "none", ~Finished(c)
  PROVE  alone[c] => PS!Truthful(c, "failed")
<1> DEFINE goal == PS!Goal(task[c])
<1> SUFFICES ASSUME alone[c] PROVE Switch \in PS!HalfDone(before[c], goal)
  BY DEF PS!Truthful
<1>1. Knows(c) /\ step[c] \in 1..(IF task[c] = "enable" THEN 6 ELSE 3)
  BY StepRange DEF IInv
<1>2. \/ task[c] = "enable" /\ step[c] <= 6 /\ Enabling(c) /\ goal = "on"
      \/ task[c] = "disable" /\ step[c] <= 3 /\ Disabling(c) /\ goal = "off"
  BY <1>1 DEF IInv, TypeOK, Knows, PS!Goal
<1>3. before[c] # goal /\ before[c] # "mixed" => Switch # goal
  BY <1>2, SwitchIs DEF IInv, TypeOK, Enabling, Disabling
<1>4. /\ before[c] = goal => Switch = goal
      /\ before[c] = "mixed" => Switch = "mixed" \/ Switch = goal
  BY <1>2, SwitchIs DEF Enabling, Disabling
<1>5. /\ Switch \in {"off", "mixed", "on"} /\ before[c] \in {"off", "mixed", "on"}
      /\ goal \in {"off", "on"}
  BY <1>2, SwitchIs DEF IInv, TypeOK
<1> HIDE DEF goal
<1>6. QED
  BY <1>3, <1>4, <1>5 DEF PS!HalfDone

\* Every step is one of the switch or leaves it alone.
LEMMA NextRefined == IInv /\ [Next]_vars => [PS!Next]_(PS!vars)
<1> SUFFICES ASSUME IInv, [Next]_vars PROVE PS!Next \/ UNCHANGED PS!vars
  OBVIOUS
<1> TypeOK
  BY DEF IInv
<1>1. ASSUME NEW c \in Callers, Begin(c) PROVE PS!Begin(c)
  BY <1>1 DEF Begin, settings, Switch, PS!Begin
<1>2. ASSUME NEW c \in Callers, RunPlain(c) PROVE PS!Turn(c) \/ PS!Finish(c) \/ UNCHANGED PS!vars
  <2>1. task[c] # "none" /\ ~Finished(c)
    BY <1>2, RunCases
  <2>2. CASE Ask(c)
    BY <2>2 DEF Ask, InProgress, settings, Switch, PS!vars
  <2>3. QED
    BY <1>2, <2>1, <2>2, RunCases, AdvanceRefined, GiveUpRefined, FailureTruthful
<1>3. ASSUME NEW c \in Callers, RunElevated(c) PROVE PS!Turn(c) \/ PS!Finish(c) \/ UNCHANGED PS!vars
  <2>1. task[c] # "none" /\ ~Finished(c)
    BY <1>3, ChainCases DEF TypeOK, CallerOK
  <2>2. QED
    BY <1>3, <2>1, ChainCases, AdvanceRefined, GiveUpRefined, FailureTruthful
<1>4. ASSUME NEW c \in Callers, Authorize(c) PROVE UNCHANGED PS!vars
  BY <1>4 DEF Authorize, InProgress, settings, Switch, PS!vars
<1>5. ASSUME NEW c \in Callers, Cancel(c) \/ NoGui(c) PROVE PS!Finish(c)
  <2>1. task[c] # "none" /\ phase[c] = "prompt" /\ ~Finished(c)
    BY <1>5 DEF Cancel, NoGui, IInv, TypeOK, CallerOK
  <2>2. CASE GiveUp(c, "failed")
    BY <2>1, <2>2, GiveUpRefined, FailureTruthful
  <2>3. CASE ~already[c] /\ GiveUp(c, "unchanged")
    <3>1. step[c] = 1
      BY <2>1, <2>3, StepRange DEF TypeOK, CallerOK
    <3>2. alone[c] => PS!Truthful(c, "unchanged")
      BY <2>1, <3>1 DEF IInv, Knows, PS!Truthful
    <3>3. QED
      BY <2>1, <2>3, <3>2, GiveUpRefined
  <2>4. QED
    BY <1>5, <2>2, <2>3 DEF Cancel, NoGui, GiveUp
<1>6. ASSUME NEW c \in Callers, Done(c) PROVE PS!Finish(c)
  <2>1. task[c] \in {"enable", "disable"} /\ Finished(c)
    BY <1>6 DEF Done, TypeOK
  <2>2. alone[c] => Switch = PS!Goal(task[c])
    <3>1. task[c] = "enable" => step[c] > 6
      BY <2>1, EnableBatch DEF Finished, Batch
    <3>2. task[c] = "disable" => step[c] > 3
      BY <2>1, DisableBatch DEF Finished, Batch
    <3>3. step[c] \in Nat
      BY DEF TypeOK
    <3>4. QED
      BY <2>1, <3>1, <3>2, <3>3, SwitchIs DEF IInv, Knows, Enabling, Disabling, PS!Goal
  <2>3. GiveUp(c, IF task[c] = "enable" THEN "enabled" ELSE "disabled")
    BY <1>6 DEF Done, GiveUp
  <2>4. QED
    BY <2>1, <2>2, <2>3, GiveUpRefined DEF PS!Truthful
<1>7. ASSUME NEW c \in Callers, Kill(c) PROVE PS!Finish(c)
  BY <1>7, GiveUpRefined DEF Kill, GiveUp, PS!Truthful
<1>8. CASE UNCHANGED vars
  BY <1>8 DEF vars, settings, Switch, PS!vars
<1>9. QED
  BY <1>1, <1>2, <1>3, <1>4, <1>5, <1>6, <1>7, <1>8 DEF Next, PS!Next

\* What the callers in main.rs may assume of enable_proxy and disable_proxy is
\* what the macOS batches do, whatever networksetup and the user answer.
THEOREM Refinement == Spec => ImplementsProxySwitch
<1>1. Init => PS!Init
  BY SwitchIs DEF Init, PS!Init, PS!Switches
<1>2. QED
  BY <1>1, NextRefined, Inductive, PTL DEF Spec, ImplementsProxySwitch, PS!Spec

-----------------------------------------------------------------------------
(***************************************************************************)
(* What batches that overlap leave behind.  While every caller's last word *)
(* is, or may yet be, the same, a kind that is not as they want it has a   *)
(* batch that has still to come to it (Agreed); and a batch past the       *)
(* setter of a kind has left an address of corvex's there (Addressed).     *)
(***************************************************************************)
Word(t) == IF t = "enable" THEN "enabled" ELSE "disabled"

\* The command of a batch that turns kind k on or off.
Turns(t, k) ==
  IF t = "enable" THEN (IF k = "socks" THEN 2 ELSE IF k = "web" THEN 4 ELSE 6)
  ELSE (IF k = "socks" THEN 1 ELSE IF k = "web" THEN 2 ELSE 3)

Agreed(t) ==
  (\A c \in Callers : task[c] = t \/ told[c] = Word(t)) =>
    \A k \in Kinds : \/ on[k] <=> t = "enable"
                     \/ \E c \in Callers : task[c] = t /\ step[c] <= Turns(t, k)

Addressed(c) ==
  task[c] = "enable" =>
    \A k \in Kinds : step[c] >= Turns("enable", k) =>
      addr[k] # Other /\ (alone[c] => addr[k] = want[c])

WInv ==
  /\ IInv /\ Agreed("enable") /\ Agreed("disable")
  /\ \A c \in Callers :
       /\ told[c] \in {"enabled", "disabled"} => task[c] = "none"
       /\ Addressed(c)

\* A batch is begun, goes on, asks, starts over, or ends, with success only
\* after its last command.
Over(c, t) ==
  /\ GiveUp(c, t)
  /\ t = "enabled" => task[c] = "enable" /\ step[c] > 6
  /\ t = "disabled" => task[c] = "disable" /\ step[c] > 3
Waits(c) ==
  /\ UNCHANGED <<on, addr, task, want, told, alone>>
  /\ step' = step \/ step' = [step EXCEPT ![c] = 1]

\* Those are all the steps there are.
LEMMA StepCases ==
  ASSUME IInv, Next
  PROVE  \E c \in Callers :
           \/ Begin(c)
           \/ task[c] # "none" /\ ~Finished(c) /\ Advance(c)
           \/ Waits(c)
           \/ task[c] # "none" /\ \E t \in {"enabled", "disabled", "unchanged", "failed", "killed"} : Over(c, t)
<1> TypeOK
  BY DEF IInv
<1>1. ASSUME NEW c \in Callers, RunPlain(c) \/ RunElevated(c)
      PROVE  \/ task[c] # "none" /\ ~Finished(c) /\ Advance(c)
             \/ Waits(c)
             \/ task[c] # "none" /\ Over(c, "failed")
  <2>1. task[c] # "none" /\ ~Finished(c) /\ (Advance(c) \/ Ask(c) \/ GiveUp(c, "failed"))
    BY <1>1, RunCases, ChainCases DEF TypeOK, CallerOK
  <2>2. Ask(c) => Waits(c)
    BY DEF Ask, Waits, InProgress, settings
  <2>3. QED
    BY <2>1, <2>2 DEF Over
<1>2. ASSUME NEW c \in Callers, Authorize(c) PROVE Waits(c)
  BY <1>2 DEF Authorize, Waits, InProgress, settings
<1>3. ASSUME NEW c \in Callers, Cancel(c) \/ NoGui(c) \/ Kill(c)
      PROVE  task[c] # "none" /\ \E t \in {"unchanged", "failed", "killed"} : Over(c, t)
  BY <1>3 DEF Cancel, NoGui, Kill, Over, GiveUp, TypeOK, CallerOK
<1>4. ASSUME NEW c \in Callers, Done(c)
      PROVE  task[c] # "none" /\ \E t \in {"enabled", "disabled"} : Over(c, t)
  <2>1. task[c] \in {"enable", "disable"} /\ Finished(c)
    BY <1>4 DEF Done, TypeOK
  <2>2. /\ task[c] = "enable" => step[c] > 6
        /\ task[c] = "disable" => step[c] > 3
    BY <2>1, EnableBatch, DisableBatch DEF Finished, Batch
  <2>3. GiveUp(c, IF task[c] = "enable" THEN "enabled" ELSE "disabled")
    BY <1>4 DEF Done, GiveUp
  <2>4. QED
    BY <2>1, <2>2, <2>3 DEF Over
<1>5. QED
  BY <1>1, <1>2, <1>3, <1>4 DEF Next

\* What a command of an enable makes of the addresses.
LEMMA EnableAddresses ==
  ASSUME TypeOK, NEW c \in Callers, task[c] = "enable", ~Finished(c), Apply(c)
  PROVE  \/ step[c] \in {2, 4, 6} /\ addr' = addr
         \/ step[c] = 1 /\ addr' = [addr EXCEPT !["socks"] = want[c]]
         \/ step[c] = 3 /\ addr' = [addr EXCEPT !["web"] = want[c]]
         \/ step[c] = 5 /\ addr' = [addr EXCEPT !["secure"] = want[c]]
<1>1. step[c] \in {1, 2, 3, 4, 5, 6}
  BY StepRange
<1>2. QED
  BY <1>1, EnableBatch DEF Apply, Command, Batch

\* And a disable of them: nothing.
LEMMA DisableAddresses ==
  ASSUME TypeOK, NEW c \in Callers, task[c] = "disable", ~Finished(c), Apply(c)
  PROVE  addr' = addr
<1>1. step[c] \in {1, 2, 3}
  BY StepRange
<1>2. QED
  BY <1>1, DisableBatch DEF Apply, Command, Batch

\* Going on keeps the agreement: the batch has come to the kind it turned, and
\* one that turns kinds the other way is not agreed with.
LEMMA AdvanceAgreed ==
  ASSUME WInv, NEW c \in Callers, task[c] # "none", ~Finished(c), Advance(c),
         NEW t \in {"enable", "disable"}
  PROVE  Agreed(t)'
<1> TypeOK
  BY DEF WInv, IInv
<1>1. /\ Apply(c) /\ step' = [step EXCEPT ![c] = @ + 1] /\ step[c] \in Nat
      /\ UNCHANGED <<task, told>>
  BY DEF Advance, InProgress, TypeOK
<1>2. CASE task[c] # t
  BY <1>1, <1>2 DEF WInv, Agreed, Word
<1>3. CASE task[c] = t
  <2> SUFFICES ASSUME \A d \in Callers : task[d] = t \/ told[d] = Word(t), NEW k \in Kinds
               PROVE  \/ on'[k] <=> t = "enable"
                      \/ \E d \in Callers : task[d] = t /\ step'[d] <= Turns(t, k)
    BY <1>1 DEF Agreed
  <2>1. \/ on[k] <=> t = "enable"
        \/ \E d \in Callers : task[d] = t /\ step[d] <= Turns(t, k)
    BY DEF WInv, Agreed
  <2>2. on'[k] = on[k] \/ (on'[k] <=> t = "enable")
    BY <1>1, <1>3, EnableEffect, DisableEffect DEF TypeOK, Kinds
  <2>3. step[c] = Turns(t, k) => (on'[k] <=> t = "enable")
    BY <1>1, <1>3, EnableEffect, DisableEffect DEF TypeOK, Kinds, Turns
  <2>4. CASE step[c] = Turns(t, k) \/ (on[k] <=> t = "enable")
    BY <2>2, <2>3, <2>4
  <2>5. CASE step[c] # Turns(t, k) /\ ~(on[k] <=> t = "enable")
    <3>1. PICK d \in Callers : task[d] = t /\ step[d] <= Turns(t, k)
      BY <2>1, <2>5
    <3>2. step'[d] <= Turns(t, k)
      BY <1>1, <2>5, <3>1 DEF TypeOK, Turns
    <3>3. QED
      BY <3>1, <3>2
  <2>6. QED
    BY <2>4, <2>5
<1>4. QED
  BY <1>2, <1>3

\* Every step keeps what overlapping batches leave behind.
LEMMA NextWInv == ASSUME WInv, [Next]_vars PROVE WInv'
<1> IInv /\ TypeOK /\ IInv' /\ TypeOK'
  BY NextIInv DEF WInv, IInv
<1>1. ASSUME NEW c \in Callers, Begin(c) PROVE WInv'
  <2>1. /\ task[c] = "none" /\ task'[c] \in {"enable", "disable"} /\ step'[c] = 1
        /\ told'[c] = "none" /\ UNCHANGED <<on, addr>>
        /\ \A d \in Callers \ {c} :
             /\ task'[d] = task[d] /\ told'[d] = told[d] /\ step'[d] = step[d]
             /\ want'[d] = want[d] /\ ~alone'[d]
    <3>1. \A d \in Callers : alone'[d] <=> d = c /\ \A e \in Callers : task[e] = "none"
      BY <1>1, Zenon DEF Begin
    <3>2. QED
      BY <1>1, <3>1 DEF Begin, TypeOK, settings
  <2>2. ASSUME NEW t \in {"enable", "disable"} PROVE Agreed(t)'
    <3>1. CASE task'[c] = t
      <4>1. \A k \in Kinds : step'[c] <= Turns(t, k)
        BY <2>1 DEF Turns
      <4>2. QED
        BY <3>1, <4>1 DEF Agreed
    <3>2. CASE task'[c] # t
      BY <2>1, <3>2 DEF Agreed, Word
    <3>3. QED
      BY <3>1, <3>2
  <2>3. Addressed(c)'
    BY <2>1 DEF Addressed, Turns
  <2>4. ASSUME NEW d \in Callers, d # c PROVE Addressed(d)'
    BY <2>1, <2>4 DEF WInv, Addressed
  <2>5. \A d \in Callers : told'[d] \in {"enabled", "disabled"} => task'[d] = "none"
    BY <2>1 DEF WInv
  <2>6. QED
    BY <2>2, <2>3, <2>4, <2>5 DEF WInv
<1>2. ASSUME NEW c \in Callers, task[c] # "none", ~Finished(c), Advance(c) PROVE WInv'
  <2>1. /\ Apply(c) /\ step' = [step EXCEPT ![c] = @ + 1] /\ step[c] \in Nat
        /\ UNCHANGED <<task, told, want, alone>>
    BY <1>2 DEF Advance, InProgress, TypeOK
  <2>2. Agreed("enable")' /\ Agreed("disable")'
    BY <1>2, AdvanceAgreed
  <2>3. ASSUME NEW d \in Callers PROVE Addressed(d)'
    <3>1. CASE task[c] = "disable"
      <4>1. addr' = addr
        BY <1>2, <2>1, <3>1, DisableAddresses
      <4>2. d = c => task'[d] # "enable"
        BY <2>1, <3>1
      <4>3. d # c => step'[d] = step[d]
        BY <2>1 DEF TypeOK
      <4>4. QED
        BY <2>1, <4>1, <4>2, <4>3 DEF WInv, Addressed
    <3>2. CASE task[c] = "enable"
      <4>1. /\ want[c] \in Ports /\ addr \in [Kinds -> Ports \cup {Other}]
            /\ \A e \in Callers \ {c} : step'[e] = step[e]
            /\ step'[c] = step[c] + 1
        BY <2>1, <3>2 DEF TypeOK, CallerOK
      <4>2. \A k \in Kinds : addr'[k] = addr[k] \/ addr'[k] = want[c]
        BY <1>2, <2>1, <3>2, <4>1, EnableAddresses
      <4>3. CASE d # c
        <5>1. task[d] # "none" => ~alone[d]
          BY <1>2, <4>3 DEF IInv, Knows
        <5>2. QED
          BY <2>1, <4>1, <4>2, <4>3, <5>1 DEF WInv, Addressed
      <4>4. CASE d = c
        <5>1. ASSUME NEW k \in Kinds, step'[c] >= Turns("enable", k)
              PROVE  addr'[k] # Other /\ (alone[c] => addr'[k] = want[c])
          <6>1. CASE step[c] >= Turns("enable", k)
            BY <3>2, <4>1, <4>2, <6>1 DEF WInv, Addressed
          <6>2. CASE step[c] + 1 = Turns("enable", k)
            BY <1>2, <2>1, <3>2, <4>1, <6>2, EnableAddresses DEF Turns, Kinds
          <6>3. QED
            BY <2>1, <4>1, <5>1, <6>1, <6>2 DEF Turns
        <5>2. QED
          BY <2>1, <4>4, <5>1 DEF Addressed
      <4>5. QED
        BY <4>3, <4>4
    <3>3. QED
      BY <1>2, <3>1, <3>2 DEF TypeOK
  <2>4. QED
    BY <2>1, <2>2, <2>3 DEF WInv
<1>3. ASSUME NEW c \in Callers, Waits(c) PROVE WInv'
  <2>1. \A d \in Callers : step'[d] \in Nat /\ step[d] \in Nat /\ step'[d] <= step[d]
    <3>1. \A d \in Callers : step[d] \in Nat /\ step[d] >= 1
      BY EnableBatch, DisableBatch DEF TypeOK, CallerOK, Batch
    <3>2. QED
      BY <1>3, <3>1 DEF Waits, TypeOK
  <2>2. \A k \in Kinds, t \in {"enable", "disable"} : Turns(t, k) \in Nat
    BY DEF Turns
  <2>3. Agreed("enable")' /\ Agreed("disable")'
    BY <1>3, <2>1, <2>2 DEF Waits, WInv, Agreed
  <2>4. \A d \in Callers : Addressed(d)'
    BY <1>3, <2>1, <2>2 DEF Waits, WInv, Addressed
  <2>5. QED
    BY <1>3, <2>3, <2>4 DEF Waits, WInv
<1>4. ASSUME NEW c \in Callers, task[c] # "none",
             NEW r \in {"enabled", "disabled", "unchanged", "failed", "killed"}, Over(c, r)
      PROVE  WInv'
  <2>1. /\ task'[c] = "none" /\ told'[c] = r /\ UNCHANGED <<on, addr, alone>>
        /\ \A d \in Callers \ {c} :
             /\ task'[d] = task[d] /\ told'[d] = told[d] /\ step'[d] = step[d]
             /\ want'[d] = want[d]
        /\ step[c] \in Nat
    BY <1>4 DEF Over, GiveUp, Report, TypeOK, settings
  <2>2. ASSUME NEW t \in {"enable", "disable"} PROVE Agreed(t)'
    <3>1. CASE r # Word(t)
      BY <2>1, <3>1 DEF Agreed
    <3>2. CASE r = Word(t)
      <4>1. task[c] = t /\ \A k \in Kinds : step[c] > Turns(t, k)
        BY <1>4, <2>1, <3>2 DEF Over, Word, Turns
      <4>2. \A k \in Kinds : Turns(t, k) \in Nat
        BY DEF Turns
      <4>3. QED
        BY <2>1, <4>1, <4>2 DEF WInv, Agreed
    <3>3. QED
      BY <3>1, <3>2
  <2>3. \A d \in Callers : Addressed(d)'
    BY <2>1 DEF WInv, Addressed
  <2>4. QED
    BY <2>1, <2>2, <2>3 DEF WInv
<1>5. CASE UNCHANGED vars
  BY <1>5 DEF vars, settings, WInv, Agreed, Addressed
<1>6. QED
  BY <1>1, <1>2, <1>3, <1>4, <1>5, StepCases

\* So it is from the first state on, if there is anybody to switch at all.
LEMMA Behind == Spec => []WInv
<1>1. Init => WInv
  <2> SUFFICES ASSUME Init PROVE WInv
    OBVIOUS
  <2>1. IInv
    BY InitTyped DEF Init, IInv, Pristine
  <2>2. \A c \in Callers : task[c] = "none" /\ told[c] = "none"
    BY DEF Init
  <2>3. Agreed("enable") /\ Agreed("disable")
    BY <2>2, CallersExist DEF Agreed, Word
  <2>4. QED
    BY <2>1, <2>2, <2>3 DEF WInv, Addressed
<1>2. QED
  BY <1>1, NextWInv, PTL DEF Spec

\* When everyone's last word was a success of the same kind, the switch is
\* there, whatever failed or overlapped before (macos.rs,
\* run_networksetup_batch).
THEOREM LastWords == Spec => []LastWordsAgree
<1>1. WInv => LastWordsAgree
  <2> SUFFICES ASSUME WInv PROVE LastWordsAgree
    OBVIOUS
  <2>1. ASSUME NEW t \in {"enable", "disable"}, \A c \in Callers : told[c] = Word(t)
        PROVE  \A k \in Kinds : on[k] <=> t = "enable"
    <3>1. \A c \in Callers : task[c] # t
      BY <2>1 DEF WInv, Word
    <3>2. QED
      BY <2>1, <3>1 DEF WInv, Agreed
  <2>2. QED
    BY <2>1, SwitchIs DEF LastWordsAgree, Word, Kinds
<1>2. QED
  BY <1>1, Behind, PTL

\* A proxy never flips on at a stale address, whether its setter failed, lied
\* with exit status 0, or ran in another process (macos.rs,
\* enable_proxy_commands).
THEOREM NeverStale == Spec => NeverOnAtStale
<1>1. ASSUME WInv, Next, NEW k \in Kinds, ~on[k], on'[k]
      PROVE  /\ addr[k] # Other
             /\ \A d \in Callers : task[d] = "enable" /\ alone[d] => addr[k] = want[d]
  <2> IInv /\ TypeOK
    BY <1>1 DEF WInv, IInv
  <2>1. PICK c \in Callers : task[c] # "none" /\ ~Finished(c) /\ Advance(c)
    BY <1>1, StepCases DEF Begin, Waits, Over, GiveUp, settings
  <2>2. Apply(c)
    BY <2>1 DEF Advance
  <2>3. task[c] = "enable" /\ step[c] = Turns("enable", k)
    <3>1. CASE task[c] = "disable"
      BY <1>1, <2>1, <2>2, <3>1, DisableEffect DEF TypeOK, Kinds
    <3>2. CASE task[c] = "enable"
      BY <1>1, <2>1, <2>2, <3>2, EnableEffect DEF TypeOK, Kinds, Turns
    <3>3. QED
      BY <2>1, <3>1, <3>2 DEF TypeOK
  <2>4. step[c] >= Turns("enable", k)
    BY <2>3 DEF Turns
  <2>5. addr[k] # Other /\ (alone[c] => addr[k] = want[c])
    BY <1>1, <2>3, <2>4 DEF WInv, Addressed
  <2>6. \A d \in Callers : task[d] = "enable" /\ alone[d] => d = c
    BY <2>3 DEF IInv, Knows
  <2>7. QED
    BY <2>5, <2>6
<1>2. WInv /\ [Next]_vars =>
        [\A k \in Kinds : ~on[k] /\ on'[k] =>
           /\ addr[k] # Other
           /\ \A c \in Callers : task[c] = "enable" /\ alone[c] => addr[k] = want[c]]_vars
  BY <1>1
<1>3. QED
  BY <1>2, Behind, NextWInv, PTL DEF Spec, NeverOnAtStale

-----------------------------------------------------------------------------
(***************************************************************************)
(* Linux                                                                   *)
(***************************************************************************)

LinuxGoal(t) == IF t = "enable" THEN "on" ELSE "off"
LinuxEndings == {"enabled", "disabled", "failed", "killed"}

-----------------------------------------------------------------------------
\* The batches of the desktop, command by command.
LEMMA LinuxGnomeBatch ==
  /\ Len(Linux!SetCommands("gnome")) = 7
  /\ Linux!SetCommands("gnome")[1] = <<"mode", TRUE>>
  /\ Linux!SetCommands("gnome")[2] = <<"host", "socks">> /\ Linux!SetCommands("gnome")[3] = <<"port", "socks">>
  /\ Linux!SetCommands("gnome")[4] = <<"host", "http">> /\ Linux!SetCommands("gnome")[5] = <<"port", "http">>
  /\ Linux!SetCommands("gnome")[6] = <<"host", "https">> /\ Linux!SetCommands("gnome")[7] = <<"port", "https">>
BY DEF Linux!SetCommands

\* The same of the other desktop.
LEMMA LinuxKdeBatch ==
  /\ Len(Linux!SetCommands("kde")) = 4
  /\ Linux!SetCommands("kde")[1] = <<"mode", TRUE>> /\ Linux!SetCommands("kde")[2] = <<"port", "socks">>
  /\ Linux!SetCommands("kde")[3] = <<"port", "http">> /\ Linux!SetCommands("kde")[4] = <<"port", "https">>
BY DEF Linux!SetCommands

\* One that switches off is a single command on either.
LEMMA LinuxOffBatch ==
  /\ Len(Linux!UnsetCommands("gnome")) = 1 /\ Linux!UnsetCommands("gnome")[1] = <<"mode", FALSE>>
  /\ Len(Linux!UnsetCommands("kde")) = 1 /\ Linux!UnsetCommands("kde")[1] = <<"mode", FALSE>>
BY DEF Linux!UnsetCommands

\* What one command does to the desktop's settings.
LEMMA LinuxModeApplied ==
  ASSUME NEW b, NEW port, Linux!Apply(<<"mode", b>>, port) PROVE desktopOn' = b /\ desktopAddr' = desktopAddr
BY DEF Linux!Apply

\* A host is 127.0.0.1 before and after.
LEMMA LinuxHostApplied ==
  ASSUME NEW k, NEW port, Linux!Apply(<<"host", k>>, port)
  PROVE desktopOn' = desktopOn /\ desktopAddr' = desktopAddr
BY DEF Linux!Apply

\* A port is the batch's afterwards.
LEMMA LinuxPortApplied ==
  ASSUME NEW k, NEW port, Linux!Apply(<<"port", k>>, port)
  PROVE  desktopOn' = desktopOn /\ desktopAddr' = [desktopAddr EXCEPT ![k] = port]
BY DEF Linux!Apply

-----------------------------------------------------------------------------
\* What there is besides TypeOK's variables, and which phase has which batch.
LinuxTyped ==
  /\ Linux!TypeOK
  /\ linuxBefore \in [Callers -> {"off", "mixed", "on"}]
  /\ linuxAlone \in [Callers -> BOOLEAN] /\ linuxSmooth \in [Callers -> BOOLEAN]
  /\ linuxDisturbed \in BOOLEAN
  /\ \A c \in Callers :
       /\ linuxPhase[c] # "open" => linuxTask[c] # "none"
       /\ linuxPhase[c] = "write" => linuxTask[c] = "enable"
       /\ linuxPhase[c] = "remove" => linuxTask[c] = "disable"
       /\ linuxPhase[c] # "desktop" => linuxStep[c] = 1

\* A batch of c's has set the address of kind k by now.
LinuxPast(c, k) ==
  linuxStep[c] > CASE k = "socks" -> (IF session[c] = "gnome" THEN 3 ELSE 2)
              [] k = "http" -> (IF session[c] = "gnome" THEN 5 ELSE 3)
              [] k = "https" -> (IF session[c] = "gnome" THEN 7 ELSE 4)

\* What a batch that has met no other and whose commands have all worked knows
\* of the desktop.
LinuxDesk(c) ==
  /\ linuxStep[c] > 1 => (desktopOn <=> linuxTask[c] = "enable")
  /\ linuxTask[c] = "enable" => \A k \in Linux!Kinds : LinuxPast(c, k) => desktopAddr[k] = linuxWant[c]

\* What a batch that has met no other knows of proxy.env.
LinuxKnows(c) ==
  /\ \A d \in Callers : linuxTask[d] # "none" => d = c
  /\ linuxPhase[c] \in {"open", "remove"} => Linux!Switch = linuxBefore[c]
  /\ linuxPhase[c] = "write" => Linux!Switch = "mixed"
  /\ linuxPhase[c] = "desktop" => env = IF linuxTask[c] = "enable" THEN linuxWant[c] ELSE Absent
  /\ linuxPhase[c] = "desktop" /\ linuxSmooth[c] /\ session[c] = machine => LinuxDesk(c)

LinuxIInv ==
  /\ LinuxTyped /\ Linux!DesktopFollowsEnv
  /\ \A c \in Callers : linuxTask[c] # "none" /\ linuxAlone[c] => LinuxKnows(c)

\* The three positions of the switch, now and after a step.
LEMMA LinuxSwitchIs ==
  /\ Linux!Switch = "on" <=> env \in LinuxPorts
  /\ Linux!Switch = "off" <=> env = Absent
  /\ Linux!Switch \in {"off", "mixed", "on"}
BY DEF Linux!Switch

\* The same of the state after a step.
LEMMA LinuxSwitchWillBe ==
  /\ Linux!Switch' = "on" <=> env' \in LinuxPorts
  /\ Linux!Switch' = "off" <=> env' = Absent
  /\ Linux!Switch' \in {"off", "mixed", "on"}
BY DEF Linux!Switch

\* How many commands a batch has.
LEMMA LinuxBatchLength ==
  ASSUME LinuxTyped, NEW c \in Callers, linuxTask[c] # "none"
  PROVE  Len(Linux!Commands(c)) = IF session[c] = "none" THEN 0
                            ELSE IF linuxTask[c] = "disable" THEN 1
                            ELSE IF session[c] = "gnome" THEN 7 ELSE 4
<1>1. session[c] \in {"gnome", "kde", "none"} /\ linuxTask[c] \in {"enable", "disable"}
  BY DEF LinuxTyped, Linux!TypeOK, Linux!Desktops
<1>2. QED
  BY <1>1, LinuxGnomeBatch, LinuxKdeBatch, LinuxOffBatch DEF Linux!Commands

\* What the next command of a batch does if it works.
LEMMA LinuxGnomeApplied ==
  ASSUME NEW c \in Callers, linuxTask[c] = "enable", session[c] = "gnome",
         linuxStep[c] \in {1, 2, 3, 4, 5, 6, 7}, Linux!Apply(Linux!Commands(c)[linuxStep[c]], linuxWant[c])
  PROVE  /\ linuxStep[c] = 1 => desktopOn' = TRUE /\ desktopAddr' = desktopAddr
         /\ linuxStep[c] \in {2, 4, 6} => desktopOn' = desktopOn /\ desktopAddr' = desktopAddr
         /\ linuxStep[c] = 3 => /\ desktopOn' = desktopOn
                                /\ desktopAddr' = [desktopAddr EXCEPT !["socks"] = linuxWant[c]]
         /\ linuxStep[c] = 5 => /\ desktopOn' = desktopOn
                                /\ desktopAddr' = [desktopAddr EXCEPT !["http"] = linuxWant[c]]
         /\ linuxStep[c] = 7 => /\ desktopOn' = desktopOn
                                /\ desktopAddr' = [desktopAddr EXCEPT !["https"] = linuxWant[c]]
<1>1. Linux!Commands(c) = Linux!SetCommands("gnome")
  BY DEF Linux!Commands
<1>2. CASE linuxStep[c] = 1
  <2>1. Linux!Commands(c)[linuxStep[c]] = <<"mode", TRUE>>
    BY <1>1, <1>2, LinuxGnomeBatch
  <2>2. Linux!Apply(<<"mode", TRUE>>, linuxWant[c])
    BY <2>1
  <2>3. desktopOn' = TRUE /\ desktopAddr' = desktopAddr
    BY <2>2, LinuxModeApplied
  <2>4. QED
    BY <1>2, <2>3
<1>3. CASE linuxStep[c] \in {2, 4, 6}
  <2>1. PICK k \in Linux!Kinds : Linux!Commands(c)[linuxStep[c]] = <<"host", k>>
    BY <1>1, <1>3, LinuxGnomeBatch DEF Linux!Kinds
  <2>2. desktopOn' = desktopOn /\ desktopAddr' = desktopAddr
    BY <2>1, LinuxHostApplied
  <2>3. QED
    BY <1>3, <2>2
<1>4. CASE linuxStep[c] \in {3, 5, 7}
  <2>1. Linux!Commands(c)[linuxStep[c]] = <<"port", IF linuxStep[c] = 3 THEN "socks"
                                                    ELSE IF linuxStep[c] = 5 THEN "http" ELSE "https">>
    BY <1>1, <1>4, LinuxGnomeBatch
  <2>2. /\ desktopOn' = desktopOn
        /\ desktopAddr' = [desktopAddr EXCEPT ![IF linuxStep[c] = 3 THEN "socks"
                                                ELSE IF linuxStep[c] = 5 THEN "http" ELSE "https"] = linuxWant[c]]
    BY <2>1, LinuxPortApplied
  <2>3. CASE linuxStep[c] = 3
    BY <2>2, <2>3
  <2>4. CASE linuxStep[c] = 5
    BY <2>2, <2>4
  <2>5. CASE linuxStep[c] = 7
    BY <2>2, <2>5
  <2>6. QED
    BY <1>4, <2>3, <2>4, <2>5
<1>5. QED
  BY <1>2, <1>3, <1>4

\* The same of the other desktop.
LEMMA LinuxKdeApplied ==
  ASSUME NEW c \in Callers, linuxTask[c] = "enable", session[c] = "kde",
         linuxStep[c] \in {1, 2, 3, 4}, Linux!Apply(Linux!Commands(c)[linuxStep[c]], linuxWant[c])
  PROVE  /\ linuxStep[c] = 1 => desktopOn' = TRUE /\ desktopAddr' = desktopAddr
         /\ linuxStep[c] = 2 => /\ desktopOn' = desktopOn
                                /\ desktopAddr' = [desktopAddr EXCEPT !["socks"] = linuxWant[c]]
         /\ linuxStep[c] = 3 => /\ desktopOn' = desktopOn
                                /\ desktopAddr' = [desktopAddr EXCEPT !["http"] = linuxWant[c]]
         /\ linuxStep[c] = 4 => /\ desktopOn' = desktopOn
                                /\ desktopAddr' = [desktopAddr EXCEPT !["https"] = linuxWant[c]]
<1>1. Linux!Commands(c) = Linux!SetCommands("kde")
  BY DEF Linux!Commands
<1>2. CASE linuxStep[c] = 1
  <2>1. Linux!Commands(c)[linuxStep[c]] = <<"mode", TRUE>>
    BY <1>1, <1>2, LinuxKdeBatch
  <2>2. Linux!Apply(<<"mode", TRUE>>, linuxWant[c])
    BY <2>1
  <2>3. desktopOn' = TRUE /\ desktopAddr' = desktopAddr
    BY <2>2, LinuxModeApplied
  <2>4. QED
    BY <1>2, <2>3
<1>3. CASE linuxStep[c] \in {2, 3, 4}
  <2>1. Linux!Commands(c)[linuxStep[c]] = <<"port", IF linuxStep[c] = 2 THEN "socks"
                                                    ELSE IF linuxStep[c] = 3 THEN "http" ELSE "https">>
    BY <1>1, <1>3, LinuxKdeBatch
  <2>2. /\ desktopOn' = desktopOn
        /\ desktopAddr' = [desktopAddr EXCEPT ![IF linuxStep[c] = 2 THEN "socks"
                                                ELSE IF linuxStep[c] = 3 THEN "http" ELSE "https"] = linuxWant[c]]
    BY <2>1, LinuxPortApplied
  <2>3. CASE linuxStep[c] = 2
    BY <2>2, <2>3
  <2>4. CASE linuxStep[c] = 3
    BY <2>2, <2>4
  <2>5. CASE linuxStep[c] = 4
    BY <2>2, <2>5
  <2>6. QED
    BY <1>3, <2>3, <2>4, <2>5
<1>4. QED
  BY <1>2, <1>3

\* And of a batch that switches off.
LEMMA LinuxOffApplied ==
  ASSUME NEW c \in Callers, linuxTask[c] = "disable", session[c] \in {"gnome", "kde"},
         linuxStep[c] = 1, Linux!Apply(Linux!Commands(c)[linuxStep[c]], linuxWant[c])
  PROVE  desktopOn' = FALSE /\ desktopAddr' = desktopAddr
<1>1. Linux!Commands(c) = Linux!UnsetCommands("gnome") \/ Linux!Commands(c) = Linux!UnsetCommands("kde")
  BY DEF Linux!Commands
<1>2. Linux!Commands(c)[1] = <<"mode", FALSE>>
  BY <1>1, LinuxOffBatch
<1>3. QED
  BY <1>2, LinuxModeApplied

-----------------------------------------------------------------------------
\* The first states.
LEMMA LinuxInitIInv == Linux!Init => LinuxIInv
<1> SUFFICES ASSUME Linux!Init PROVE LinuxIInv
  OBVIOUS
<1>1. /\ linuxAlone \in [Callers -> BOOLEAN] /\ linuxSmooth \in [Callers -> BOOLEAN]
  BY Zenon DEF Linux!Init
<1>2. desktopOn \in BOOLEAN
  <2>1. desktopOn = (env \in LinuxPorts)
    BY DEF Linux!Init
  <2>2. (env \in LinuxPorts) \in BOOLEAN
    OBVIOUS
  <2>3. QED
    BY <2>1, <2>2, Zenon
<1>3. LinuxTyped
  <2>1. env \in LinuxPorts \cup {Absent, Empty} /\ desktopAddr \in [Linux!Kinds -> LinuxPorts \cup {Other}]
    BY DEF Linux!Init
  <2>2. linuxBefore \in [Callers -> {"off", "mixed", "on"}]
    BY LinuxSwitchIs DEF Linux!Init
  <2>3. /\ linuxTask \in [Callers -> {"none", "enable", "disable"}]
        /\ linuxWant \in [Callers -> LinuxPorts \cup {Other}]
        /\ linuxPhase \in [Callers -> {"open", "write", "remove", "desktop"}]
        /\ session \in [Callers -> Linux!Desktops \cup {"none"}]
        /\ linuxTold \in [Callers -> {"none", "enabled", "disabled", "failed", "killed"}]
    BY DEF Linux!Init
  <2>4. \A c \in Callers : linuxPhase[c] = "open" /\ linuxTask[c] = "none" /\ linuxStep[c] = 1 /\ linuxWant[c] = Other
    BY DEF Linux!Init
  <2>5. linuxStep \in [Callers -> 1..8]
    BY DEF Linux!Init
  <2>6. machine \in Linux!Desktops /\ linuxDisturbed \in BOOLEAN
    BY DEF Linux!Init
  <2>7. Linux!TypeOK
    BY <1>2, <2>1, <2>3, <2>4, <2>5, <2>6 DEF Linux!TypeOK
  <2>8. QED
    BY <1>1, <2>2, <2>4, <2>6, <2>7 DEF LinuxTyped
<1>4. QED
  BY <1>3 DEF Linux!Init, LinuxIInv, Linux!DesktopFollowsEnv

\* A batch that begins knows the switch, and nobody else does any more.
LEMMA LinuxBeginIInv == ASSUME LinuxIInv, NEW c \in Callers, Linux!Begin(c) PROVE LinuxIInv'
<1>1. /\ linuxAlone' \in [Callers -> BOOLEAN]
      /\ linuxSmooth' \in [Callers -> BOOLEAN]
      /\ linuxDisturbed' \in BOOLEAN
  <2>1. [d \in Callers |-> d = c /\ \A e \in Callers : linuxTask[e] = "none"] \in [Callers -> BOOLEAN]
    BY Zenon
  <2>2. [linuxSmooth EXCEPT ![c] = TRUE] \in [Callers -> BOOLEAN]
    BY Zenon DEF LinuxIInv, LinuxTyped
  <2>3. linuxDisturbed' \in BOOLEAN
    BY Zenon DEF Linux!Begin
  <2>4. QED
    BY <2>1, <2>2, <2>3 DEF Linux!Begin
<1>2. linuxPhase[c] = "open" /\ linuxWant[c] = Other
  BY DEF Linux!Begin, LinuxIInv, LinuxTyped, Linux!TypeOK
<1>3. LinuxTyped'
  BY <1>1, <1>2, LinuxSwitchIs DEF Linux!Begin, Linux!desktop, LinuxIInv, LinuxTyped, Linux!TypeOK
<1>4. Linux!DesktopFollowsEnv'
  BY DEF Linux!Begin, LinuxIInv, LinuxTyped, Linux!TypeOK, Linux!DesktopFollowsEnv, Linux!Idle
<1>5. ASSUME NEW d \in Callers, linuxAlone'[d] PROVE LinuxKnows(d)'
  <2>1. d = c /\ \A e \in Callers : linuxTask[e] = "none"
    BY <1>5 DEF Linux!Begin
  <2>2. linuxPhase'[c] = "open" /\ Linux!Switch' = Linux!Switch /\ linuxBefore'[c] = Linux!Switch
    BY <1>2 DEF Linux!Begin, Linux!desktop, Linux!Switch, LinuxIInv, LinuxTyped, Linux!TypeOK
  <2>3. \A e \in Callers : linuxTask'[e] # "none" => e = c
    BY <2>1 DEF Linux!Begin, LinuxIInv, LinuxTyped, Linux!TypeOK
  <2>4. QED
    BY <2>1, <2>2, <2>3 DEF LinuxKnows
<1>6. QED
  BY <1>3, <1>4, <1>5 DEF LinuxIInv

\* A step of one batch takes nothing from what another knows, for whoever knows
\* anything is the only one.
LEMMA LinuxOthersKnow ==
  ASSUME LinuxIInv, NEW c \in Callers, linuxTask[c] # "none", UNCHANGED linuxAlone,
         NEW d \in Callers, d # c, linuxTask'[d] = linuxTask[d]
  PROVE  ~(linuxTask'[d] # "none" /\ linuxAlone'[d])
BY DEF LinuxIInv, LinuxKnows

\* The end of a batch, of which only one that met no other, knew the desktop and
\* worked throughout speaks for the settings.
LEMMA LinuxReportIInv ==
  ASSUME LinuxIInv, NEW c \in Callers, linuxTask[c] # "none", NEW t \in LinuxEndings, Linux!Report(c, t),
         UNCHANGED env, UNCHANGED Linux!desktop,
         t \in {"enabled", "disabled"} => linuxPhase[c] = "desktop" /\ linuxStep[c] > Len(Linux!Commands(c))
  PROVE  LinuxIInv'
<1>0. linuxDisturbed' = ~(t \in {"enabled", "disabled"} /\ linuxAlone[c] /\ linuxSmooth[c] /\ session[c] = machine)
  BY DEF Linux!Report
<1>1. linuxDisturbed' \in BOOLEAN
  BY <1>0, Zenon
<1>2. LinuxTyped'
  BY <1>1 DEF Linux!Report, Linux!desktop, LinuxIInv, LinuxTyped, Linux!TypeOK, LinuxEndings
<1>3. ASSUME ~linuxDisturbed'
      PROVE  t \in {"enabled", "disabled"} /\ linuxAlone[c] /\ linuxSmooth[c] /\ session[c] = machine
  BY <1>0, <1>3, Zenon
<1>4. Linux!DesktopFollowsEnv'
  <2>1. SUFFICES ASSUME ~linuxDisturbed'
                 PROVE  (desktopOn <=> env \in LinuxPorts) /\ (desktopOn => \A k \in Linux!Kinds : desktopAddr[k] = env)
    BY DEF Linux!DesktopFollowsEnv, Linux!desktop
  <2>2. LinuxKnows(c) /\ linuxPhase[c] = "desktop" /\ linuxStep[c] > Len(Linux!Commands(c)) /\ LinuxDesk(c)
    BY <1>3, <2>1 DEF LinuxIInv, LinuxKnows
  <2>3. session[c] \in {"gnome", "kde"} /\ linuxTask[c] \in {"enable", "disable"} /\ linuxStep[c] \in Nat
    BY <1>3, <2>1 DEF LinuxIInv, LinuxTyped, Linux!TypeOK, Linux!Desktops
  <2>4. Len(Linux!Commands(c)) = IF linuxTask[c] = "disable" THEN 1
                           ELSE IF session[c] = "gnome" THEN 7 ELSE 4
    BY <2>3, LinuxBatchLength DEF LinuxIInv
  <2>5. linuxStep[c] > 1
    BY <2>2, <2>3, <2>4
  <2>6. CASE linuxTask[c] = "enable"
    <3>1. \A k \in Linux!Kinds : LinuxPast(c, k)
      BY <2>2, <2>3, <2>4, <2>6 DEF LinuxPast, Linux!Kinds
    <3>2. env = linuxWant[c] /\ linuxWant[c] \in LinuxPorts
      BY <2>2, <2>6 DEF LinuxKnows, LinuxIInv, LinuxTyped, Linux!TypeOK
    <3>3. QED
      BY <2>2, <2>5, <2>6, <3>1, <3>2 DEF LinuxDesk
  <2>7. CASE linuxTask[c] = "disable"
    BY <2>2, <2>5, <2>7 DEF LinuxDesk, LinuxKnows
  <2>8. QED
    BY <2>3, <2>6, <2>7
<1>5. ASSUME NEW d \in Callers, d # c PROVE ~(linuxTask'[d] # "none" /\ linuxAlone'[d])
  BY <1>5, LinuxOthersKnow DEF Linux!Report, LinuxIInv, LinuxTyped, Linux!TypeOK
<1>6. linuxTask'[c] = "none"
  BY DEF Linux!Report, LinuxIInv, LinuxTyped, Linux!TypeOK
<1>7. QED
  BY <1>2, <1>4, <1>5, <1>6 DEF LinuxIInv

\* A batch goes on with proxy.env.
LEMMA LinuxGotoIInv ==
  ASSUME LinuxIInv, NEW c \in Callers, linuxTask[c] # "none", linuxPhase[c] # "desktop",
         NEW p \in {"write", "remove", "desktop"}, Linux!Goto(c, p),
         p = "write" => linuxTask[c] = "enable", p = "remove" => linuxTask[c] = "disable",
         env' \in LinuxPorts \cup {Absent, Empty}, UNCHANGED Linux!desktop,
         linuxAlone[c] => LinuxKnows(c)'
  PROVE  LinuxIInv'
<1>1. LinuxTyped'
  BY DEF Linux!Goto, Linux!desktop, LinuxIInv, LinuxTyped, Linux!TypeOK
<1>2. Linux!DesktopFollowsEnv'
  BY DEF Linux!Goto, Linux!DesktopFollowsEnv, Linux!Idle
<1>3. ASSUME NEW d \in Callers, d # c PROVE ~(linuxTask'[d] # "none" /\ linuxAlone'[d])
  BY <1>3, LinuxOthersKnow DEF Linux!Goto
<1>4. QED
  BY <1>1, <1>2, <1>3 DEF Linux!Goto, LinuxIInv

\* Whoever enters the desktop has set nothing of it yet.
LEMMA LinuxDeskBegins ==
  ASSUME LinuxTyped, NEW c \in Callers, linuxStep[c] = 1
  PROVE  LinuxDesk(c)
BY DEF LinuxDesk, LinuxPast, Linux!Kinds, LinuxTyped, Linux!TypeOK

\* A desktop command that works does what its place in the batch says.
LEMMA LinuxRunKnows ==
  ASSUME LinuxTyped, NEW c \in Callers, linuxTask[c] # "none", session[c] # "none", LinuxDesk(c),
         linuxStep[c] <= Len(Linux!Commands(c)), Linux!Step(c), UNCHANGED linuxSmooth,
         Linux!Apply(Linux!Commands(c)[linuxStep[c]], linuxWant[c])
  PROVE  LinuxDesk(c)'
<1>1. /\ linuxStep'[c] = linuxStep[c] + 1 /\ linuxStep[c] \in Nat \ {0}
      /\ UNCHANGED <<linuxTask, linuxWant, session>>
      /\ linuxTask[c] \in {"enable", "disable"} /\ session[c] \in {"gnome", "kde"}
      /\ desktopAddr \in [Linux!Kinds -> LinuxPorts \cup {Other}]
  BY DEF Linux!Step, LinuxTyped, Linux!TypeOK, Linux!Desktops
<1>2. linuxStep[c] <= IF linuxTask[c] = "disable" THEN 1 ELSE IF session[c] = "gnome" THEN 7 ELSE 4
  BY <1>1, LinuxBatchLength
<1>3. CASE linuxTask[c] = "disable"
  <2>1. linuxStep[c] = 1
    BY <1>1, <1>2, <1>3
  <2>2. desktopOn' = FALSE
    BY <1>1, <1>3, <2>1, LinuxOffApplied
  <2>3. QED
    BY <1>1, <1>3, <2>2 DEF LinuxDesk
<1>4. CASE linuxTask[c] = "enable" /\ session[c] = "gnome"
  <2>1. linuxStep[c] \in {1, 2, 3, 4, 5, 6, 7}
    BY <1>1, <1>2, <1>4
  <2>2. /\ linuxStep[c] = 1 => desktopOn' = TRUE /\ desktopAddr' = desktopAddr
        /\ linuxStep[c] \in {2, 4, 6} => desktopOn' = desktopOn /\ desktopAddr' = desktopAddr
        /\ linuxStep[c] = 3 => /\ desktopOn' = desktopOn
                               /\ desktopAddr' = [desktopAddr EXCEPT !["socks"] = linuxWant[c]]
        /\ linuxStep[c] = 5 => /\ desktopOn' = desktopOn
                               /\ desktopAddr' = [desktopAddr EXCEPT !["http"] = linuxWant[c]]
        /\ linuxStep[c] = 7 => /\ desktopOn' = desktopOn
                               /\ desktopAddr' = [desktopAddr EXCEPT !["https"] = linuxWant[c]]
    BY <1>4, <2>1, LinuxGnomeApplied
  <2>3. QED
    BY <1>1, <1>4, <2>1, <2>2 DEF LinuxDesk, LinuxPast, Linux!Kinds
<1>5. CASE linuxTask[c] = "enable" /\ session[c] = "kde"
  <2>1. linuxStep[c] \in {1, 2, 3, 4}
    BY <1>1, <1>2, <1>5
  <2>2. /\ linuxStep[c] = 1 => desktopOn' = TRUE /\ desktopAddr' = desktopAddr
        /\ linuxStep[c] = 2 => /\ desktopOn' = desktopOn
                               /\ desktopAddr' = [desktopAddr EXCEPT !["socks"] = linuxWant[c]]
        /\ linuxStep[c] = 3 => /\ desktopOn' = desktopOn
                               /\ desktopAddr' = [desktopAddr EXCEPT !["http"] = linuxWant[c]]
        /\ linuxStep[c] = 4 => /\ desktopOn' = desktopOn
                               /\ desktopAddr' = [desktopAddr EXCEPT !["https"] = linuxWant[c]]
    BY <1>5, <2>1, LinuxKdeApplied
  <2>3. QED
    BY <1>1, <1>5, <2>1, <2>2 DEF LinuxDesk, LinuxPast, Linux!Kinds
<1>6. QED
  BY <1>1, <1>3, <1>4, <1>5

\* One desktop command, whether it works or not.
LEMMA LinuxRunIInv == ASSUME LinuxIInv, NEW c \in Callers, Linux!RunDesktop(c) PROVE LinuxIInv'
<1> LinuxTyped
  BY DEF LinuxIInv
<1>1. /\ linuxPhase[c] = "desktop"
      /\ linuxTask[c] \in {"enable", "disable"}
      /\ linuxStep[c] <= Len(Linux!Commands(c))
      /\ UNCHANGED <<machine, env, session, linuxTask, linuxWant, linuxPhase, linuxTold,
                     linuxBefore, linuxAlone, linuxDisturbed>>
  BY DEF Linux!RunDesktop, Linux!Step, LinuxTyped, Linux!TypeOK
<1>2. /\ session[c] \in {"gnome", "kde"} /\ linuxStep[c] \in Nat \ {0}
      /\ Len(Linux!Commands(c)) = IF linuxTask[c] = "disable" THEN 1 ELSE IF session[c] = "gnome" THEN 7 ELSE 4
  BY <1>1, LinuxBatchLength DEF LinuxTyped, Linux!TypeOK, Linux!Desktops
<1>3. /\ linuxStep' \in [Callers -> 1..8]
      /\ \A d \in Callers : d # c => linuxStep'[d] = linuxStep[d]
  <2>1. \E n \in 1..8 : linuxStep' = [linuxStep EXCEPT ![c] = n]
    <3>1. linuxStep[c] + 1 \in 1..8 /\ Len(Linux!Commands(c)) + 1 \in 1..8
      BY <1>1, <1>2
    <3>2. \/ linuxStep' = [linuxStep EXCEPT ![c] = linuxStep[c] + 1]
          \/ linuxStep' = [linuxStep EXCEPT ![c] = Len(Linux!Commands(c)) + 1]
      BY DEF Linux!RunDesktop, Linux!Step
    <3>3. QED
      BY <3>1, <3>2
  <2>2. QED
    BY <2>1 DEF LinuxTyped, Linux!TypeOK
<1>4. /\ desktopOn' \in BOOLEAN
      /\ desktopAddr' \in [Linux!Kinds -> LinuxPorts \cup {Other}]
      /\ linuxSmooth' \in [Callers -> BOOLEAN]
  <2>1. CASE /\ Linux!Apply(Linux!Commands(c)[linuxStep[c]], linuxWant[c])
             /\ Linux!Step(c)
             /\ UNCHANGED linuxSmooth
    <3>2. /\ desktopOn' \in {desktopOn, TRUE, FALSE}
          /\ \/ desktopAddr' = desktopAddr
             \/ \E k \in Linux!Kinds : desktopAddr' = [desktopAddr EXCEPT ![k] = linuxWant[c]]
      <4>1. CASE linuxTask[c] = "disable"
        <5>1. linuxStep[c] = 1
          BY <1>1, <1>2, <4>1
        <5>2. QED
          BY <1>2, <2>1, <4>1, <5>1, LinuxOffApplied
      <4>2. CASE linuxTask[c] = "enable" /\ session[c] = "gnome"
        <5>1. linuxStep[c] \in {1, 2, 3, 4, 5, 6, 7}
          BY <1>1, <1>2, <4>2
        <5>2. QED
          BY <2>1, <4>2, <5>1, LinuxGnomeApplied DEF Linux!Kinds
      <4>3. CASE linuxTask[c] = "enable" /\ session[c] = "kde"
        <5>1. linuxStep[c] \in {1, 2, 3, 4}
          BY <1>1, <1>2, <4>3
        <5>2. QED
          BY <2>1, <4>3, <5>1, LinuxKdeApplied DEF Linux!Kinds
      <4>4. QED
        BY <1>1, <1>2, <4>1, <4>2, <4>3
    <3>3. QED
      BY <2>1, <3>2 DEF LinuxTyped, Linux!TypeOK
  <2>2. CASE UNCHANGED <<desktopOn, desktopAddr>> /\ linuxSmooth' = [linuxSmooth EXCEPT ![c] = FALSE]
    <3>1. linuxSmooth' \in [Callers -> BOOLEAN]
      BY <2>2, Zenon DEF LinuxTyped
    <3>2. QED
      BY <2>2, <3>1 DEF LinuxTyped, Linux!TypeOK
  <2>3. QED
    BY <2>1, <2>2 DEF Linux!RunDesktop
<1>5. LinuxTyped'
  BY <1>1, <1>3, <1>4 DEF LinuxTyped, Linux!TypeOK
<1>6. Linux!DesktopFollowsEnv'
  BY <1>1 DEF Linux!DesktopFollowsEnv, Linux!Idle
<1>7. ASSUME linuxAlone[c] PROVE LinuxKnows(c)'
  <2>1. LinuxKnows(c)
    BY <1>1, <1>7 DEF LinuxIInv
  <2>2. ASSUME linuxSmooth'[c], session[c] = machine PROVE LinuxDesk(c)'
    <3>1. Linux!Apply(Linux!Commands(c)[linuxStep[c]], linuxWant[c]) /\ Linux!Step(c) /\ UNCHANGED linuxSmooth
      BY <2>2 DEF Linux!RunDesktop, LinuxTyped
    <3>2. LinuxDesk(c)
      BY <1>1, <2>1, <2>2, <3>1 DEF LinuxKnows
    <3>3. QED
      BY <1>1, <1>2, <3>1, <3>2, LinuxRunKnows
  <2>3. QED
    BY <1>1, <2>1, <2>2 DEF LinuxKnows, Linux!Switch
<1>8. ASSUME NEW d \in Callers, d # c PROVE ~(linuxTask'[d] # "none" /\ linuxAlone'[d])
  BY <1>1, <1>8, LinuxOthersKnow
<1>9. QED
  BY <1>1, <1>5, <1>6, <1>7, <1>8 DEF LinuxIInv

\* No step disturbs the invariant.
LEMMA LinuxNextIInv == LinuxIInv /\ [Linux!Next]_(Linux!vars) => LinuxIInv'
<1> SUFFICES ASSUME LinuxIInv, [Linux!Next]_(Linux!vars) PROVE LinuxIInv'
  OBVIOUS
<1> LinuxTyped
  BY DEF LinuxIInv
<1>0. ASSUME NEW c \in Callers, linuxTask[c] # "none", Linux!Report(c, "failed"), UNCHANGED env,
             UNCHANGED Linux!desktop
      PROVE  LinuxIInv'
  BY <1>0, LinuxReportIInv DEF LinuxEndings
<1>1. ASSUME NEW c \in Callers, Linux!Open(c) PROVE LinuxIInv'
  <2>1. CASE env' = Empty /\ Linux!Goto(c, "write")
    <3>1. linuxAlone[c] => LinuxKnows(c)'
      BY <1>1, <2>1, LinuxSwitchWillBe
         DEF Linux!Open, Linux!Goto, LinuxIInv, LinuxKnows, LinuxTyped, Linux!TypeOK
    <3>2. QED
      BY <1>1, <2>1, <3>1, LinuxGotoIInv DEF Linux!Open
  <2>2. QED
    BY <1>0, <1>1, <2>1 DEF Linux!Open
<1>2. ASSUME NEW c \in Callers, Linux!Write(c) PROVE LinuxIInv'
  <2>1. linuxTask[c] = "enable" /\ linuxWant[c] \in LinuxPorts /\ linuxStep[c] = 1
    BY <1>2 DEF Linux!Write, LinuxTyped, Linux!TypeOK
  <2>2. CASE env' = linuxWant[c] /\ Linux!Goto(c, "desktop")
    <3>1. linuxPhase'[c] = "desktop" /\ LinuxDesk(c)'
      BY <2>1, <2>2 DEF Linux!Goto, LinuxDesk, LinuxPast, Linux!Kinds, LinuxTyped, Linux!TypeOK
    <3>2. linuxAlone[c] => LinuxKnows(c)'
      BY <1>2, <2>1, <2>2, <3>1 DEF Linux!Write, Linux!Goto, LinuxIInv, LinuxKnows
    <3>3. QED
      BY <1>2, <2>1, <2>2, <3>2, LinuxGotoIInv DEF Linux!Write
  <2>3. QED
    BY <1>0, <1>2, <2>1, <2>2 DEF Linux!Write
<1>3. ASSUME NEW c \in Callers, Linux!Exists(c) PROVE LinuxIInv'
  <2>1. /\ linuxTask[c] = "disable"
        /\ linuxStep[c] = 1
        /\ linuxPhase[c] = "open"
        /\ UNCHANGED <<env, linuxTask, linuxAlone, linuxBefore>>
    BY <1>3 DEF Linux!Exists, Linux!Goto, LinuxTyped
  <2>2. CASE env = Absent /\ Linux!Goto(c, "desktop")
    <3>1. linuxPhase'[c] = "desktop" /\ LinuxDesk(c)'
      BY <2>1, <2>2 DEF Linux!Goto, LinuxDesk, LinuxPast, Linux!Kinds, LinuxTyped, Linux!TypeOK
    <3>2. linuxAlone[c] => LinuxKnows(c)'
      BY <2>1, <2>2, <3>1 DEF Linux!Goto, LinuxIInv, LinuxKnows
    <3>3. QED
      BY <1>3, <2>1, <2>2, <3>2, LinuxGotoIInv DEF Linux!Exists, LinuxTyped, Linux!TypeOK
  <2>3. CASE env # Absent /\ Linux!Goto(c, "remove")
    <3>1. linuxPhase'[c] = "remove" /\ Linux!Switch' = Linux!Switch
      BY <2>1, <2>3 DEF Linux!Goto, LinuxTyped, Linux!TypeOK, Linux!Switch
    <3>2. linuxAlone[c] => LinuxKnows(c)'
      BY <2>1, <2>3, <3>1 DEF Linux!Goto, LinuxIInv, LinuxKnows
    <3>3. QED
      BY <1>3, <2>1, <2>3, <3>2, LinuxGotoIInv DEF Linux!Exists, LinuxTyped, Linux!TypeOK
  <2>4. QED
    BY <1>3, <2>2, <2>3 DEF Linux!Exists
<1>4. ASSUME NEW c \in Callers, Linux!Remove(c) PROVE LinuxIInv'
  <2>1. linuxTask[c] = "disable" /\ linuxStep[c] = 1
    BY <1>4 DEF Linux!Remove, LinuxTyped
  <2>2. CASE env' = Absent /\ Linux!Goto(c, "desktop")
    <3>1. linuxPhase'[c] = "desktop" /\ LinuxDesk(c)'
      BY <2>1, <2>2 DEF Linux!Goto, LinuxDesk, LinuxPast, Linux!Kinds, LinuxTyped, Linux!TypeOK
    <3>2. linuxAlone[c] => LinuxKnows(c)'
      BY <2>1, <2>2, <3>1 DEF Linux!Goto, LinuxIInv, LinuxKnows
    <3>3. QED
      BY <1>4, <2>1, <2>2, <3>2, LinuxGotoIInv DEF Linux!Remove
  <2>3. QED
    BY <1>0, <1>4, <2>1, <2>2 DEF Linux!Remove
<1>5. ASSUME NEW c \in Callers, Linux!Done(c) PROVE LinuxIInv'
  <2>1. linuxTask[c] \in {"enable", "disable"}
    BY <1>5 DEF Linux!Done, LinuxTyped, Linux!TypeOK
  <2>2. QED
    BY <1>5, <2>1, LinuxReportIInv DEF Linux!Done, LinuxEndings
<1>6. ASSUME NEW c \in Callers, Linux!Kill(c) PROVE LinuxIInv'
  BY <1>6, LinuxReportIInv DEF Linux!Kill, LinuxEndings
<1>7. CASE UNCHANGED Linux!vars
  <2>1. UNCHANGED <<machine, env, desktopOn, desktopAddr, session, linuxTask, linuxWant,
                    linuxPhase, linuxStep, linuxTold, linuxBefore, linuxAlone, linuxSmooth, linuxDisturbed>>
    BY <1>7 DEF Linux!vars, Linux!desktop
  <2>2. LinuxTyped'
    BY <2>1 DEF LinuxTyped, Linux!TypeOK
  <2>3. Linux!DesktopFollowsEnv'
    BY <2>1 DEF LinuxIInv, Linux!DesktopFollowsEnv, Linux!Idle
  <2>4. ASSUME NEW c \in Callers, linuxTask[c] # "none", linuxAlone[c] PROVE LinuxKnows(c)'
    <3>1. LinuxKnows(c) /\ Linux!Switch' = Linux!Switch
      BY <2>1, <2>4 DEF LinuxIInv, Linux!Switch
    <3>2. LinuxDesk(c) => LinuxDesk(c)'
      BY <2>1 DEF LinuxDesk, LinuxPast
    <3>3. QED
      BY <2>1, <3>1, <3>2 DEF LinuxKnows
  <2>5. QED
    BY <2>1, <2>2, <2>3, <2>4 DEF LinuxIInv
<1>8. QED
  BY <1>1, <1>2, <1>3, <1>4, <1>5, <1>6, <1>7, LinuxBeginIInv, LinuxRunIInv DEF Linux!Next

\* Every variable has its type, the commands of a batch stay within it, and a
\* port lasts as long as its batch (linux.rs, enable_proxy, disable_proxy).
THEOREM LinuxTypeCorrect == Linux!Spec => []Linux!TypeOK
<1>1. LinuxIInv => Linux!TypeOK
  BY DEF LinuxIInv, LinuxTyped
<1>2. QED
  BY <1>1, LinuxInitIInv, LinuxNextIInv, PTL DEF Linux!Spec

\* proxy.env and the desktop say the same, unless a batch failed, died, met
\* another or knew no desktop (linux.rs, enable_proxy, try_gsettings_set_proxy).
THEOREM LinuxDesktopFollows == Linux!Spec => []Linux!DesktopFollowsEnv
<1>1. LinuxIInv => Linux!DesktopFollowsEnv
  BY DEF LinuxIInv
<1>2. QED
  BY <1>1, LinuxInitIInv, LinuxNextIInv, PTL DEF Linux!Spec

\* And so does `corvex status`, with a desktop or without, whether or not
\* gsettings answers (linux.rs, proxy_status).
THEOREM LinuxStatusFollows == Linux!Spec => []Linux!StatusFollowsEnv
<1>1. LinuxIInv => Linux!StatusFollowsEnv
  <2>1. SUFFICES ASSUME LinuxIInv, Linux!Idle, ~linuxDisturbed, NEW s \in {machine, "none"},
                        NEW answers \in BOOLEAN, NEW k \in Linux!Kinds
                 PROVE  /\ Linux!Status(s, answers, k).enabled <=> env \in LinuxPorts
                        /\ env \in LinuxPorts => Linux!Status(s, answers, k).port = env
    BY DEF Linux!StatusFollowsEnv
  <2>2. (desktopOn <=> env \in LinuxPorts) /\ (desktopOn => desktopAddr[k] = env)
    BY <2>1 DEF LinuxIInv, Linux!DesktopFollowsEnv
  <2>3. QED
    BY <2>2 DEF Linux!Status, Linux!Off
<1>2. QED
  BY <1>1, LinuxInitIInv, LinuxNextIInv, PTL DEF Linux!Spec

-----------------------------------------------------------------------------
(* The batches implement the switch *)

\* A report that is truthful of proxy.env is a step of the switch.
LEMMA LinuxReportRefined ==
  ASSUME LinuxTyped, NEW c \in Callers, linuxTask[c] # "none", NEW t \in LinuxEndings, Linux!Report(c, t),
         UNCHANGED env,
         t = "enabled" => linuxTask[c] = "enable",
         t = "disabled" => linuxTask[c] = "disable",
         linuxAlone[c] => Linux!PS!Truthful(c, t)
  PROVE  Linux!PS!Finish(c)
BY DEF Linux!Report, Linux!Switch, Linux!PS!Finish, LinuxEndings

\* A batch that fails has left proxy.env as it was, or empty.
LEMMA LinuxFailsRefined ==
  ASSUME LinuxIInv, NEW c \in Callers, linuxTask[c] # "none", linuxPhase[c] # "desktop",
         Linux!Report(c, "failed"), UNCHANGED env
  PROVE  Linux!PS!Finish(c)
<1>1. ASSUME linuxAlone[c] PROVE Linux!Switch \in {linuxBefore[c], "mixed"}
  BY <1>1 DEF LinuxIInv, LinuxKnows, LinuxTyped, Linux!TypeOK
<1>2. linuxAlone[c] => Linux!PS!Truthful(c, "failed")
  BY <1>1 DEF Linux!PS!Truthful, Linux!PS!HalfDone
<1>3. QED
  BY <1>2, LinuxReportRefined DEF LinuxIInv, LinuxEndings

\* Every step is one of the switch or leaves it alone.
LEMMA LinuxNextRefined == LinuxIInv /\ [Linux!Next]_(Linux!vars) => [Linux!PS!Next]_(Linux!PS!vars)
<1> SUFFICES ASSUME LinuxIInv, [Linux!Next]_(Linux!vars) PROVE Linux!PS!Next \/ UNCHANGED Linux!PS!vars
  OBVIOUS
<1> LinuxTyped
  BY DEF LinuxIInv
<1>1. ASSUME NEW c \in Callers, Linux!Begin(c) PROVE Linux!PS!Begin(c)
  BY <1>1 DEF Linux!Begin, Linux!desktop, Linux!Switch, Linux!PS!Begin
<1>2. ASSUME NEW c \in Callers, Linux!Open(c) PROVE Linux!PS!Turn(c) \/ Linux!PS!Finish(c)
  <2>1. CASE env' = Empty /\ Linux!Goto(c, "write")
    BY <1>2, <2>1, LinuxSwitchWillBe DEF Linux!Open, Linux!Goto, Linux!PS!Turn
  <2>2. QED
    BY <1>2, <2>1, LinuxFailsRefined DEF Linux!Open
<1>3. ASSUME NEW c \in Callers, Linux!Write(c) PROVE Linux!PS!Turn(c) \/ Linux!PS!Finish(c)
  <2>1. linuxTask[c] = "enable" /\ linuxWant[c] \in LinuxPorts /\ linuxPhase[c] = "write"
    BY <1>3 DEF Linux!Write, LinuxTyped, Linux!TypeOK
  <2>2. CASE env' = linuxWant[c] /\ Linux!Goto(c, "desktop")
    BY <2>1, <2>2, LinuxSwitchWillBe DEF Linux!Goto, Linux!PS!Turn, Linux!PS!Goal
  <2>3. QED
    BY <1>3, <2>1, <2>2, LinuxFailsRefined DEF Linux!Write
<1>4. ASSUME NEW c \in Callers, Linux!Exists(c) PROVE UNCHANGED Linux!PS!vars
  BY <1>4 DEF Linux!Exists, Linux!Goto, Linux!Switch, Linux!PS!vars
<1>5. ASSUME NEW c \in Callers, Linux!Remove(c) PROVE Linux!PS!Turn(c) \/ Linux!PS!Finish(c)
  <2>1. linuxTask[c] = "disable" /\ linuxPhase[c] = "remove"
    BY <1>5 DEF Linux!Remove, LinuxTyped
  <2>2. CASE env' = Absent /\ Linux!Goto(c, "desktop")
    BY <2>1, <2>2, LinuxSwitchWillBe DEF Linux!Goto, Linux!PS!Turn, Linux!PS!Goal
  <2>3. QED
    BY <1>5, <2>1, <2>2, LinuxFailsRefined DEF Linux!Remove
<1>6. ASSUME NEW c \in Callers, Linux!RunDesktop(c) PROVE UNCHANGED Linux!PS!vars
  BY <1>6 DEF Linux!RunDesktop, Linux!Step, Linux!Switch, Linux!PS!vars
<1>7. ASSUME NEW c \in Callers, Linux!Done(c) PROVE Linux!PS!Finish(c)
  <2>1. linuxTask[c] \in {"enable", "disable"} /\ linuxPhase[c] = "desktop"
    BY <1>7 DEF Linux!Done, LinuxTyped, Linux!TypeOK
  <2>2. linuxAlone[c] => Linux!Switch = Linux!PS!Goal(linuxTask[c])
    BY <2>1, LinuxSwitchIs DEF LinuxIInv, LinuxKnows, LinuxTyped, Linux!TypeOK, Linux!PS!Goal
  <2>3. QED
    BY <1>7, <2>1, <2>2, LinuxReportRefined DEF Linux!Done, LinuxEndings, Linux!PS!Truthful
<1>8. ASSUME NEW c \in Callers, Linux!Kill(c) PROVE Linux!PS!Finish(c)
  BY <1>8, LinuxReportRefined DEF Linux!Kill, LinuxEndings, Linux!PS!Truthful
<1>9. CASE UNCHANGED Linux!vars
  BY <1>9 DEF Linux!vars, Linux!Switch, Linux!PS!vars
<1>10. QED
  BY <1>1, <1>2, <1>3, <1>4, <1>5, <1>6, <1>7, <1>8, <1>9 DEF Linux!Next, Linux!PS!Next

\* What the callers in main.rs may assume of enable_proxy and disable_proxy is
\* what becomes of proxy.env (linux.rs, enable_proxy, disable_proxy).
THEOREM LinuxRefinement == Linux!Spec => Linux!ImplementsProxySwitch
<1>1. Linux!Init => Linux!PS!Init
  BY LinuxSwitchIs DEF Linux!Init, Linux!PS!Init, Linux!PS!Switches
<1>2. QED
  BY <1>1, LinuxInitIInv, LinuxNextIInv, LinuxNextRefined, PTL
     DEF Linux!Spec, Linux!ImplementsProxySwitch, Linux!PS!Spec

-----------------------------------------------------------------------------
(***************************************************************************)
(* Windows                                                                 *)
(***************************************************************************)

WindowsGoal(t) == IF t = "enable" THEN "on" ELSE "off"
WindowsEndings == {"enabled", "disabled", "failed", "killed"}

\* What there is besides TypeOK's variables, and the address of a batch.
WindowsTyped ==
  /\ Windows!TypeOK
  /\ windowsTold \in [Callers -> WindowsEndings \cup {"none"}]
  /\ windowsBefore \in [Callers -> {"off", "mixed", "on"}]
  /\ windowsAlone \in [Callers -> BOOLEAN] /\ windowsSmooth \in [Callers -> BOOLEAN]
  /\ windowsDisturbed \in BOOLEAN
  /\ \A c \in Callers : /\ windowsTask[c] = "enable" => windowsWant[c] \in Ports
                        /\ windowsTask[c] = "disable" => windowsWant[c] = None

\* What a batch that has met no other knows of the switch: as it was up to the
\* first write, half way after it, and at its goal after the second.
WindowsKnows(c) ==
  /\ \A d \in Callers : windowsTask[d] # "none" => d = c
  /\ windowsPhase[c] \in {"open", "enable"} => Windows!Switch = windowsBefore[c]
  /\ windowsPhase[c] \in {"server", "winhttp"} => (ProxyEnable <=> windowsTask[c] = "enable")
  /\ windowsPhase[c] = "server" => \/ Windows!Switch \in {windowsBefore[c], "mixed"}
                                   \/ windowsBefore[c] = "mixed" /\ Windows!Switch = WindowsGoal(windowsTask[c])
  /\ windowsPhase[c] = "winhttp" => ProxyServer = windowsWant[c]

WindowsIInv ==
  /\ WindowsTyped /\ Windows!AllAgree
  /\ \A c \in Callers : windowsTask[c] # "none" /\ windowsAlone[c] => WindowsKnows(c)

\* The three positions of the switch, now and after a step.
LEMMA WindowsSwitchIs ==
  /\ Windows!Switch = "on" <=> ProxyEnable /\ ProxyServer \in Ports
  /\ Windows!Switch = "off" <=> ~ProxyEnable /\ ProxyServer = None
  /\ Windows!Switch \in {"off", "mixed", "on"}
BY DEF Windows!Switch

\* The same of the state after a step.
LEMMA WindowsSwitchWillBe ==
  /\ Windows!Switch' = "on" <=> ProxyEnable' /\ ProxyServer' \in Ports
  /\ Windows!Switch' = "off" <=> ~ProxyEnable' /\ ProxyServer' = None
  /\ Windows!Switch' \in {"off", "mixed", "on"}
BY DEF Windows!Switch

-----------------------------------------------------------------------------
\* The first states.
LEMMA WindowsInitIInv == Windows!Init => WindowsIInv
<1> SUFFICES ASSUME Windows!Init PROVE WindowsIInv
  OBVIOUS
<1>1. /\ windowsAlone \in [Callers -> BOOLEAN] /\ windowsSmooth \in [Callers -> BOOLEAN]
  BY Zenon DEF Windows!Init
<1>2. WindowsTyped
  BY <1>1, WindowsSwitchIs DEF Windows!Init, WindowsTyped, Windows!TypeOK
<1>3. QED
  BY <1>2 DEF Windows!Init, WindowsIInv, Windows!AllAgree

\* A batch that begins knows the switch, and nobody else does any more.
LEMMA WindowsBeginIInv == ASSUME WindowsIInv, NEW c \in Callers, Windows!Begin(c) PROVE WindowsIInv'
<1>1. /\ windowsAlone' \in [Callers -> BOOLEAN]
      /\ windowsSmooth' \in [Callers -> BOOLEAN]
      /\ windowsDisturbed' \in BOOLEAN
  <2>1. [d \in Callers |-> d = c /\ \A e \in Callers : windowsTask[e] = "none"] \in [Callers -> BOOLEAN]
    BY Zenon
  <2>2. [windowsSmooth EXCEPT ![c] = TRUE] \in [Callers -> BOOLEAN]
    BY Zenon DEF WindowsIInv, WindowsTyped
  <2>3. windowsDisturbed' \in BOOLEAN
    BY Zenon DEF Windows!Begin
  <2>4. QED
    BY <2>1, <2>2, <2>3 DEF Windows!Begin
<1>2. WindowsTyped'
  BY <1>1, WindowsSwitchIs DEF Windows!Begin, Windows!settings, WindowsIInv, WindowsTyped, Windows!TypeOK
<1>3. Windows!AllAgree'
  BY DEF Windows!Begin, WindowsIInv, WindowsTyped, Windows!TypeOK, Windows!AllAgree, Windows!Idle
<1>4. ASSUME NEW d \in Callers, windowsAlone'[d] PROVE WindowsKnows(d)'
  <2>1. d = c /\ \A e \in Callers : windowsTask[e] = "none"
    BY <1>4 DEF Windows!Begin
  <2>2. windowsPhase'[c] = "open" /\ Windows!Switch' = Windows!Switch /\ windowsBefore'[c] = Windows!Switch
    BY <2>1 DEF Windows!Begin, Windows!settings, Windows!Switch, WindowsIInv, WindowsTyped, Windows!TypeOK
  <2>3. \A e \in Callers : windowsTask'[e] # "none" => e = c
    BY <2>1 DEF Windows!Begin, WindowsIInv, WindowsTyped, Windows!TypeOK
  <2>4. QED
    BY <2>1, <2>2, <2>3 DEF WindowsKnows
<1>5. QED
  BY <1>2, <1>3, <1>4 DEF WindowsIInv

\* A step of one batch takes nothing from what another knows, for whoever knows
\* anything is the only one.
LEMMA WindowsOthersKnow ==
  ASSUME WindowsIInv, NEW c \in Callers, windowsTask[c] # "none", UNCHANGED windowsAlone,
         NEW d \in Callers, d # c, windowsTask'[d] = windowsTask[d]
  PROVE  ~(windowsTask'[d] # "none" /\ windowsAlone'[d])
BY DEF WindowsIInv, WindowsKnows

\* The end of a batch, of which only one that met no other and worked
\* throughout speaks for the settings.
LEMMA WindowsReportIInv ==
  ASSUME WindowsIInv, NEW c \in Callers, windowsTask[c] # "none", NEW t \in WindowsEndings,
         Windows!Report(c, t),
         UNCHANGED <<ProxyEnable, ProxyServer>>,
         winhttp' \in Ports \cup {Other, None}, windowsSmooth' \in [Callers -> BOOLEAN],
         t \in {"enabled", "disabled"} => /\ windowsPhase[c] = "winhttp"
                                          /\ windowsSmooth'[c] => winhttp' = windowsWant[c]
  PROVE  WindowsIInv'
<1>1. windowsDisturbed' \in BOOLEAN
  BY Zenon DEF Windows!Report
<1>2. WindowsTyped'
  BY <1>1 DEF Windows!Report, WindowsIInv, WindowsTyped, Windows!TypeOK, WindowsEndings
<1>3. ASSUME ~windowsDisturbed' PROVE t \in {"enabled", "disabled"} /\ windowsAlone[c] /\ windowsSmooth'[c]
  <2>1. windowsDisturbed' = ~(t \in {"enabled", "disabled"} /\ windowsAlone[c] /\ windowsSmooth'[c])
    BY DEF Windows!Report
  <2>2. QED
    BY <1>3, <2>1, Zenon
<1>4. Windows!AllAgree'
  <2>1. SUFFICES ASSUME ~windowsDisturbed'
                 PROVE  /\ ProxyEnable' <=> ProxyServer' \in Ports
                        /\ winhttp' = (IF ProxyEnable' THEN ProxyServer' ELSE None)
                        /\ Windows!Status("socks")' = winhttp'
    BY DEF Windows!AllAgree
  <2>2. WindowsKnows(c) /\ windowsPhase[c] = "winhttp" /\ winhttp' = windowsWant[c]
    BY <1>3, <2>1 DEF WindowsIInv
  <2>3. /\ ProxyEnable' <=> windowsTask[c] = "enable"
        /\ ProxyServer' = windowsWant[c] /\ winhttp' = windowsWant[c]
        /\ windowsTask[c] \in {"enable", "disable"}
    BY <2>2 DEF WindowsKnows, WindowsIInv, WindowsTyped, Windows!TypeOK
  <2>4. /\ windowsTask[c] = "enable" => windowsWant[c] \in Ports
        /\ windowsTask[c] = "disable" => windowsWant[c] = None
    BY DEF WindowsIInv, WindowsTyped
  <2>5. QED
    BY <2>3, <2>4 DEF Windows!Status
<1>5. ASSUME NEW d \in Callers, d # c PROVE ~(windowsTask'[d] # "none" /\ windowsAlone'[d])
  BY <1>5, WindowsOthersKnow DEF Windows!Report, WindowsIInv, WindowsTyped, Windows!TypeOK
<1>6. windowsTask'[c] = "none"
  BY DEF Windows!Report, WindowsIInv, WindowsTyped, Windows!TypeOK
<1>7. QED
  BY <1>2, <1>4, <1>5, <1>6 DEF WindowsIInv

\* A batch goes on.
LEMMA WindowsGotoIInv ==
  ASSUME WindowsIInv, NEW c \in Callers, windowsTask[c] # "none", NEW p \in {"enable", "server", "winhttp"},
         Windows!Goto(c, p),
         ProxyEnable' \in BOOLEAN, ProxyServer' \in Ports \cup {Other, None}, UNCHANGED winhttp,
         windowsAlone[c] => WindowsKnows(c)'
  PROVE  WindowsIInv'
<1>1. WindowsTyped'
  BY DEF Windows!Goto, WindowsIInv, WindowsTyped, Windows!TypeOK
<1>2. Windows!AllAgree'
  BY DEF Windows!Goto, Windows!AllAgree, Windows!Idle
<1>3. ASSUME NEW d \in Callers, d # c PROVE ~(windowsTask'[d] # "none" /\ windowsAlone'[d])
  BY <1>3, WindowsOthersKnow DEF Windows!Goto
<1>4. QED
  BY <1>1, <1>2, <1>3 DEF Windows!Goto, WindowsIInv

\* Whoever is past the key has a batch.
LEMMA WindowsInBatch ==
  ASSUME WindowsTyped, NEW c \in Callers, windowsPhase[c] # "open"
  PROVE  windowsTask[c] \in {"enable", "disable"}
BY DEF WindowsTyped, Windows!TypeOK

\* A failure ends a batch.
LEMMA WindowsFailsIInv == ASSUME WindowsIInv, NEW c \in Callers, windowsTask[c] # "none", Windows!Fails(c)
                          PROVE WindowsIInv'
BY WindowsReportIInv DEF Windows!Fails, Windows!settings, WindowsIInv, WindowsTyped, Windows!TypeOK,
   WindowsEndings

\* The first write leaves the switch half way at most.
LEMMA WindowsSetEnableKnows ==
  ASSUME WindowsTyped, NEW c \in Callers, windowsTask[c] # "none", WindowsKnows(c), windowsPhase[c] = "enable",
         ProxyEnable' = (windowsTask[c] = "enable"), Windows!Goto(c, "server"), UNCHANGED ProxyServer
  PROVE  WindowsKnows(c)'
<1>1. /\ windowsPhase'[c] = "server"
      /\ UNCHANGED <<windowsTask, windowsBefore, windowsWant>>
      /\ Windows!Switch = windowsBefore[c]
      /\ ProxyEnable' <=> windowsTask[c] = "enable"
      /\ windowsTask[c] \in {"enable", "disable"}
  BY DEF Windows!Goto, WindowsKnows, WindowsTyped, Windows!TypeOK
<1>2. \/ Windows!Switch' \in {windowsBefore[c], "mixed"}
      \/ windowsBefore[c] = "mixed" /\ Windows!Switch' = WindowsGoal(windowsTask[c])
  BY <1>1, WindowsSwitchIs, WindowsSwitchWillBe DEF WindowsGoal, WindowsTyped, Windows!TypeOK
<1>3. QED
  BY <1>1, <1>2 DEF WindowsKnows, WindowsGoal

\* No step disturbs the invariant.
LEMMA WindowsNextIInv == WindowsIInv /\ [Windows!Next]_(Windows!vars) => WindowsIInv'
<1> SUFFICES ASSUME WindowsIInv, [Windows!Next]_(Windows!vars) PROVE WindowsIInv'
  OBVIOUS
<1> WindowsTyped
  BY DEF WindowsIInv
<1>1. ASSUME NEW c \in Callers, Windows!OpenKey(c) PROVE WindowsIInv'
  <2>1. CASE Windows!Goto(c, "enable") /\ UNCHANGED Windows!settings
    <3>1. windowsAlone[c] => WindowsKnows(c)'
      BY <1>1, <2>1 DEF Windows!OpenKey, Windows!Goto, Windows!settings, WindowsIInv, WindowsKnows,
         Windows!Switch, WindowsGoal, WindowsTyped, Windows!TypeOK
    <3>2. QED
      BY <1>1, <2>1, <3>1, WindowsGotoIInv DEF Windows!OpenKey, Windows!settings, WindowsTyped, Windows!TypeOK
  <2>2. QED
    BY <1>1, <2>1, WindowsFailsIInv DEF Windows!OpenKey
<1>2. ASSUME NEW c \in Callers, Windows!SetEnable(c) PROVE WindowsIInv'
  <2>1. windowsTask[c] # "none"
    BY <1>2, WindowsInBatch DEF Windows!SetEnable
  <2>2. CASE /\ ProxyEnable' = (windowsTask[c] = "enable")
             /\ Windows!Goto(c, "server")
             /\ UNCHANGED <<ProxyServer, winhttp>>
    <3>1. windowsAlone[c] => WindowsKnows(c)'
      BY <1>2, <2>1, <2>2, WindowsSetEnableKnows DEF Windows!SetEnable, WindowsIInv
    <3>2. ProxyEnable' \in BOOLEAN
      BY <2>2, Zenon
    <3>3. QED
      BY <2>1, <2>2, <3>1, <3>2, WindowsGotoIInv DEF WindowsTyped, Windows!TypeOK
  <2>3. QED
    BY <1>2, <2>1, <2>2, WindowsFailsIInv DEF Windows!SetEnable
<1>3. ASSUME NEW c \in Callers, Windows!SetServer(c) PROVE WindowsIInv'
  <2>1. windowsTask[c] # "none" /\ windowsWant[c] \in Ports \cup {Other, None}
    BY <1>3, WindowsInBatch DEF Windows!SetServer, WindowsTyped, Windows!TypeOK
  <2>2. CASE ProxyServer' = windowsWant[c] /\ Windows!Goto(c, "winhttp") /\ UNCHANGED <<ProxyEnable, winhttp>>
    <3>1. windowsAlone[c] => WindowsKnows(c)'
      BY <1>3, <2>1, <2>2 DEF Windows!SetServer, Windows!Goto, WindowsIInv, WindowsKnows, WindowsGoal,
         WindowsTyped, Windows!TypeOK
    <3>2. QED
      BY <2>1, <2>2, <3>1, WindowsGotoIInv DEF WindowsTyped, Windows!TypeOK
  <2>3. QED
    BY <1>3, <2>1, <2>2, WindowsFailsIInv DEF Windows!SetServer
<1>4. ASSUME NEW c \in Callers, Windows!Netsh(c) PROVE WindowsIInv'
  <2>1. windowsTask[c] # "none" /\ windowsPhase[c] = "winhttp"
    BY <1>4, WindowsInBatch DEF Windows!Netsh
  <2>2. winhttp' \in Ports \cup {Other, None} /\ windowsSmooth' \in [Callers -> BOOLEAN]
        /\ (windowsSmooth'[c] => winhttp' = windowsWant[c])
    BY <1>4 DEF Windows!Netsh, WindowsTyped, Windows!TypeOK
  <2>3. QED
    BY <1>4, <2>1, <2>2, WindowsReportIInv DEF Windows!Netsh, WindowsEndings
<1>5. ASSUME NEW c \in Callers, Windows!Kill(c) PROVE WindowsIInv'
  BY <1>5, WindowsReportIInv DEF Windows!Kill, Windows!settings, WindowsTyped, Windows!TypeOK, WindowsEndings
<1>6. CASE UNCHANGED Windows!vars
  BY <1>6 DEF Windows!vars, Windows!settings, WindowsIInv, WindowsTyped, Windows!TypeOK, Windows!AllAgree,
     Windows!Idle, Windows!Status, WindowsKnows, Windows!Switch, WindowsGoal
<1>7. QED
  BY <1>1, <1>2, <1>3, <1>4, <1>5, <1>6, WindowsBeginIInv DEF Windows!Next

\* Every variable has its type, and none gets past the key without an address
\* (windows.rs, write_proxy_settings).
THEOREM WindowsTypeCorrect == Windows!Spec => []Windows!TypeOK
<1>1. WindowsIInv => Windows!TypeOK
  BY DEF WindowsIInv, WindowsTyped
<1>2. QED
  BY <1>1, WindowsInitIInv, WindowsNextIInv, PTL DEF Windows!Spec

\* The two proxies and what status says agree, unless a batch failed, died or
\* met another (windows.rs, enable_proxy, disable_proxy, proxy_status).
THEOREM WindowsAgreement == Windows!Spec => []Windows!AllAgree
<1>1. WindowsIInv => Windows!AllAgree
  BY DEF WindowsIInv
<1>2. QED
  BY <1>1, WindowsInitIInv, WindowsNextIInv, PTL DEF Windows!Spec

-----------------------------------------------------------------------------
(* The batches implement the switch *)

\* A report that is truthful of the registry is a step of the switch.
LEMMA WindowsReportRefined ==
  ASSUME WindowsTyped, NEW c \in Callers, windowsTask[c] # "none", NEW t \in WindowsEndings,
         Windows!Report(c, t),
         UNCHANGED <<ProxyEnable, ProxyServer>>,
         t = "enabled" => windowsTask[c] = "enable",
         t = "disabled" => windowsTask[c] = "disable",
         windowsAlone[c] => Windows!PS!Truthful(c, t)
  PROVE  Windows!PS!Finish(c)
BY DEF Windows!Report, Windows!Switch, Windows!PS!Finish, WindowsEndings

\* A batch that fails has not got past its second write.
LEMMA WindowsFailsRefined ==
  ASSUME WindowsIInv, NEW c \in Callers, windowsTask[c] # "none", windowsPhase[c] # "winhttp", Windows!Fails(c)
  PROVE  Windows!PS!Finish(c)
<1>1. ASSUME windowsAlone[c]
      PROVE Windows!Switch \in Windows!PS!HalfDone(windowsBefore[c], Windows!PS!Goal(windowsTask[c]))
  <2>1. WindowsKnows(c) /\ windowsPhase[c] \in {"open", "enable", "server"}
    BY <1>1 DEF WindowsIInv, WindowsTyped, Windows!TypeOK
  <2>2. \/ Windows!Switch \in {windowsBefore[c], "mixed"}
        \/ windowsBefore[c] = "mixed" /\ Windows!Switch = Windows!PS!Goal(windowsTask[c])
    BY <2>1 DEF WindowsKnows, WindowsGoal, Windows!PS!Goal
  <2>3. QED
    BY <2>2 DEF Windows!PS!HalfDone
<1>2. windowsAlone[c] => Windows!PS!Truthful(c, "failed")
  BY <1>1 DEF Windows!PS!Truthful
<1>3. QED
  BY <1>2, WindowsReportRefined DEF Windows!Fails, Windows!settings, WindowsIInv, WindowsEndings

\* Every step is one of the switch or leaves it alone.
LEMMA WindowsNextRefined == WindowsIInv /\ [Windows!Next]_(Windows!vars) => [Windows!PS!Next]_(Windows!PS!vars)
<1> SUFFICES ASSUME WindowsIInv, [Windows!Next]_(Windows!vars)
             PROVE Windows!PS!Next \/ UNCHANGED Windows!PS!vars
  OBVIOUS
<1> WindowsTyped
  BY DEF WindowsIInv
<1>1. ASSUME NEW c \in Callers, Windows!Begin(c) PROVE Windows!PS!Begin(c)
  BY <1>1 DEF Windows!Begin, Windows!settings, Windows!Switch, Windows!PS!Begin
<1>2. ASSUME NEW c \in Callers, Windows!OpenKey(c) PROVE Windows!PS!Finish(c) \/ UNCHANGED Windows!PS!vars
  BY <1>2, WindowsFailsRefined
     DEF Windows!OpenKey, Windows!Goto, Windows!settings, Windows!Switch, Windows!PS!vars
<1>3. ASSUME NEW c \in Callers, Windows!SetEnable(c) PROVE Windows!PS!Turn(c) \/ Windows!PS!Finish(c)
  <2>1. windowsTask[c] \in {"enable", "disable"} /\ windowsPhase[c] = "enable"
    BY <1>3, WindowsInBatch DEF Windows!SetEnable
  <2>2. CASE /\ ProxyEnable' = (windowsTask[c] = "enable")
             /\ Windows!Goto(c, "server")
             /\ UNCHANGED <<ProxyServer, winhttp>>
    BY <2>1, <2>2, WindowsSwitchWillBe DEF Windows!Goto, Windows!PS!Turn, Windows!PS!Goal
  <2>3. QED
    BY <1>3, <2>1, <2>2, WindowsFailsRefined DEF Windows!SetEnable
<1>4. ASSUME NEW c \in Callers, Windows!SetServer(c) PROVE Windows!PS!Turn(c) \/ Windows!PS!Finish(c)
  <2>1. windowsTask[c] \in {"enable", "disable"} /\ windowsPhase[c] = "server"
    BY <1>4, WindowsInBatch DEF Windows!SetServer
  <2>2. CASE ProxyServer' = windowsWant[c] /\ Windows!Goto(c, "winhttp") /\ UNCHANGED <<ProxyEnable, winhttp>>
    <3>1. /\ windowsTask[c] = "enable" => windowsWant[c] \in Ports
          /\ windowsTask[c] = "disable" => windowsWant[c] = None
      BY DEF WindowsTyped
    <3>2. QED
      BY <2>1, <2>2, <3>1, WindowsSwitchWillBe DEF Windows!Goto, Windows!PS!Turn, Windows!PS!Goal
  <2>3. QED
    BY <1>4, <2>1, <2>2, WindowsFailsRefined DEF Windows!SetServer
<1>5. ASSUME NEW c \in Callers, Windows!Netsh(c) PROVE Windows!PS!Finish(c)
  <2>1. windowsTask[c] \in {"enable", "disable"} /\ windowsPhase[c] = "winhttp"
    BY <1>5, WindowsInBatch DEF Windows!Netsh
  <2>2. windowsAlone[c] => Windows!Switch = Windows!PS!Goal(windowsTask[c])
    BY <2>1, WindowsSwitchIs DEF WindowsIInv, WindowsKnows, WindowsTyped, Windows!PS!Goal
  <2>3. QED
    BY <1>5, <2>1, <2>2, WindowsReportRefined DEF Windows!Netsh, WindowsEndings, Windows!PS!Truthful
<1>6. ASSUME NEW c \in Callers, Windows!Kill(c) PROVE Windows!PS!Finish(c)
  BY <1>6, WindowsReportRefined DEF Windows!Kill, Windows!settings, WindowsEndings, Windows!PS!Truthful
<1>7. CASE UNCHANGED Windows!vars
  BY <1>7 DEF Windows!vars, Windows!settings, Windows!Switch, Windows!PS!vars
<1>8. QED
  BY <1>1, <1>2, <1>3, <1>4, <1>5, <1>6, <1>7 DEF Windows!Next, Windows!PS!Next

\* What the callers in main.rs may assume of enable_proxy and disable_proxy is
\* what the writes to the registry do (windows.rs, write_proxy_settings).
THEOREM WindowsRefinement == Windows!Spec => Windows!ImplementsProxySwitch
<1>1. Windows!Init => Windows!PS!Init
  BY WindowsSwitchIs DEF Windows!Init, Windows!PS!Init, Windows!PS!Switches
<1>2. QED
  BY <1>1, WindowsInitIInv, WindowsNextIInv, WindowsNextRefined, PTL
     DEF Windows!Spec, Windows!ImplementsProxySwitch, Windows!PS!Spec

-----------------------------------------------------------------------------
(***************************************************************************)
(* Side by side: each behaviour is, of each platform, one of its own.      *)
(***************************************************************************)

\* What rests has begun, and what runs runs alone.
LEMMA PartsRun == ProxiesSpec => Spec /\ Linux!Spec /\ Windows!Spec
<1>1. ProxiesInit => Init /\ Linux!Init /\ Windows!Init
  BY DEF ProxiesInit, MacRests, LinuxRests, WindowsRests
<1>2. [ProxiesNext]_<<part, vars, linuxVars, windowsVars>> =>
        [Next]_vars /\ [Linux!Next]_(Linux!vars) /\ [Windows!Next]_(Windows!vars)
  BY DEF ProxiesNext, linuxVars, windowsVars, Linux!vars, Linux!desktop, Windows!vars, Windows!settings
<1>3. QED
  BY <1>1, <1>2, PTL DEF ProxiesSpec, Spec, Linux!Spec, Windows!Spec

\* After a batch that met no other and worked, everything a platform shows the
\* proxy in says the same (src/src/platform: macos.rs, linux.rs, windows.rs).
THEOREM Agree == ProxiesSpec => []SettingsAgree
<1>1. TypeOK /\ LastWordsAgree
        /\ Linux!TypeOK /\ Linux!DesktopFollowsEnv /\ Linux!StatusFollowsEnv
        /\ Windows!TypeOK /\ Windows!AllAgree => SettingsAgree
  BY DEF SettingsAgree
<1>2. QED
  BY <1>1, PartsRun, TypeCorrect, LastWords, LinuxTypeCorrect, LinuxDesktopFollows,
     LinuxStatusFollows, WindowsTypeCorrect, WindowsAgreement, PTL

\* proxy.env and the registry keep the promise of enable_proxy and
\* disable_proxy (platform/mod.rs), whoever else runs.
THEOREM OthersRefine == ProxiesSpec => OthersImplement
BY PartsRun, LinuxRefinement, WindowsRefinement, PTL DEF OthersImplement

\* And so do, side by side with them, the three proxies of macOS.
THEOREM MacRefines ==
  ProxiesSpec => []HonestDenial /\ NeverOnAtStale /\ ImplementsProxySwitch
BY PartsRun, Denial, NeverStale, Refinement, PTL
=============================================================================
