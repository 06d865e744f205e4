------------------------------- MODULE Commands -------------------------------
(***************************************************************************)
(* The console's commands (plugins/run_command_plugin.cpp).                *)
(*                                                                         *)
(* The console offers its commands to each phone, the power commands only  *)
(* if a setting allows them.  The io thread sends the list when its phone  *)
(* asks for it, and the IPC thread sends it to every session again when    *)
(* the overlay has changed the setting.                                    *)
(***************************************************************************)
EXTENDS Naturals

CONSTANTS
  Phone,      \* connected phones
  Harmless,   \* commands without a risk
  Power,      \* nx-reboot and nx-shutdown
  MaxSteps    \* bound: what the overlay and the phones ask for

VARIABLES
  allowed,    \* RunCommandPowerCommandsEnabled
  resend,     \* the phones that the IPC thread has still to send the list to
  ioDoes,     \* for each phone's io thread: "idle", "send" or "run"
  ioSaw,      \* the setting as that thread has read it
  offered,    \* whether the list that the phone has offers the power commands
  stale,      \* the setting has changed between ioSaw and the list's sending
  order,      \* the command that the phone asked for
  could,      \* it was allowed at some time since the phone asked
  wrong,      \* a power command ran that never was
  steps

vars == <<allowed, resend, ioDoes, ioSaw, offered, stale, order, could, wrong, steps>>

Command == Harmless \cup Power

TypeOK ==
  /\ allowed \in BOOLEAN /\ wrong \in BOOLEAN
  /\ resend \in SUBSET Phone
  /\ ioDoes \in [Phone -> {"idle", "send", "run"}]
  /\ ioSaw \in [Phone -> BOOLEAN] /\ offered \in [Phone -> BOOLEAN]
  /\ stale \in [Phone -> BOOLEAN] /\ could \in [Phone -> BOOLEAN]
  /\ order \in [Phone -> Command]
  /\ steps \in 0 .. MaxSteps

\* The phones have connected and were sent the list.
Init ==
  /\ allowed \in BOOLEAN
  /\ resend = {}
  /\ ioDoes = [p \in Phone |-> "idle"]
  /\ ioSaw = [p \in Phone |-> allowed]
  /\ offered = [p \in Phone |-> allowed]
  /\ stale = [p \in Phone |-> FALSE]
  /\ order \in {[p \in Phone |-> c] : c \in Harmless}
  /\ could = [p \in Phone |-> FALSE]
  /\ wrong = FALSE
  /\ steps = 0

Count == steps < MaxSteps /\ steps' = steps + 1

-----------------------------------------------------------------------------

\* Mutant: the sessions are not told of a new setting.
WriteSettingOnly(on) ==
  /\ Count
  /\ resend = {}
  /\ allowed' = on
  /\ resend' = {}
  /\ stale' = [p \in Phone |-> stale[p] \/ (ioDoes[p] = "send" /\ ioSaw[p] # on)]
  /\ could' = [p \in Phone |-> could[p] \/ on]
  /\ UNCHANGED <<ioDoes, ioSaw, offered, order, wrong>>

\* WriteBoolSetting: the setting is set first, ...
WriteSetting(on) ==
  /\ Count
  /\ resend = {}
  /\ allowed' = on
  /\ resend' = Phone
  /\ stale' = [p \in Phone |-> stale[p] \/ (ioDoes[p] = "send" /\ ioSaw[p] # on)]
  /\ could' = [p \in Phone |-> could[p] \/ on]
  /\ UNCHANGED <<ioDoes, ioSaw, offered, order, wrong>>

\* ... and the list, read anew, sent to one session after the other.
Resend(p) ==
  /\ p \in resend
  /\ resend' = resend \ {p}
  /\ offered' = [offered EXCEPT ![p] = allowed]
  /\ UNCHANGED <<allowed, ioDoes, ioSaw, stale, order, could, wrong, steps>>

\* The phone asks for the list: send_local_command_list reads the setting, ...
AskList(p) ==
  /\ Count
  /\ ioDoes[p] = "idle"
  /\ ioDoes' = [ioDoes EXCEPT ![p] = "send"]
  /\ ioSaw' = [ioSaw EXCEPT ![p] = allowed]
  /\ stale' = [stale EXCEPT ![p] = FALSE]
  /\ UNCHANGED <<allowed, resend, offered, order, could, wrong>>

\* ... makes the list, and sends it.
SendList(p) ==
  /\ ioDoes[p] = "send"
  /\ offered' = [offered EXCEPT ![p] = ioSaw[p]]
  /\ ioDoes' = [ioDoes EXCEPT ![p] = "idle"]
  /\ UNCHANGED <<allowed, resend, ioSaw, stale, order, could, wrong, steps>>

\* The phone asks for a command, of a list that it may have had for long.
AskCommand(p, c) ==
  /\ Count
  /\ ioDoes[p] = "idle"
  /\ order' = [order EXCEPT ![p] = c]
  /\ could' = [could EXCEPT ![p] = allowed]
  /\ ioDoes' = [ioDoes EXCEPT ![p] = "run"]
  /\ UNCHANGED <<allowed, resend, ioSaw, offered, stale, wrong>>

\* Mutant: what was offered may run.
MayRunOffered(p) == order[p] \notin Power \/ offered[p]

\* run_local_command asks the setting again.
MayRun(p) == order[p] \notin Power \/ allowed

RunCommand(p) ==
  /\ ioDoes[p] = "run"
  /\ wrong' = (wrong \/ (MayRun(p) /\ order[p] \in Power /\ ~could[p]))
  /\ ioDoes' = [ioDoes EXCEPT ![p] = "idle"]
  /\ UNCHANGED <<allowed, resend, ioSaw, offered, stale, order, could, steps>>

Next ==
  \/ \E on \in BOOLEAN : WriteSetting(on)
  \/ \E p \in Phone :
       \/ Resend(p) \/ AskList(p) \/ SendList(p) \/ RunCommand(p)
       \/ \E c \in Command : AskCommand(p, c)

Spec == Init /\ [][Next]_vars

-----------------------------------------------------------------------------

\* When no list is under way, a phone is offered the power commands if and only if
\* they are allowed.  (Not if the setting changed while the io thread was making a
\* list: that list may arrive after the IPC thread's, and stays.)
OfferIsAllowed ==
  \A p \in Phone \ resend : ioDoes[p] # "send" /\ ~stale[p] => offered[p] = allowed

\* The console is not restarted or turned off for a phone unless the setting allowed
\* it at some time since the phone asked, whatever list the phone has.
PowerIsAllowed == ~wrong
=============================================================================
