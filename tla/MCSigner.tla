------------------------------ MODULE MCSigner ------------------------------
(***************************************************************************)
(* The tasks of the signer, its transfers and the PIN it shares with the   *)
(* other programs, side by side: a behaviour is one of one part, chosen at *)
(* the start, and the other parts stay as they began.                      *)
(***************************************************************************)
EXTENDS XfrInput, XfrSlots, Notify, SignerTasks, HsmPin

VARIABLE part

Parts == {"input", "slots", "notify", "tasks", "pin"}

MCXfrOption(retransfer, abort, fails, changes) ==
  [retransfer |-> retransfer, abort |-> abort, fails |-> fails,
   changes |-> changes]

MCXfrOptions ==
  {MCXfrOption(FALSE, TRUE, 0, 2), MCXfrOption(TRUE, FALSE, 0, 1),
   MCXfrOption(TRUE, TRUE, 0, 1), MCXfrOption(FALSE, FALSE, 2, 1)}

MCSysOutcomes == {{"ok", "fail"}, {"ok", "nobind"}}

MCTaskOption(format, forced, restart, clients, fails, cmds) ==
  [format |-> format, forced |-> forced, restart |-> restart,
   clients |-> clients, fails |-> fails, cmds |-> cmds]

MCTaskOptions ==
  {MCTaskOption("counter", FALSE, FALSE, FALSE, FALSE, 4),
   MCTaskOption("counter", FALSE, FALSE, FALSE, TRUE, 4),
   MCTaskOption("keep", FALSE, TRUE, FALSE, FALSE, 4),
   MCTaskOption("datecounter", FALSE, FALSE, TRUE, FALSE, 4),
   MCTaskOption("unixtime", TRUE, FALSE, FALSE, FALSE, 4)}

MCPinBound(opens, logouts, changes, deaths, breaks) ==
  [opens |-> opens, logouts |-> logouts, changes |-> changes, deaths |-> deaths,
   breaks |-> breaks]

MCPinBounds ==
  {MCPinBound(2, 1, 1, 0, 0), MCPinBound(2, 1, 0, 1, 0), MCPinBound(2, 0, 0, 0, 1)}

signervars == <<part, xvars, slotvars, notifyvars, taskvars, pinvars>>

SignerInit ==
  /\ part \in Parts
  /\ XfrInit /\ SlotsInit /\ NotifyInit /\ TasksInit /\ PinInit
  /\ part # "input" =>
       /\ xoption = CHOOSE o \in XfrOptions : TRUE
       /\ history = <<CHOOSE s \in FirstSerials : TRUE>>
  /\ part # "slots" => outcomes = CHOOSE o \in SysOutcomes : TRUE
  /\ part # "notify" => reenable = FALSE
  /\ part # "tasks" => topt = CHOOSE o \in TaskOptions : TRUE
  /\ part # "pin" => pleft.breaks = 1

SignerNext ==
  \/ /\ part = "input" /\ XfrInputNext
     /\ UNCHANGED <<part, slotvars, notifyvars, taskvars, pinvars>>
  \/ /\ part = "slots" /\ SlotsNext
     /\ UNCHANGED <<part, xvars, notifyvars, taskvars, pinvars>>
  \/ /\ part = "notify" /\ NotifyNext
     /\ UNCHANGED <<part, xvars, slotvars, taskvars, pinvars>>
  \/ /\ part = "tasks" /\ TasksNext
     /\ UNCHANGED <<part, xvars, slotvars, notifyvars, pinvars>>
  \/ /\ part = "pin" /\ PinNext
     /\ UNCHANGED <<part, xvars, slotvars, notifyvars, taskvars>>

SignerSpec == SignerInit /\ [][SignerNext]_signervars

\* What the transfer thread owes a zone (xfrd.c, addns.c): its transfers reach
\* the worker whole and in order, and it gets a TCP or UDP slot in its turn.
XfrdSound == TransfersSound /\ SlotsSound

=============================================================================
