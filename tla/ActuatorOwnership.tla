-------------------------- MODULE ActuatorOwnership --------------------------
(***************************************************************************)
(* What the actuator service promises to the code that drives it: who owns *)
(* the gamepad, which command is current, and what a receipt in State()    *)
(* means.  The inferencer of backend/internal/capture relies on this and   *)
(* on nothing else; ParkingActuator implements it.                         *)
(***************************************************************************)
EXTENDS Integers

VARIABLES
  mode,       \* "off": not ready; "free": a direct command or none;
              \* "parking": armed; "stopping": a safety stop is in force
  command,    \* ID of the current command, 0 when there is none
  issued,     \* the last command ID handed out
  planned,    \* a setpoint plan is held
  receipt,    \* State().Applied: for which command, and what kind of control
  attempted,  \* State().LastApplyAttemptedCommandID
  fault       \* State().LastApplyError is set

ownershipVars == <<mode, command, issued, planned, receipt, attempted, fault>>

(* "stop" is a control that actuatorStateConfirmsCommand accepts.          *)
Kinds == {"none", "stop", "other"}

NoReceipt == [cmd |-> 0, kind |-> "none"]

OwnershipTypeOK ==
  /\ mode \in {"off", "free", "parking", "stopping"}
  /\ command \in Nat
  /\ issued \in Nat
  /\ planned \in BOOLEAN
  /\ receipt \in [cmd: Nat, kind: Kinds]
  /\ attempted \in Nat
  /\ fault \in BOOLEAN

OwnershipInit ==
  /\ mode = "off"
  /\ command = 0
  /\ issued = 0
  /\ planned = FALSE
  /\ receipt = NoReceipt
  /\ attempted = 0
  /\ fault = FALSE

-----------------------------------------------------------------------------
Open ==
  /\ mode = "off"
  /\ mode' = "free"
  /\ UNCHANGED <<command, issued, planned, receipt, attempted, fault>>

Shut ==
  /\ mode # "off"
  /\ mode' = "off"
  /\ command' = 0
  /\ planned' = FALSE
  /\ receipt' = NoReceipt
  /\ attempted' = 0
  /\ fault' = FALSE
  /\ UNCHANGED issued

(* A command is accepted: it becomes current and no plan survives it.      *)
Accept(next) ==
  /\ mode # "off"
  /\ mode' = next
  /\ command' = issued + 1
  /\ issued' = issued + 1
  /\ planned' = FALSE
  /\ UNCHANGED <<receipt, attempted, fault>>

(* A direct command that enables the controls is refused under parking     *)
(* ownership; a disabled one always gets through, and frees the gamepad.   *)
DirectCommand == mode = "free" /\ Accept("free")
Release       == Accept("free")
Arm           == Accept("parking")
RequestStop   == Accept("stopping")

AcceptPlan ==
  /\ mode = "parking"
  /\ ~fault
  /\ planned' = TRUE
  /\ UNCHANGED <<mode, command, issued, receipt, attempted, fault>>

(* One tick.  Under a stop, or armed without a plan, only a stop is        *)
(* written; a report that the device refuses leaves the receipt alone.     *)
WriteOk ==
  /\ mode # "off"
  /\ \E kind \in Kinds :
       /\ (kind = "none") = (command = 0)
       /\ mode = "stopping" \/ (mode = "parking" /\ ~planned) => kind = "stop"
       /\ receipt' = [cmd |-> command, kind |-> kind]
  /\ attempted' = command
  /\ fault' = FALSE
  /\ UNCHANGED <<mode, command, issued, planned>>

WriteErr ==
  /\ mode # "off"
  /\ attempted' = command
  /\ fault' = TRUE
  /\ UNCHANGED <<mode, command, issued, planned, receipt>>

-----------------------------------------------------------------------------
OwnershipNext ==
  \/ Open \/ Shut
  \/ DirectCommand \/ Release \/ Arm \/ RequestStop
  \/ AcceptPlan
  \/ WriteOk \/ WriteErr

OwnershipSpec == OwnershipInit /\ [][OwnershipNext]_ownershipVars

(* A receipt for the command that is current tells the truth about it: if  *)
(* a stop is in force, or an arm without a plan, what it shows is a stop.  *)
ReceiptHonest ==
  /\ mode \in {"stopping", "parking"} => command > 0
  /\ mode = "stopping" \/ (mode = "parking" /\ ~planned) =>
       (receipt.cmd = command => receipt.kind = "stop")
  /\ receipt.cmd <= issued /\ command <= issued
=============================================================================
