-------------------------- MODULE ActuatorRefinement --------------------------
(* ParkingActuator seen through the contract its callers rely on.          *)
EXTENDS ParkingActuator

OwnerMode ==
  IF lifecycle # "ready" THEN "off"
  ELSE IF parkingStopping THEN "stopping"
  ELSE IF parkingOwner = Parking THEN "parking" ELSE "free"

ReceiptKind ==
  IF applied.cmd = 0 THEN "none"
  ELSE IF IsStop(applied.ctl) THEN "stop" ELSE "other"

Ownership == INSTANCE ActuatorOwnership WITH
  mode      <- OwnerMode,
  command   <- lastCmd.id,
  issued    <- nextCommandID,
  planned   <- plan.held,
  receipt   <- [cmd |-> applied.cmd, kind |-> ReceiptKind],
  attempted <- attempted,
  fault     <- applyFault

(* Every behaviour of the service is one its callers are prepared for: the *)
(* ownership, plan and receipt rules of ActuatorOwnership.                 *)
ImplementsOwnership == Ownership!OwnershipSpec
=============================================================================
