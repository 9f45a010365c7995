------------------------- MODULE ParkingSessionProofs -------------------------
(* What TLAPS proves of ActuatorOwnership and of ParkingSession, for any   *)
(* number of sessions, goroutines and commands of other clients.           *)
EXTENDS ParkingSession, TLAPS

-----------------------------------------------------------------------------
(* The contract by itself.                                                 *)

OwnershipInv == OwnershipTypeOK /\ ReceiptHonest

LEMMA OwnershipInvInit == OwnershipInit => OwnershipInv
<1> SUFFICES ASSUME OwnershipInit PROVE OwnershipInv
  OBVIOUS
<1>1. planned \in BOOLEAN /\ fault \in BOOLEAN
  BY Zenon DEF OwnershipInit
<1>2. mode = "off" /\ command = 0 /\ issued = 0 /\ receipt = NoReceipt /\ attempted = 0
  BY DEF OwnershipInit
<1> QED
  BY <1>1, <1>2 DEF OwnershipInv, OwnershipTypeOK, ReceiptHonest, NoReceipt, Kinds

LEMMA AcceptInv ==
  ASSUME NEW next \in {"free", "parking", "stopping"}, OwnershipInv, Accept(next)
  PROVE  OwnershipInv'
<1>1. planned' \in BOOLEAN
  BY Zenon DEF Accept
<1>2. /\ mode' = next /\ command' = issued + 1 /\ issued' = issued + 1
      /\ UNCHANGED <<receipt, attempted, fault>>
  BY DEF Accept
<1> QED
  BY <1>1, <1>2 DEF OwnershipInv, OwnershipTypeOK, ReceiptHonest, Kinds

(* One step of the contract keeps its invariant.                           *)
LEMMA OwnershipInvNext ==
  ASSUME OwnershipInv, [OwnershipNext]_ownershipVars
  PROVE  OwnershipInv'
<1> USE DEF OwnershipInv, OwnershipTypeOK, ReceiptHonest, Kinds
<1>1. CASE Open
  BY <1>1 DEF Open
<1>2. CASE Shut
  <2>1. planned' \in BOOLEAN /\ fault' \in BOOLEAN
    BY <1>2, Zenon DEF Shut
  <2>2. /\ mode' = "off" /\ command' = 0 /\ issued' = issued
        /\ receipt' = NoReceipt /\ attempted' = 0
    BY <1>2 DEF Shut
  <2> QED
    BY <2>1, <2>2 DEF NoReceipt
<1>3. CASE DirectCommand
  BY <1>3, AcceptInv DEF DirectCommand
<1>4. CASE Release
  BY <1>4, AcceptInv DEF Release
<1>5. CASE Arm
  BY <1>5, AcceptInv DEF Arm
<1>6. CASE RequestStop
  BY <1>6, AcceptInv DEF RequestStop
<1>7. CASE AcceptPlan
  BY <1>7 DEF AcceptPlan
<1>8. CASE WriteOk
  <2>1. PICK kind \in Kinds :
          /\ mode = "stopping" \/ (mode = "parking" /\ ~planned) => kind = "stop"
          /\ receipt' = [cmd |-> command, kind |-> kind]
    BY <1>8, Zenon DEF WriteOk
  <2>2. fault' \in BOOLEAN
    BY <1>8, Zenon DEF WriteOk
  <2>3. attempted' = command /\ UNCHANGED <<mode, command, issued, planned>>
    BY <1>8, Zenon DEF WriteOk
  <2> QED
    BY <2>1, <2>2, <2>3
<1>9. CASE WriteErr
  BY <1>9 DEF WriteErr
<1>10. CASE UNCHANGED ownershipVars
  BY <1>10 DEF ownershipVars
<1> QED
  BY <1>1, <1>2, <1>3, <1>4, <1>5, <1>6, <1>7, <1>8, <1>9, <1>10 DEF OwnershipNext

(* The contract promises its callers honest receipts.                      *)
THEOREM ReceiptsAreHonest == OwnershipSpec => []ReceiptHonest
<1>1. OwnershipInv => ReceiptHonest
  BY DEF OwnershipInv
<1> QED
  BY <1>1, OwnershipInvInit, OwnershipInvNext, PTL DEF OwnershipSpec

-----------------------------------------------------------------------------
(* A parking session uses the gamepad only through the contract.           *)
LEMMA SessionUsesContract ==
  ASSUME [SessionNext]_sessionVars
  PROVE  [OwnershipNext]_ownershipVars
<1>1. ASSUME Start PROVE [OwnershipNext]_ownershipVars
  BY <1>1, Zenon DEF Start, StartAccepted, StartPipeFails, StartArm, StartArmed,
     StartSpawnFails, StartActivate, StartHold, StartHeld, HoldRequested,
     HoldRefused, OwnershipNext
<1>2. ASSUME Stop PROVE [OwnershipNext]_ownershipVars
  BY <1>2, Zenon DEF Stop, StopBegin, StopLocked, StopHold, StopHeld, StopCancel,
     StopJoined, StopTimesOut, HoldRequested, HoldRefused, OwnershipNext
<1>3. ASSUME NEW s \in Sessions, Session(s) PROVE [OwnershipNext]_ownershipVars
  BY <1>3, Zenon DEF Session, WorkerPredicts, WorkerSubmits, SessionFails,
     GoroutineEnds, Terminate, TerminateHold, TerminateHeld, TerminateCancel,
     Finish, HoldRequested, HoldRefused, OwnershipNext
<1>4. ASSUME GamepadOpens \/ BackendShutsDown \/ Tick \/ OtherClient
      PROVE  [OwnershipNext]_ownershipVars
  BY <1>4, Zenon DEF GamepadOpens, BackendShutsDown, Tick, OtherClient, OwnershipNext
<1>5. ASSUME UNCHANGED sessionVars PROVE [OwnershipNext]_ownershipVars
  BY <1>5 DEF sessionVars
<1> QED
  BY <1>1, <1>2, <1>3, <1>4, <1>5 DEF SessionNext

(* Nor do the inferencer's own commands and those of other clients ever    *)
(* make a receipt lie.                                                     *)
THEOREM SessionReceiptsAreHonest == SessionSpec => []ReceiptHonest
<1>1. SessionInit => OwnershipInv
  BY OwnershipInvInit DEF SessionInit
<1>2. OwnershipInv /\ [SessionNext]_sessionVars => OwnershipInv'
  BY SessionUsesContract, OwnershipInvNext
<1>3. OwnershipInv => ReceiptHonest
  BY DEF OwnershipInv
<1> QED
  BY <1>1, <1>2, <1>3, PTL DEF SessionSpec

-----------------------------------------------------------------------------
(* The types of the inferencer, whose commands get their IDs from the      *)
(* contract.                                                               *)

(* A goroutine goes on to one of its steps.                                *)
LEMMA GotoTyped ==
  ASSUME InferencerTypeOK, NEW s \in Sessions, NEW g \in Goroutines, NEW step \in Steps,
         Goto(s, g, step)
  PROVE  pc' \in [Sessions -> [Goroutines -> Steps]]
<1>1. [pc[s] EXCEPT ![g] = step] \in [Goroutines -> Steps]
  BY DEF InferencerTypeOK
<1>2. pc' = [pc EXCEPT ![s] = [pc[s] EXCEPT ![g] = step]]
  BY DEF Goto
<1> QED BY <1>1, <1>2 DEF InferencerTypeOK

LEMMA StartTyped ==
  ASSUME InferencerTypeOK, command' \in Nat, Start
  PROVE  InferencerTypeOK'
<1> USE SessionAssumption DEF InferencerTypeOK, ApiSteps, States
<1>1. CASE StartAccepted
  BY <1>1 DEF StartAccepted
<1>2. CASE StartPipeFails \/ StartSpawnFails \/ StartHeld \/ StartArmed
  BY <1>2 DEF StartPipeFails, StartSpawnFails, StartHeld, StartArmed
<1>3. CASE StartArm
  BY <1>3 DEF StartArm
<1>4. CASE StartActivate
  <2>1. NoFlags \in [tripped: BOOLEAN, completed: BOOLEAN, manual: BOOLEAN,
                     holdFailed: BOOLEAN, holdConfirmed: BOOLEAN]
    BY DEF NoFlags
  <2>2. [g \in Goroutines |-> "run"] \in [Goroutines -> Steps]
    BY DEF Steps
  <2>3. pc' \in [Sessions -> [Goroutines -> Steps]]
    BY <1>4, <2>2 DEF StartActivate
  <2>4. active' \in {0} \cup Sessions
    BY <1>4 DEF StartActivate, Sessions
  <2> QED BY <1>4, <2>1, <2>3, <2>4 DEF StartActivate
<1>5. CASE StartHold
  BY <1>5 DEF StartHold, HoldRequested, HoldRefused
<1> QED BY <1>1, <1>2, <1>3, <1>4, <1>5 DEF Start

LEMMA StopTyped ==
  ASSUME InferencerTypeOK, command' \in Nat, Stop
  PROVE  InferencerTypeOK'
<1> USE DEF InferencerTypeOK, ApiSteps, States
<1>1. CASE StopBegin \/ StopTimesOut
  BY <1>1 DEF StopBegin, StopTimesOut
<1>2. CASE StopLocked
  BY <1>2 DEF StopLocked
<1>3. CASE StopHold
  BY <1>3 DEF StopHold, HoldRequested, HoldRefused, HoldFailure
<1>4. CASE StopHeld
  BY <1>4 DEF StopHeld, HoldFailure
<1>5. CASE StopCancel
  BY <1>5, ZenonT(40) DEF StopCancel
<1>6. CASE StopJoined
  BY <1>6, ZenonT(40) DEF StopJoined
<1> QED BY <1>1, <1>2, <1>3, <1>4, <1>5, <1>6 DEF Stop

LEMMA GoroutineTyped ==
  ASSUME InferencerTypeOK, command' \in Nat, NEW s \in Sessions, Session(s)
  PROVE  InferencerTypeOK'
<1> USE DEF InferencerTypeOK, States
<1>1. {"worker", "waiter"} \subseteq Goroutines
  BY SessionAssumption
<1>2. {"run", "submit", "fail", "complete", "request", "confirm", "cancel", "finish", "end"} \subseteq Steps
  BY DEF Steps
<1>3. \A g \in Goroutines : AfterTerminate(g) \in Steps
  BY <1>2 DEF AfterTerminate
<1>4. CASE WorkerPredicts(s)
  BY <1>1, <1>2, <1>4, GotoTyped DEF WorkerPredicts
<1>5. CASE WorkerSubmits(s)
  <2>1. PICK step \in Steps : Goto(s, "worker", step)
    BY <1>2, <1>5 DEF WorkerSubmits
  <2>2. pc' \in [Sessions -> [Goroutines -> Steps]]
    BY <1>1, <2>1, GotoTyped
  <2>3. planBy' \in {0} \cup Sessions
    BY <1>5 DEF WorkerSubmits
  <2> QED BY <1>5, <2>2, <2>3 DEF WorkerSubmits
<1>6. ASSUME NEW g \in Goroutines, SessionFails(s, g) \/ GoroutineEnds(s, g)
      PROVE  InferencerTypeOK'
  BY <1>2, <1>6, GotoTyped DEF SessionFails, GoroutineEnds
<1>7. ASSUME NEW g \in Goroutines, Terminate(s, g)
      PROVE  InferencerTypeOK'
  <2>1. PICK step \in Steps : Goto(s, g, step)
    BY <1>2, <1>3, <1>7 DEF Terminate
  <2>2. pc' \in [Sessions -> [Goroutines -> Steps]]
    BY <2>1, GotoTyped
  <2>3. At(s, g, "complete") \in BOOLEAN
    BY DEF At
  <2>4. Tripped(flags, At(s, g, "complete")) \in
          [tripped: BOOLEAN, completed: BOOLEAN, manual: BOOLEAN,
           holdFailed: BOOLEAN, holdConfirmed: BOOLEAN]
    BY <2>3 DEF Tripped
  <2> QED BY <1>7, <2>2, <2>4 DEF Terminate
<1>8. ASSUME NEW g \in Goroutines, TerminateHold(s, g) \/ TerminateHeld(s, g)
      PROVE  InferencerTypeOK'
  <2>1. PICK step \in Steps : Goto(s, g, step)
    BY <1>2, <1>8 DEF TerminateHold, TerminateHeld
  <2>2. pc' \in [Sessions -> [Goroutines -> Steps]]
    BY <2>1, GotoTyped
  <2> QED BY <1>8, <2>2 DEF TerminateHold, TerminateHeld, HoldRequested, HoldRefused, HoldFailure
<1>9. ASSUME NEW g \in Goroutines, TerminateCancel(s, g)
      PROVE  InferencerTypeOK'
  <2>1. pc' \in [Sessions -> [Goroutines -> Steps]]
    BY <1>3, <1>9, GotoTyped DEF TerminateCancel
  <2> QED BY <1>9, <2>1, ZenonT(40) DEF TerminateCancel
<1>10. CASE Finish(s)
  <2>1. pc' \in [Sessions -> [Goroutines -> Steps]]
    BY <1>1, <1>2, <1>10, GotoTyped DEF Finish
  <2>2. Outcomes \subseteq States
    BY DEF Outcomes
  <2>3. active' \in {0} \cup Sessions /\ status' \in States
    BY <1>10, <2>2 DEF Finish
  <2>4. flags' \in [tripped: BOOLEAN, completed: BOOLEAN, manual: BOOLEAN,
                     holdFailed: BOOLEAN, holdConfirmed: BOOLEAN]
    <3>1. flags' = flags \/ flags' = NoFlags
      BY <1>10 DEF Finish
    <3>2. NoFlags \in [tripped: BOOLEAN, completed: BOOLEAN, manual: BOOLEAN,
                       holdFailed: BOOLEAN, holdConfirmed: BOOLEAN]
      BY DEF NoFlags
    <3> QED BY <3>1, <3>2
  <2>5. /\ done' = [done EXCEPT ![s] = TRUE]
        /\ UNCHANGED <<ownershipVars, starts, api, stopping, cancelled, ours, planBy, foreign>>
    BY <1>10 DEF Finish
  <2> QED BY <2>1, <2>3, <2>4, <2>5
<1> QED BY <1>4, <1>5, <1>6, <1>7, <1>8, <1>9, <1>10 DEF Session

(* Call, goroutines, flags and status of the inferencer always have their  *)
(* types, whatever other clients do with the gamepad.                      *)
THEOREM SessionTypeCorrect == SessionSpec => []SessionTypeOK
<1> DEFINE Inv == OwnershipInv /\ InferencerTypeOK
<1>1. SessionInit => Inv
  <2> SUFFICES ASSUME SessionInit PROVE Inv
    OBVIOUS
  <2>1. OwnershipInv
    BY OwnershipInvInit DEF SessionInit
  <2>2. pc \in [Sessions -> [Goroutines -> Steps]]
    BY DEF SessionInit, Steps
  <2> QED BY <2>1, <2>2, SessionAssumption DEF SessionInit, InferencerTypeOK, States, ApiSteps, NoFlags
<1>2. Inv /\ [SessionNext]_sessionVars => Inv'
  <2> SUFFICES ASSUME Inv, [SessionNext]_sessionVars PROVE Inv'
    OBVIOUS
  <2>1. OwnershipInv'
    BY SessionUsesContract, OwnershipInvNext
  <2>2. command' \in Nat
    BY <2>1 DEF OwnershipInv, OwnershipTypeOK
  <2>3. CASE GamepadOpens \/ BackendShutsDown \/ Tick \/ UNCHANGED sessionVars
    <3>1. UNCHANGED inferencerVars
      BY <2>3 DEF GamepadOpens, BackendShutsDown, Tick, sessionVars
    <3> QED BY <2>1, <3>1 DEF inferencerVars, InferencerTypeOK
  <2>4. CASE OtherClient
    BY <2>1, <2>4, SessionAssumption DEF OtherClient, InferencerTypeOK
  <2> QED BY <2>1, <2>2, <2>3, <2>4, StartTyped, StopTyped, GoroutineTyped DEF SessionNext
<1>3. Inv => SessionTypeOK
  BY DEF OwnershipInv, InferencerTypeOK, SessionTypeOK
<1> QED BY <1>1, <1>2, <1>3, PTL DEF SessionSpec
-----------------------------------------------------------------------------
(* The safety of ParkingSession, for any number of sessions, goroutines    *)
(* and commands of other clients.                                          *)

(* Who is inside the section that actuationMu guards, and which part of    *)
(* Start or Stop is under way.                                             *)
InSection(s, g) == pc[s][g] \in {"request", "confirm"}

Starting == api \in {"arm", "armConfirm", "spawn", "startHold", "startHoldConfirm"}

StopHolds == api \in {"stopRequest", "stopConfirm"}

Quiet == ~StopHolds /\ \A s \in Sessions, g \in Goroutines : ~InSection(s, g)

(* A session runs on commands that were accepted, and plans belong to      *)
(* parking ownership.                                                      *)
IdsFit ==
  /\ ours <= issued
  /\ planned => mode = "parking"
  /\ \/ active # 0
     \/ api \in {"armConfirm", "spawn"}
     \/ starts > 0 /\ status \in {"succeeded", "idle"}
     => ours > 0

(* Start works while no session is active.                                 *)
StartFits == Starting => active = 0 /\ starts > 0 /\ status = "starting"

(* Whoever is inside the section acts for the session that is still        *)
(* active, tripped it, and is alone.                                       *)
StopFits ==
  /\ api = "stopLock" => stopping # 0
  /\ StopHolds => /\ active = stopping /\ active # 0
                  /\ flags.tripped /\ flags.manual /\ ~flags.holdFailed

SectionFits ==
  \A s \in Sessions, g \in Goroutines :
    InSection(s, g) =>
      /\ active = s /\ flags.tripped /\ ~flags.holdFailed /\ ~StopHolds
      /\ \A h \in Goroutines : InSection(s, h) => h = g

(* The waiter takes a session away only when it was tripped.               *)
WaiterFits ==
  \A s \in Sessions :
    pc[s]["waiter"] \in {"request", "confirm", "cancel", "finish"} /\ active = s
      => flags.tripped

(* What the terminal flags say of each other and of the status.            *)
FlagsFit ==
  /\ flags.completed \/ flags.manual \/ flags.holdFailed => flags.tripped
  /\ ~(flags.completed /\ flags.manual)
  /\ flags.holdConfirmed => flags.completed /\ ~flags.holdFailed
  /\ Quiet /\ flags.completed => flags.holdFailed # flags.holdConfirmed
  /\ flags.holdFailed /\ ~Starting => status = "error"
  /\ status = "running" => active # 0 /\ ~flags.tripped
  /\ status = "stopping" => flags.tripped

(* A hold that was not reported as failed is in force.                     *)
HoldFits ==
  active # 0 /\ flags.tripped /\ ~flags.holdFailed /\ Quiet /\ command = ours
    => mode = "stopping" /\ receipt = [cmd |-> ours, kind |-> "stop"]

SessionInv ==
  /\ SessionTypeOK
  /\ ReceiptHonest
  /\ IdsFit /\ StartFits /\ StopFits /\ SectionFits /\ WaiterFits /\ FlagsFit /\ HoldFits
  /\ ArmedOnlyForSession
  /\ PlanOfActiveSession
  /\ HeldAfterSession

-----------------------------------------------------------------------------
(* Where the goroutines stand after one of them took a step.               *)
LEMMA GotoMoves ==
  ASSUME SessionTypeOK, NEW s \in Sessions, NEW g \in Goroutines, NEW step,
         Goto(s, g, step)
  PROVE  \A t \in Sessions, h \in Goroutines :
           pc'[t][h] = IF t = s /\ h = g THEN step ELSE pc[t][h]
BY DEF SessionTypeOK, InferencerTypeOK, Goto

(* A failed hold is recorded, and nothing else of the flags changes.       *)
LEMMA FailureRecorded ==
  ASSUME SessionTypeOK, flags' = HoldFailure(flags)
  PROVE  /\ flags'.tripped = flags.tripped /\ flags'.completed = flags.completed
         /\ flags'.manual = flags.manual
         /\ flags'.holdFailed /\ ~flags'.holdConfirmed
BY DEF SessionTypeOK, InferencerTypeOK, HoldFailure

(* Every step of a start keeps the invariant.                               *)
LEMMA StartSafe ==
  ASSUME SessionInv, SessionTypeOK', ReceiptHonest', Start
  PROVE  SessionInv'
<1> USE DEF SessionInv, IdsFit, StartFits, StopFits, SectionFits, WaiterFits, FlagsFit,
            HoldFits, ArmedOnlyForSession, PlanOfActiveSession, HeldAfterSession,
            Quiet, Starting, StopHolds, InSection, ownershipVars
<1>1. CASE StartAccepted
  BY <1>1 DEF StartAccepted, SessionTypeOK, InferencerTypeOK
<1>2. CASE StartPipeFails
  BY <1>2 DEF StartPipeFails
<1>3. CASE StartArm
  BY <1>3 DEF StartArm, ActuationFree, Arm, Accept, SessionTypeOK, OwnershipTypeOK,
     InferencerTypeOK
<1>4. CASE StartArmed
  BY <1>4 DEF StartArmed
<1>5. CASE StartSpawnFails
  BY <1>5 DEF StartSpawnFails
<1>6. CASE StartActivate
  BY <1>6, SessionAssumption
     DEF StartActivate, SessionTypeOK, InferencerTypeOK, NoFlags, Sessions
<1>7. CASE StartHold
  BY <1>7 DEF StartHold, ActuationFree, HoldRequested, HoldRefused, RequestStop, Accept,
     SessionTypeOK, OwnershipTypeOK, InferencerTypeOK
<1>8. CASE StartHeld
  BY <1>8 DEF StartHeld
<1> QED BY <1>1, <1>2, <1>3, <1>4, <1>5, <1>6, <1>7, <1>8 DEF Start

(* So does every step of a stop.                                            *)
LEMMA StopSafe ==
  ASSUME SessionInv, SessionTypeOK', ReceiptHonest', Stop
  PROVE  SessionInv'
<1> USE DEF SessionInv, IdsFit, StartFits, StopFits, SectionFits, WaiterFits, FlagsFit,
            HoldFits, ArmedOnlyForSession, PlanOfActiveSession, HeldAfterSession,
            Quiet, Starting, StopHolds, InSection, ownershipVars
<1>1. CASE StopBegin
  BY <1>1 DEF StopBegin
<1>2. CASE StopLocked
  <2>1. CASE api' = "idle" /\ UNCHANGED <<flags, status>>
    BY <1>2, <2>1 DEF StopLocked
  <2>2. CASE api' = "stopCancel" /\ UNCHANGED <<flags, status>>
    BY <1>2, <2>2 DEF StopLocked
  <2>3. CASE /\ active = stopping /\ ~flags.tripped
             /\ flags' = [flags EXCEPT !.tripped = TRUE, !.manual = TRUE]
             /\ status' = "stopping"
             /\ api' = "stopRequest"
    <3>1. /\ flags'.tripped /\ flags'.manual
          /\ flags'.completed = flags.completed
          /\ flags'.holdFailed = flags.holdFailed
          /\ flags'.holdConfirmed = flags.holdConfirmed
      BY <2>3 DEF SessionTypeOK, InferencerTypeOK
    <3>2. active # 0
      BY <1>2, <2>3 DEF StopLocked
    <3> QED BY <1>2, <2>3, <3>1, <3>2 DEF StopLocked, ActuationFree
  <2> QED BY <1>2, <2>1, <2>2, <2>3 DEF StopLocked
<1>3. CASE StopHold
  <2>1. CASE HoldRequested /\ api' = "stopConfirm" /\ UNCHANGED <<flags, status>>
    BY <1>3, <2>1 DEF StopHold, HoldRequested, RequestStop, Accept,
       SessionTypeOK, OwnershipTypeOK, InferencerTypeOK
  <2>2. CASE HoldRefused /\ api' = "stopCancel" /\ flags' = HoldFailure(flags)
             /\ status' = "error"
    BY <1>3, <2>2, FailureRecorded DEF StopHold, HoldRefused
  <2> QED BY <1>3, <2>1, <2>2 DEF StopHold
<1>4. CASE StopHeld
  <2>1. CASE Confirmed(ours, "stopping") /\ UNCHANGED <<flags, status>>
    BY <1>4, <2>1 DEF StopHeld, Confirmed, SessionTypeOK, OwnershipTypeOK
  <2>2. CASE flags' = HoldFailure(flags) /\ status' = "error"
    BY <1>4, <2>2, FailureRecorded DEF StopHeld
  <2> QED BY <1>4, <2>1, <2>2 DEF StopHeld
<1>5. CASE StopCancel
  BY <1>5 DEF StopCancel
<1>6. CASE StopJoined
  BY <1>6 DEF StopJoined
<1>7. CASE StopTimesOut
  BY <1>7 DEF StopTimesOut
<1> QED BY <1>1, <1>2, <1>3, <1>4, <1>5, <1>6, <1>7 DEF Stop


(* So do the other clients and the actuator loop, which see the contract only. *)
LEMMA OthersSafe ==
  ASSUME SessionInv, SessionTypeOK', ReceiptHonest',
         GamepadOpens \/ BackendShutsDown \/ Tick \/ OtherClient \/ UNCHANGED sessionVars
  PROVE  SessionInv'
<1> USE DEF SessionInv, IdsFit, StartFits, StopFits, SectionFits, WaiterFits, FlagsFit,
            HoldFits, ArmedOnlyForSession, PlanOfActiveSession, HeldAfterSession,
            Quiet, Starting, StopHolds, InSection, ownershipVars, inferencerVars
<1>1. CASE GamepadOpens
  BY <1>1 DEF GamepadOpens, Open, SessionTypeOK, OwnershipTypeOK, InferencerTypeOK
<1>2. CASE BackendShutsDown
  BY <1>2 DEF BackendShutsDown, Shut, SessionTypeOK, OwnershipTypeOK, InferencerTypeOK
<1>3. CASE Tick
  BY <1>3 DEF Tick, WriteOk, WriteErr, SessionTypeOK, OwnershipTypeOK, InferencerTypeOK
<1>4. CASE OtherClient
  BY <1>4 DEF OtherClient, Release, DirectCommand, Arm, Accept, SessionTypeOK, OwnershipTypeOK,
     InferencerTypeOK
<1>5. CASE UNCHANGED sessionVars
  BY <1>5 DEF sessionVars
<1> QED BY <1>1, <1>2, <1>3, <1>4, <1>5

(* So does every step of a goroutine, that of a session which is over too.  *)
LEMMA GoroutineSafe ==
  ASSUME SessionInv, SessionTypeOK', ReceiptHonest', NEW s \in Sessions, Session(s)
  PROVE  SessionInv'
<1> USE DEF SessionInv, IdsFit, StartFits, StopFits, SectionFits, WaiterFits, FlagsFit,
            HoldFits, ArmedOnlyForSession, PlanOfActiveSession, HeldAfterSession,
            Quiet, Starting, StopHolds, InSection, ownershipVars, At
<1>0. "worker" \in Goroutines /\ "waiter" \in Goroutines /\ s # 0
      /\ active \in {0} \cup Sessions
  BY SessionAssumption DEF Sessions, SessionTypeOK, InferencerTypeOK
(* A goroutine moves on outside the section, and nothing else happens.     *)
<1>1. ASSUME NEW g \in Goroutines, NEW step, Goto(s, g, step),
             ~InSection(s, g), step \notin {"request", "confirm"},
             g = "waiter" /\ active = s /\ step \in {"cancel", "finish"} => flags.tripped,
             UNCHANGED <<ownershipVars, active, starts, status, flags, api, stopping, ours,
                         planBy>>
      PROVE  SessionInv'
  BY <1>0, <1>1, GotoMoves
<1>2. CASE WorkerPredicts(s)
  BY <1>0, <1>1, <1>2 DEF WorkerPredicts
<1>3. CASE WorkerSubmits(s)
  <2>1. CASE /\ active = s /\ ~flags.tripped /\ AcceptPlan /\ planBy' = s
             /\ Goto(s, "worker", "run")
    BY <1>0, <1>3, <2>1, GotoMoves DEF WorkerSubmits, AcceptPlan
  <2>2. CASE /\ \E step \in {"run", "fail", "complete"} : Goto(s, "worker", step)
             /\ UNCHANGED <<ownershipVars, planBy>>
    BY <1>0, <1>1, <1>3, <2>2 DEF WorkerSubmits
  <2> QED BY <1>3, <2>1, <2>2 DEF WorkerSubmits
<1>4. ASSUME NEW g \in Goroutines, SessionFails(s, g) \/ GoroutineEnds(s, g)
      PROVE  SessionInv'
  BY <1>1, <1>4 DEF SessionFails, GoroutineEnds
<1>5. ASSUME NEW g \in Goroutines, Terminate(s, g)
      PROVE  SessionInv'
  <2>1. CASE /\ active # s \/ flags.tripped \/ flags.completed
             /\ Goto(s, g, AfterTerminate(g))
             /\ UNCHANGED <<flags, status>>
    <3>1. AfterTerminate(g) \notin {"request", "confirm"}
      BY DEF AfterTerminate
    <3> QED BY <1>1, <1>5, <2>1, <3>1 DEF Terminate
  <2>2. CASE /\ active = s /\ ~flags.tripped /\ ~flags.completed
             /\ flags' = Tripped(flags, At(s, g, "complete"))
             /\ status' = IF At(s, g, "complete") THEN "stopping" ELSE "error"
             /\ Goto(s, g, "request")
    <3>1. /\ flags'.tripped /\ ~flags'.manual /\ ~flags'.holdConfirmed
          /\ flags'.completed = At(s, g, "complete")
          /\ flags'.holdFailed = flags.holdFailed
      BY <2>2 DEF SessionTypeOK, InferencerTypeOK, Tripped
    <3>2. /\ ActuationFree
          /\ UNCHANGED <<ownershipVars, active, starts, api, stopping, ours, planBy>>
      BY <1>5 DEF Terminate
    <3> QED BY <1>0, <2>2, <3>1, <3>2, GotoMoves DEF ActuationFree
  <2> QED BY <1>5, <2>1, <2>2 DEF Terminate
<1>6. ASSUME NEW g \in Goroutines, TerminateHold(s, g)
      PROVE  SessionInv'
  <2>1. CASE HoldRequested /\ Goto(s, g, "confirm") /\ UNCHANGED <<flags, status>>
    BY <1>0, <1>6, <2>1, GotoMoves DEF TerminateHold, HoldRequested, RequestStop, Accept,
       SessionTypeOK, OwnershipTypeOK
  <2>2. CASE /\ HoldRefused
             /\ Goto(s, g, "cancel")
             /\ flags' = HoldFailure(flags)
             /\ status' = "error"
    BY <1>0, <1>6, <2>2, GotoMoves, FailureRecorded DEF TerminateHold, HoldRefused
  <2> QED BY <1>6, <2>1, <2>2 DEF TerminateHold
<1>7. ASSUME NEW g \in Goroutines, TerminateHeld(s, g)
      PROVE  SessionInv'
  <2>1. CASE /\ Confirmed(ours, "stopping")
             /\ flags.completed /\ ~flags.holdFailed
             /\ flags' = [flags EXCEPT !.holdConfirmed = TRUE]
             /\ status' = "succeeded"
    <3>1. /\ flags'.holdConfirmed
          /\ flags'.tripped = flags.tripped /\ flags'.completed = flags.completed
          /\ flags'.manual = flags.manual /\ flags'.holdFailed = flags.holdFailed
      BY <2>1 DEF SessionTypeOK, InferencerTypeOK
    <3>2. (IdsFit /\ StartFits /\ StopFits /\ SectionFits /\ WaiterFits)'
      BY <1>0, <1>7, <2>1, <3>1, GotoMoves DEF TerminateHeld
    <3>3. (FlagsFit /\ HoldFits)'
      BY <1>0, <1>7, <2>1, <3>1, GotoMoves
         DEF TerminateHeld, Confirmed, SessionTypeOK, OwnershipTypeOK
    <3>4. (ArmedOnlyForSession /\ PlanOfActiveSession /\ HeldAfterSession)'
      BY <1>0, <1>7, <2>1, <3>1, GotoMoves DEF TerminateHeld, Confirmed
    <3> QED BY <3>2, <3>3, <3>4
  <2>2. CASE /\ Confirmed(ours, "stopping") /\ ~(flags.completed /\ ~flags.holdFailed)
             /\ UNCHANGED <<flags, status>>
    BY <1>0, <1>7, <2>2, GotoMoves
       DEF TerminateHeld, Confirmed, SessionTypeOK, OwnershipTypeOK
  <2>3. CASE flags' = HoldFailure(flags) /\ status' = "error"
    BY <1>0, <1>7, <2>3, GotoMoves, FailureRecorded DEF TerminateHeld
  <2> QED BY <1>7, <2>1, <2>2, <2>3 DEF TerminateHeld
<1>8. ASSUME NEW g \in Goroutines, TerminateCancel(s, g)
      PROVE  SessionInv'
  <2>1. AfterTerminate(g) \notin {"request", "confirm"}
    BY DEF AfterTerminate
  <2> QED BY <1>1, <1>8, <2>1 DEF TerminateCancel
<1>9. CASE Finish(s)
  <2>1. CASE active # s
    BY <1>0, <1>1, <1>9, <2>1 DEF Finish
  <2>2. CASE active = s
    <3>1. /\ active' = 0 /\ status' \in Outcomes /\ ActuationFree
          /\ flags' = flags \/ (~flags.holdFailed /\ flags' = NoFlags)
          /\ UNCHANGED <<ownershipVars, starts, api, stopping, ours, planBy>>
      BY <1>9, <2>2 DEF Finish
    <3>2. flags.tripped
      BY <1>9, <2>2 DEF Finish
    <3>3. \A t \in Sessions, h \in Goroutines :
            pc'[t][h] = IF t = s /\ h = "waiter" THEN "end" ELSE pc[t][h]
      BY <1>0, <1>9, GotoMoves DEF Finish
    <3>4. status' \in {"error", "succeeded", "idle"}
          /\ (flags.holdFailed => status' = "error")
      BY <3>1, <3>2 DEF Outcomes
    <3>5. \A t \in Sessions : active' # t
      BY <3>1 DEF Sessions
    <3>6. (IdsFit /\ StartFits /\ StopFits /\ SectionFits /\ WaiterFits)'
      BY <1>0, <2>2, <3>1, <3>3, <3>4, <3>5 DEF ActuationFree
    <3>7. (FlagsFit /\ HoldFits)'
      BY <2>2, <3>1, <3>2, <3>3, <3>4 DEF ActuationFree, NoFlags
    <3>8. (ArmedOnlyForSession /\ PlanOfActiveSession /\ HeldAfterSession)'
      BY <1>0, <2>2, <3>1, <3>2, <3>4 DEF ActuationFree
    <3> QED BY <3>6, <3>7, <3>8
  <2> QED BY <2>1, <2>2
<1> QED BY <1>2, <1>3, <1>4, <1>5, <1>6, <1>7, <1>8, <1>9 DEF Session

-----------------------------------------------------------------------------
(* The inferencer starts with no session, no goroutine and nothing armed.   *)
LEMMA SessionInvInit == SessionInit => SessionInv
<1> SUFFICES ASSUME SessionInit PROVE SessionInv
  OBVIOUS
<1>1. SessionTypeOK
  <2>1. OwnershipInv
    BY OwnershipInvInit DEF SessionInit
  <2>2. pc \in [Sessions -> [Goroutines -> Steps]]
    BY DEF SessionInit, Steps
  <2> QED BY <2>1, <2>2, SessionAssumption
          DEF SessionInit, OwnershipInv, SessionTypeOK, InferencerTypeOK, States, ApiSteps, NoFlags
<1>2. ReceiptHonest
  BY OwnershipInvInit DEF SessionInit, OwnershipInv
<1>3. /\ active = 0 /\ starts = 0 /\ status = "idle" /\ api = "idle" /\ ours = 0
      /\ mode = "off" /\ ~planned /\ issued = 0
      /\ ~flags.tripped /\ ~flags.completed /\ ~flags.manual
      /\ ~flags.holdFailed /\ ~flags.holdConfirmed
  BY DEF SessionInit, OwnershipInit, NoFlags
<1>4. \A s \in Sessions, g \in Goroutines : pc[s][g] = "off"
  BY DEF SessionInit
<1>5. "waiter" \in Goroutines
  BY SessionAssumption
<1> QED
  BY <1>1, <1>2, <1>3, <1>4, <1>5
     DEF SessionInv, IdsFit, StartFits, StopFits, SectionFits, WaiterFits, FlagsFit, HoldFits,
         ArmedOnlyForSession, PlanOfActiveSession, HeldAfterSession, Quiet, Starting, StopHolds,
         InSection

(* The invariant holds in every reachable state.                            *)
LEMMA SessionInvCorrect == SessionSpec => []SessionInv
<1>1. SessionInv /\ ReceiptHonest' /\ SessionTypeOK' /\ [SessionNext]_sessionVars => SessionInv'
  <2> SUFFICES ASSUME SessionInv, ReceiptHonest', SessionTypeOK', [SessionNext]_sessionVars
               PROVE  SessionInv'
    OBVIOUS
  <2> QED BY StartSafe, StopSafe, GoroutineSafe, OthersSafe DEF SessionNext
<1> QED BY <1>1, SessionInvInit, SessionReceiptsAreHonest, SessionTypeCorrect, PTL
        DEF SessionSpec

(* The gamepad is armed only while Start is under way or for a session     *)
(* that was not tripped: no failure and no race leaves it armed (Start,    *)
(* Stop, terminateParkingInference, finishInferenceSession).               *)
THEOREM GamepadArmedOnlyForSession == SessionSpec => []ArmedOnlyForSession
<1>1. SessionInv => ArmedOnlyForSession
  BY DEF SessionInv
<1> QED BY <1>1, SessionInvCorrect, PTL

(* No late prediction leaves a plan behind for a session that is over      *)
(* (submitActiveParkingPrediction looks again under actuationMu).          *)
THEOREM PlansAreOfActiveSession == SessionSpec => []PlanOfActiveSession
<1>1. SessionInv => PlanOfActiveSession
  BY DEF SessionInv
<1> QED BY <1>1, SessionInvCorrect, PTL

(* A session that is reported as ended well left the car held, with the    *)
(* receipt of the stop seen (confirmAppliedParkingStop, Finish).           *)
THEOREM CarHeldAfterSession == SessionSpec => []HeldAfterSession
<1>1. SessionInv => HeldAfterSession
  BY DEF SessionInv
<1> QED BY <1>1, SessionInvCorrect, PTL

(* The terminal flags and the status never contradict each other outside   *)
(* the section that sets them.                                             *)
THEOREM FlagsAreCoherent == SessionSpec => []FlagsCoherent
<1>1. SessionInv => FlagsCoherent
  BY DEF SessionInv, FlagsFit, FlagsCoherent, ActuationFree, Quiet, Starting, StopHolds, InSection
<1> QED BY <1>1, SessionInvCorrect, PTL

(* A goroutine of a session that is over changes nothing of the next one:  *)
(* each looks at i.active under actuationMu before it acts.                *)
THEOREM StaleGoroutinesDoNoHarm == SessionSpec => StaleGoroutinesAreHarmless
<1>1. SessionInv /\ [SessionNext]_sessionVars
        => [\A s \in Sessions : s # active /\ pc'[s] # pc[s] /\ active' # s
              => UNCHANGED <<ownershipVars, status, flags, active>>]_sessionVars
  <2> SUFFICES ASSUME SessionInv, SessionNext,
                      NEW t \in Sessions, t # active, pc'[t] # pc[t], active' # t
               PROVE  UNCHANGED <<ownershipVars, status, flags, active>>
    OBVIOUS
  <2>1. ~Start
    <3>1. CASE StartActivate
      BY <3>1 DEF StartActivate, SessionInv, SessionTypeOK, InferencerTypeOK
    <3> QED BY <3>1 DEF Start, StartAccepted, StartPipeFails, StartArm, StartArmed,
               StartSpawnFails, StartHold, StartHeld
  <2>2. ~Stop
    BY DEF Stop, StopBegin, StopLocked, StopHold, StopHeld, StopCancel, StopJoined, StopTimesOut
  <2>3. ~(GamepadOpens \/ BackendShutsDown \/ Tick \/ OtherClient)
    BY DEF GamepadOpens, BackendShutsDown, Tick, OtherClient, inferencerVars
  <2>4. PICK s \in Sessions : Session(s)
    BY <2>1, <2>2, <2>3 DEF SessionNext
(* Only the goroutine of s moves.                                          *)
  <2>5. ASSUME NEW g \in Goroutines, NEW step, Goto(s, g, step)
        PROVE  s = t
    BY <2>5 DEF Goto, SessionInv, SessionTypeOK, InferencerTypeOK
  <2>6. "worker" \in Goroutines /\ "waiter" \in Goroutines
    BY SessionAssumption
  <2>7. CASE WorkerPredicts(s) \/ (\E g \in Goroutines : SessionFails(s, g) \/ GoroutineEnds(s, g)
                                     \/ TerminateCancel(s, g))
    BY <2>7 DEF WorkerPredicts, SessionFails, GoroutineEnds, TerminateCancel
  <2>8. CASE WorkerSubmits(s)
    <3>1. s = t
      BY <2>5, <2>6, <2>8 DEF WorkerSubmits
    <3> QED BY <2>8, <3>1 DEF WorkerSubmits
  <2>9. ASSUME NEW g \in Goroutines, Terminate(s, g)
        PROVE  UNCHANGED <<ownershipVars, status, flags, active>>
    <3>1. s = t
      BY <2>5, <2>9 DEF Terminate
    <3> QED BY <2>9, <3>1 DEF Terminate
  <2>10. ASSUME NEW g \in Goroutines, TerminateHold(s, g) \/ TerminateHeld(s, g)
         PROVE  FALSE
    <3>1. s = t
      BY <2>5, <2>10 DEF TerminateHold, TerminateHeld
    <3> QED BY <2>10, <3>1 DEF TerminateHold, TerminateHeld, At, SessionInv, SectionFits, InSection
  <2>11. CASE Finish(s)
    <3>1. s = t
      BY <2>5, <2>6, <2>11 DEF Finish
    <3> QED BY <2>11, <3>1 DEF Finish
  <2> QED BY <2>4, <2>7, <2>8, <2>9, <2>10, <2>11 DEF Session
<1> QED BY <1>1, SessionInvCorrect, PTL DEF SessionSpec, StaleGoroutinesAreHarmless
=============================================================================
