---------------------------- MODULE ParkingSession ----------------------------
(***************************************************************************)
(* The parking session of backend/internal/capture/inference.go: Start and *)
(* Stop, one at a time under lifecycleMu; the goroutines that each session *)
(* runs; and the terminal transition all of them race for under            *)
(* actuationMu.  The gamepad is the actuator service as its contract,      *)
(* ActuatorOwnership, describes it; other HTTP clients use it too.         *)
(*                                                                         *)
(* i.mu is held only for the short sections that read or write the status  *)
(* and the flags: such a section is part of the action it belongs to.      *)
(***************************************************************************)
EXTENDS ActuatorOwnership

CONSTANTS
  Goroutines,    \* those of AllGoroutines that an instance runs
  MaxSessions,   \* bound: calls of Start that get as far as arming
  MaxForeign     \* bound: commands of other clients of the actuator

(* runPredictionWorker, consumeInferenceFrames,                            *)
(* monitorParkingEvaluationDeadline and waitForInference.                  *)
AllGoroutines == {"worker", "frames", "deadline", "waiter"}

ASSUME SessionAssumption ==
  /\ Goroutines \subseteq AllGoroutines /\ {"worker", "waiter"} \subseteq Goroutines
  /\ MaxSessions \in Nat
  /\ MaxForeign \in Nat

Sessions == 1..MaxSessions

VARIABLES
  active,     \* i.active: the session, 0 for nil
  starts,     \* calls of Start that got as far as arming
  status,     \* i.status.State
  flags,      \* parkingSafetyTripped, Completed, ManualStop, HoldFailed, HoldConfirmed
  api,        \* where the call that holds lifecycleMu stands
  stopping,   \* the session that Stop read from i.active
  pc,         \* where each goroutine of each session stands
  cancelled,  \* the session's context is cancelled
  done,       \* session.done holds the result of the process
  ours,       \* ID of the last command this inferencer got accepted
  planBy,     \* history: the session that submitted the current plan
  foreign     \* commands of other clients so far

inferencerVars == <<active, starts, status, flags, api, stopping, pc,
                    cancelled, done, ours, planBy, foreign>>
sessionVars == <<ownershipVars, inferencerVars>>

NoFlags == [tripped |-> FALSE, completed |-> FALSE, manual |-> FALSE,
            holdFailed |-> FALSE, holdConfirmed |-> FALSE]

States == {"idle", "starting", "running", "stopping", "succeeded", "error"}

ApiSteps == {"idle", "arm", "armConfirm", "spawn", "startHold",
             "startHoldConfirm", "stopLock", "stopRequest", "stopConfirm",
             "stopCancel", "stopWait", "stopKilled"}

Steps == {"off", "run", "submit", "fail", "complete", "request", "confirm",
          "cancel", "finish", "end"}

InferencerTypeOK ==
  /\ active \in {0} \cup Sessions
  /\ starts \in 0..MaxSessions
  /\ status \in States
  /\ flags \in [tripped: BOOLEAN, completed: BOOLEAN, manual: BOOLEAN,
                holdFailed: BOOLEAN, holdConfirmed: BOOLEAN]
  /\ api \in ApiSteps
  /\ stopping \in {0} \cup Sessions
  /\ pc \in [Sessions -> [Goroutines -> Steps]]
  /\ cancelled \in [Sessions -> BOOLEAN]
  /\ done \in [Sessions -> BOOLEAN]
  /\ ours \in Nat
  /\ planBy \in {0} \cup Sessions
  /\ foreign \in 0..MaxForeign

SessionTypeOK == OwnershipTypeOK /\ InferencerTypeOK

SessionInit ==
  /\ OwnershipInit
  /\ active = 0
  /\ starts = 0
  /\ status = "idle"
  /\ flags = NoFlags
  /\ api = "idle"
  /\ stopping = 0
  /\ pc = [s \in Sessions |-> [g \in Goroutines |-> "off"]]
  /\ cancelled = [s \in Sessions |-> FALSE]
  /\ done = [s \in Sessions |-> FALSE]
  /\ ours = 0
  /\ planBy = 0
  /\ foreign = 0

-----------------------------------------------------------------------------
(* actuationMu is free: no call of Start or Stop and no goroutine is       *)
(* inside the section it guards.                                           *)
ActuationFree ==
  /\ api \notin {"armConfirm", "startHoldConfirm", "stopRequest", "stopConfirm"}
  /\ \A s \in Sessions, g \in Goroutines : pc[s][g] \notin {"request", "confirm"}

At(s, g, step) == pc[s][g] = step

Goto(s, g, step) == pc' = [pc EXCEPT ![s][g] = step]

(* confirmAppliedParkingStop sees the receipt it polls for; mode is what   *)
(* ParkingController.Owner and Stopping show.  It may give up before, on a *)
(* refused report or on its timer, which can expire at any poll.           *)
Confirmed(id, m) ==
  /\ mode = m
  /\ ~(fault /\ attempted >= id)
  /\ receipt.cmd = id /\ receipt.kind = "stop"

(* RequestParkingSafetyStop is accepted: its command ID is the one to wait *)
(* for.  It is refused while the actuator is not ready.                    *)
HoldRequested == RequestStop /\ ours' = command'
HoldRefused   == mode = "off" /\ UNCHANGED <<ownershipVars, ours>>

HoldFailure(f) == [f EXCEPT !.holdFailed = TRUE, !.holdConfirmed = FALSE]

-----------------------------------------------------------------------------
(* Start, up to the command of the capture process: the readiness checks   *)
(* against the actuator and the status "starting".                         *)
StartAccepted ==
  /\ api = "idle" /\ active = 0 /\ starts < MaxSessions
  /\ mode # "off" /\ ~fault
  /\ starts' = starts + 1
  /\ status' = "starting"
  /\ api' = "arm"
  /\ UNCHANGED <<ownershipVars, active, flags, stopping, pc, cancelled, done,
                 ours, planBy, foreign>>

(* A pipe of the capture command cannot be made (setInferenceError).       *)
StartPipeFails ==
  /\ api = "arm"
  /\ status' = "error"
  /\ api' = "idle"
  /\ UNCHANGED <<ownershipVars, active, starts, flags, stopping, pc, cancelled,
                 done, ours, planBy, foreign>>

(* armActuatorForParkingInference: the neutral command that takes          *)
(* ownership.  The actuator refuses it only when it is not ready.          *)
StartArm ==
  /\ api = "arm" /\ ActuationFree
  /\ \/ /\ Arm
        /\ ours' = command'
        /\ api' = "armConfirm"
     \/ /\ mode = "off"
        /\ api' = "startHold"
        /\ UNCHANGED <<ownershipVars, ours>>
  /\ UNCHANGED <<active, starts, status, flags, stopping, pc, cancelled, done,
                 planBy, foreign>>

StartArmed ==
  /\ api = "armConfirm"
  /\ \/ Confirmed(ours, "parking") /\ api' = "spawn"
     \/ api' = "startHold"
  /\ UNCHANGED <<ownershipVars, active, starts, status, flags, stopping, pc,
                 cancelled, done, ours, planBy, foreign>>

StartSpawnFails ==
  /\ api = "spawn"
  /\ api' = "startHold"
  /\ UNCHANGED <<ownershipVars, active, starts, status, flags, stopping, pc,
                 cancelled, done, ours, planBy, foreign>>

(* A fault to be caught: the flags of the session before are kept.         *)
StartActivateKeepingFlags ==
  /\ api = "spawn"
  /\ active' = starts
  /\ status' = "running"
  /\ pc' = [pc EXCEPT ![starts] = [g \in Goroutines |-> "run"]]
  /\ api' = "idle"
  /\ UNCHANGED <<ownershipVars, starts, flags, stopping, cancelled, done, ours,
                 planBy, foreign>>

(* The capture process runs and the session becomes the active one.        *)
StartActivate ==
  /\ api = "spawn"
  /\ active' = starts
  /\ status' = "running"
  /\ flags' = NoFlags
  /\ pc' = [pc EXCEPT ![starts] = [g \in Goroutines |-> "run"]]
  /\ api' = "idle"
  /\ UNCHANGED <<ownershipVars, starts, stopping, cancelled, done, ours,
                 planBy, foreign>>

(* A fault to be caught: a failed Start leaves the gamepad armed.          *)
StartHoldSkipped ==
  /\ api = "startHold"
  /\ status' = "error"
  /\ api' = "idle"
  /\ UNCHANGED <<ownershipVars, active, starts, flags, stopping, pc, cancelled,
                 done, ours, planBy, foreign>>

(* submitParkingSafetyHold after a failed arm or a failed cmd.Start.       *)
StartHold ==
  /\ api = "startHold" /\ ActuationFree
  /\ \/ HoldRequested /\ api' = "startHoldConfirm" /\ UNCHANGED status
     \/ HoldRefused /\ api' = "idle" /\ status' = "error"
  /\ UNCHANGED <<active, starts, flags, stopping, pc, cancelled, done, planBy,
                 foreign>>

(* Confirmed or not, Start returns the error it failed with.               *)
StartHeld ==
  /\ api = "startHoldConfirm"
  /\ status' = "error"
  /\ api' = "idle"
  /\ UNCHANGED <<ownershipVars, active, starts, flags, stopping, pc, cancelled,
                 done, ours, planBy, foreign>>

Start ==
  \/ StartAccepted \/ StartPipeFails \/ StartArm \/ StartArmed
  \/ StartSpawnFails \/ StartActivate \/ StartHold \/ StartHeld

-----------------------------------------------------------------------------
(* Stop reads the session; without one it answers ErrInferenceNotRunning.  *)
StopBegin ==
  /\ api = "idle" /\ active # 0
  /\ stopping' = active
  /\ api' = "stopLock"
  /\ UNCHANGED <<ownershipVars, active, starts, status, flags, pc, cancelled,
                 done, ours, planBy, foreign>>

(* Under actuationMu it looks again.  A session that is gone ends the call;*)
(* one that was already tripped needs no second hold.                      *)
StopLocked ==
  /\ api = "stopLock" /\ ActuationFree
  /\ \/ /\ active # stopping
        /\ api' = "idle"
        /\ UNCHANGED <<flags, status>>
     \/ /\ active = stopping /\ flags.tripped
        /\ api' = "stopCancel"
        /\ UNCHANGED <<flags, status>>
     \/ /\ active = stopping /\ ~flags.tripped
        /\ flags' = [flags EXCEPT !.tripped = TRUE, !.manual = TRUE]
        /\ status' = "stopping"
        /\ api' = "stopRequest"
  /\ UNCHANGED <<ownershipVars, active, starts, stopping, pc, cancelled, done,
                 ours, planBy, foreign>>

StopHold ==
  /\ api = "stopRequest"
  /\ \/ HoldRequested /\ api' = "stopConfirm" /\ UNCHANGED <<flags, status>>
     \/ /\ HoldRefused
        /\ api' = "stopCancel"
        /\ flags' = HoldFailure(flags)
        /\ status' = "error"
  /\ UNCHANGED <<active, starts, stopping, pc, cancelled, done, planBy, foreign>>

(* A fault to be caught: a hold that was not confirmed is not recorded.    *)
StopHeldUnrecorded ==
  /\ api = "stopConfirm"
  /\ api' = "stopCancel"
  /\ UNCHANGED <<ownershipVars, active, starts, status, flags, stopping, pc,
                 cancelled, done, ours, planBy, foreign>>

StopHeld ==
  /\ api = "stopConfirm"
  /\ api' = "stopCancel"
  /\ \/ Confirmed(ours, "stopping") /\ UNCHANGED <<flags, status>>
     \/ flags' = HoldFailure(flags) /\ status' = "error"
  /\ UNCHANGED <<ownershipVars, active, starts, stopping, pc, cancelled, done,
                 ours, planBy, foreign>>

(* The capture process is told to quit: its context is cancelled and its   *)
(* standard input closed.                                                  *)
StopCancel ==
  /\ api = "stopCancel"
  /\ cancelled' = [cancelled EXCEPT ![stopping] = TRUE]
  /\ api' = "stopWait"
  /\ UNCHANGED <<ownershipVars, active, starts, status, flags, stopping, pc,
                 done, ours, planBy, foreign>>

StopJoined ==
  /\ api \in {"stopWait", "stopKilled"}
  /\ done[stopping]
  /\ done' = [done EXCEPT ![stopping] = FALSE]
  /\ api' = "idle"
  /\ UNCHANGED <<ownershipVars, active, starts, status, flags, stopping, pc,
                 cancelled, ours, planBy, foreign>>

(* Five seconds went by: the process is killed; or two more, or the caller *)
(* left, and Stop returns without the result.                              *)
StopTimesOut ==
  /\ \/ api = "stopWait" /\ api' \in {"stopKilled", "idle"}
     \/ api = "stopKilled" /\ api' = "idle"
  /\ UNCHANGED <<ownershipVars, active, starts, status, flags, stopping, pc,
                 cancelled, done, ours, planBy, foreign>>

Stop ==
  \/ StopBegin \/ StopLocked \/ StopHold \/ StopHeld
  \/ StopCancel \/ StopJoined \/ StopTimesOut

-----------------------------------------------------------------------------
(* Where a goroutine goes on when terminateParkingInference returns.       *)
AfterTerminate(g) ==
  CASE g = "worker" -> "run"
    [] g = "waiter" -> "finish"
    [] OTHER        -> "end"

Tripped(f, succeeded) ==
  [f EXCEPT !.tripped = TRUE, !.completed = succeeded, !.manual = FALSE,
            !.holdConfirmed = FALSE]

(* A fault to be caught: whoever calls ends the session that is active.    *)
TerminateAnySession(s, g) ==
  /\ pc[s][g] \in {"fail", "complete"} /\ ActuationFree
  /\ \/ /\ flags.tripped \/ flags.completed
        /\ Goto(s, g, AfterTerminate(g))
        /\ UNCHANGED <<flags, status>>
     \/ /\ ~flags.tripped /\ ~flags.completed
        /\ flags' = Tripped(flags, At(s, g, "complete"))
        /\ status' = IF At(s, g, "complete") THEN "stopping" ELSE "error"
        /\ Goto(s, g, "request")
  /\ UNCHANGED <<ownershipVars, active, starts, api, stopping, cancelled, done,
                 ours, planBy, foreign>>

(* terminateParkingInference up to the safety hold: the first caller of    *)
(* the active session makes the terminal transition, the others return.    *)
Terminate(s, g) ==
  /\ pc[s][g] \in {"fail", "complete"} /\ ActuationFree
  /\ \/ /\ active # s \/ flags.tripped \/ flags.completed
        /\ Goto(s, g, AfterTerminate(g))
        /\ UNCHANGED <<flags, status>>
     \/ /\ active = s /\ ~flags.tripped /\ ~flags.completed
        /\ flags' = Tripped(flags, At(s, g, "complete"))
        /\ status' = IF At(s, g, "complete") THEN "stopping" ELSE "error"
        /\ Goto(s, g, "request")
  /\ UNCHANGED <<ownershipVars, active, starts, api, stopping, cancelled, done,
                 ours, planBy, foreign>>

(* A fault to be caught: a refused stop returns without unlocking.         *)
TerminateHoldLocked(s, g) ==
  /\ At(s, g, "request")
  /\ HoldRequested /\ Goto(s, g, "confirm")
  /\ UNCHANGED <<flags, status, active, starts, api, stopping, cancelled, done,
                 planBy, foreign>>

TerminateHold(s, g) ==
  /\ At(s, g, "request")
  /\ \/ HoldRequested /\ Goto(s, g, "confirm") /\ UNCHANGED <<flags, status>>
     \/ /\ HoldRefused
        /\ Goto(s, g, "cancel")
        /\ flags' = HoldFailure(flags)
        /\ status' = "error"
  /\ UNCHANGED <<active, starts, api, stopping, cancelled, done, planBy, foreign>>

(* The receipt, and recordParkingSafetyHoldConfirmed or -Error.            *)
TerminateHeld(s, g) ==
  /\ At(s, g, "confirm")
  /\ Goto(s, g, "cancel")
  /\ \/ /\ Confirmed(ours, "stopping")
        /\ IF flags.completed /\ ~flags.holdFailed
           THEN /\ flags' = [flags EXCEPT !.holdConfirmed = TRUE]
                /\ status' = "succeeded"
           ELSE UNCHANGED <<flags, status>>
     \/ /\ flags' = HoldFailure(flags)
        /\ status' = "error"
  /\ UNCHANGED <<ownershipVars, active, starts, api, stopping, cancelled, done,
                 ours, planBy, foreign>>

(* A fault to be caught: the session is held but its process left running. *)
TerminateUncancelled(s, g) ==
  /\ At(s, g, "cancel")
  /\ Goto(s, g, AfterTerminate(g))
  /\ UNCHANGED <<ownershipVars, active, starts, status, flags, api, stopping,
                 cancelled, done, ours, planBy, foreign>>

TerminateCancel(s, g) ==
  /\ At(s, g, "cancel")
  /\ cancelled' = [cancelled EXCEPT ![s] = TRUE]
  /\ Goto(s, g, AfterTerminate(g))
  /\ UNCHANGED <<ownershipVars, active, starts, status, flags, api, stopping,
                 done, ours, planBy, foreign>>

-----------------------------------------------------------------------------
(* The worker asks the model server about a window.  The answer is a plan, *)
(* a failure, or the telemetry shows that the car is parked.  With the     *)
(* context cancelled it may still take one more window.                    *)
WorkerPredicts(s) ==
  /\ At(s, "worker", "run")
  /\ \E next \in {"submit", "fail", "complete"} : Goto(s, "worker", next)
  /\ UNCHANGED <<ownershipVars, active, starts, status, flags, api, stopping,
                 cancelled, done, ours, planBy, foreign>>

(* A fault to be caught: the plan is submitted for whatever session is     *)
(* active, tripped or not.                                                 *)
WorkerSubmitsUnchecked(s) ==
  /\ At(s, "worker", "submit") /\ ActuationFree
  /\ \/ AcceptPlan /\ planBy' = s /\ Goto(s, "worker", "run")
     \/ /\ \E next \in {"run", "fail", "complete"} : Goto(s, "worker", next)
        /\ UNCHANGED <<ownershipVars, planBy>>
  /\ UNCHANGED <<active, starts, status, flags, api, stopping, cancelled, done,
                 ours, foreign>>

(* submitActiveParkingPrediction.  The telemetry may have turned invalid   *)
(* or show the car parked, or the actuator refuses the plan; a session     *)
(* that is not the active one any more, or was tripped, submits nothing.   *)
WorkerSubmits(s) ==
  /\ At(s, "worker", "submit") /\ ActuationFree
  /\ \/ /\ active = s /\ ~flags.tripped /\ ~flags.completed
        /\ AcceptPlan
        /\ planBy' = s
        /\ Goto(s, "worker", "run")
     \/ /\ active # s /\ active # 0 /\ ~flags.tripped /\ ~flags.completed
        /\ Goto(s, "worker", "run")
        /\ UNCHANGED <<ownershipVars, planBy>>
     \/ /\ Goto(s, "worker", IF flags.completed THEN "complete" ELSE "fail")
        /\ UNCHANGED <<ownershipVars, planBy>>
     \/ /\ ~flags.tripped
        /\ Goto(s, "worker", "complete")
        /\ UNCHANGED <<ownershipVars, planBy>>
  /\ UNCHANGED <<active, starts, status, flags, api, stopping, cancelled, done,
                 ours, foreign>>

(* The frame stream ends or loses its timing, the evaluation deadline      *)
(* passes, or the capture process exits, told to or not.                   *)
SessionFails(s, g) ==
  /\ g # "worker" /\ At(s, g, "run")
  /\ g = "frames" => ~cancelled[s]
  /\ Goto(s, g, "fail")
  /\ UNCHANGED <<ownershipVars, active, starts, status, flags, api, stopping,
                 cancelled, done, ours, planBy, foreign>>

(* A cancelled context ends the goroutines that watch it.                  *)
GoroutineEnds(s, g) ==
  /\ g # "waiter" /\ At(s, g, "run") /\ cancelled[s]
  /\ Goto(s, g, "end")
  /\ UNCHANGED <<ownershipVars, active, starts, status, flags, api, stopping,
                 cancelled, done, ours, planBy, foreign>>

(* What finishInferenceSession reports.  The last line, an untripped session, is    *)
(* the code's fallback: the process error or, without one, "idle".         *)
Outcomes ==
  IF flags.holdFailed THEN {"error"}
  ELSE IF flags.completed THEN {IF flags.holdConfirmed THEN "succeeded" ELSE "error"}
  ELSE IF flags.manual THEN {"idle"}
  ELSE IF flags.tripped THEN {"error"}
  ELSE {"error", "idle"}

(* finishInferenceSession and the result for Stop.                         *)
Finish(s) ==
  /\ At(s, "waiter", "finish") /\ ActuationFree
  /\ IF active = s
     THEN /\ active' = 0
          /\ status' \in Outcomes
          /\ flags' = IF flags.manual /\ ~flags.holdFailed /\ ~flags.completed
                      THEN NoFlags ELSE flags
     ELSE UNCHANGED <<active, status, flags>>
  /\ done' = [done EXCEPT ![s] = TRUE]
  /\ Goto(s, "waiter", "end")
  /\ UNCHANGED <<ownershipVars, starts, api, stopping, cancelled, ours, planBy,
                 foreign>>

Session(s) ==
  \/ WorkerPredicts(s) \/ WorkerSubmits(s)
  \/ \E g \in Goroutines :
       \/ SessionFails(s, g) \/ GoroutineEnds(s, g)
       \/ Terminate(s, g) \/ TerminateHold(s, g) \/ TerminateHeld(s, g)
       \/ TerminateCancel(s, g)
  \/ Finish(s)

-----------------------------------------------------------------------------
(* The actuator's side: main starts it once and closes it at the end, its  *)
(* ticker writes reports, and other clients of its HTTP interface release, *)
(* drive or arm the gamepad.                                               *)
GamepadOpens == issued = 0 /\ Open /\ UNCHANGED inferencerVars

BackendShutsDown == issued > 0 /\ Shut /\ UNCHANGED inferencerVars

Tick == (WriteOk \/ WriteErr) /\ UNCHANGED inferencerVars

OtherClient ==
  /\ foreign < MaxForeign
  /\ foreign' = foreign + 1
  /\ Release \/ DirectCommand \/ Arm
  /\ UNCHANGED <<active, starts, status, flags, api, stopping, pc, cancelled,
                 done, ours, planBy>>

SessionNext ==
  \/ Start \/ Stop
  \/ \E s \in Sessions : Session(s)
  \/ GamepadOpens \/ BackendShutsDown \/ Tick \/ OtherClient

SessionSpec == SessionInit /\ [][SessionNext]_sessionVars

(* Steps of a call that was made, other than waiting for actuationMu.      *)
CallProceeds ==
  \/ StartPipeFails \/ StartArmed \/ StartSpawnFails \/ StartActivate \/ StartHeld
  \/ StopHold \/ StopHeld \/ StopCancel \/ StopJoined \/ StopTimesOut

(* Calls and goroutines proceed, their timers fire, a Go mutex starves     *)
(* nobody, and a process whose context is cancelled is killed.             *)
SessionFairness ==
  /\ WF_sessionVars(CallProceeds)
  /\ SF_sessionVars(StartArm) /\ SF_sessionVars(StartHold) /\ SF_sessionVars(StopLocked)
  /\ \A s \in Sessions :
       /\ SF_sessionVars(Finish(s))
       /\ WF_sessionVars("deadline" \in Goroutines /\ SessionFails(s, "deadline"))
       /\ WF_sessionVars(cancelled[s] /\ SessionFails(s, "waiter"))
       /\ \A g \in Goroutines : SF_sessionVars(Terminate(s, g))
       /\ WF_sessionVars(\E g \in Goroutines :
            TerminateHold(s, g) \/ TerminateHeld(s, g) \/ TerminateCancel(s, g))

FairSessionSpec == SessionSpec /\ SessionFairness

-----------------------------------------------------------------------------
(* The gamepad is armed only for a session: while the inferencer's own     *)
(* command is the current one, parking ownership without a safety stop     *)
(* means that Start is under way, or that the active session was not       *)
(* tripped yet, or that whoever tripped it is about to request the stop.   *)
ArmedOnlyForSession ==
  mode = "parking" /\ command = ours =>
    \/ api \in {"armConfirm", "spawn", "startHold"}
    \/ /\ active # 0
       /\ ~flags.tripped \/ api = "stopRequest"
                         \/ \E g \in Goroutines : pc[active][g] = "request"

(* A plan that the actuator holds was submitted by the session that is     *)
(* still the active one, however late its prediction came.                 *)
PlanOfActiveSession ==
  planned => \/ planBy = active /\ active # 0
             \/ command # ours

(* A session reported as ended well left the car held: until somebody else *)
(* commands the gamepad the stop is in force and its receipt was seen.     *)
HeldAfterSession ==
  (/\ active = 0 /\ starts > 0
   /\ status \in {"succeeded", "idle"}
   /\ command = ours)
  => mode = "stopping" /\ receipt = [cmd |-> ours, kind |-> "stop"]

(* The terminal flags agree with each other and with the status whenever   *)
(* nobody is inside the actuation section.                                 *)
FlagsCoherent ==
  /\ flags.completed \/ flags.manual \/ flags.holdFailed => flags.tripped
  /\ ~(flags.completed /\ flags.manual)
  /\ flags.holdConfirmed => flags.completed /\ ~flags.holdFailed
  /\ ActuationFree /\ flags.completed => flags.holdFailed # flags.holdConfirmed
  /\ ActuationFree /\ flags.holdFailed /\ api \notin {"arm", "spawn", "startHold"} =>
       status = "error"
  /\ status = "running" => active # 0 /\ ~flags.tripped
  /\ status = "stopping" => flags.tripped

(* A goroutine of a session that is over changes neither the status nor    *)
(* the flags nor the gamepad, whatever it was in the middle of.            *)
StaleGoroutinesAreHarmless ==
  [][\A s \in Sessions : s # active /\ pc'[s] # pc[s] /\ active' # s
       => UNCHANGED <<ownershipVars, status, flags, active>>]_sessionVars

(* Every session ends: stopped, tripped by one of its goroutines, or by    *)
(* the evaluation deadline.                                                *)
EverySessionEnds == \A s \in Sessions : active = s ~> active # s

(* Start and Stop return, whatever the actuator answers.                   *)
CallsReturn == api # "idle" ~> api = "idle"
=============================================================================
