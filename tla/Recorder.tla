------------------------------- MODULE Recorder -------------------------------
(***************************************************************************)
(* The recorder of backend/internal/capture/service.go: one ffmpeg process *)
(* at a time, the goroutine that waits for it, and overlapping calls of    *)
(* Start, Stop and ForceStop.                                              *)
(*                                                                         *)
(* Sessions are numbered; mu is held only inside an action.  The timers of *)
(* a stop may fire at any time, a context may be cancelled at any time,    *)
(* and ffmpeg may end by itself or ignore that it was asked to.            *)
(***************************************************************************)
EXTENDS Integers

CONSTANTS
  Callers,       \* requests of the HTTP API that overlap
  MaxCaptures,   \* bound: sessions started
  MaxCalls       \* bound: calls that one caller makes

ASSUME RecorderAssumption == MaxCaptures \in Nat /\ MaxCalls \in Nat

Captures == 1..MaxCaptures

VARIABLES
  active,     \* s.active: the session, 0 for nil
  process,    \* the ffmpeg process of each session
  waiter,     \* its waitForSession
  done,       \* session.done holds the result of the process
  call,       \* where each caller stands
  target,     \* the session that its Stop read from s.active
  result,     \* what its last call returned
  calls       \* calls it has made

sessionState  == <<active, process, waiter, done>>
callState     == <<call, target, result, calls>>
recorderVars  == <<sessionState, callState>>

Results == {"none", "started", "alreadyRunning", "stopped", "notRunning", "failed"}

RecorderTypeOK ==
  /\ active \in {0} \cup Captures
  /\ process \in [Captures -> {"none", "running", "exited"}]
  /\ waiter \in [Captures -> {"off", "wait", "reaped", "cleared", "end"}]
  /\ done \in [Captures -> BOOLEAN]
  /\ call \in [Callers -> {"idle", "starting", "stopping", "killing"}]
  /\ target \in [Callers -> {0} \cup Captures]
  /\ result \in [Callers -> Results]
  /\ calls \in [Callers -> 0..MaxCalls]

RecorderInit ==
  /\ active = 0
  /\ process = [s \in Captures |-> "none"]
  /\ waiter = [s \in Captures |-> "off"]
  /\ done = [s \in Captures |-> FALSE]
  /\ call = [c \in Callers |-> "idle"]
  /\ target = [c \in Callers |-> 0]
  /\ result = [c \in Callers |-> "none"]
  /\ calls = [c \in Callers |-> 0]

-----------------------------------------------------------------------------
Begin(c) ==
  /\ call[c] = "idle" /\ calls[c] < MaxCalls
  /\ calls' = [calls EXCEPT ![c] = @ + 1]

Return(c, r) ==
  /\ call' = [call EXCEPT ![c] = "idle"]
  /\ result' = [result EXCEPT ![c] = r]

(* Start, up to the lock: the sources are discovered without it.           *)
StartBegin(c) ==
  /\ Begin(c)
  /\ call' = [call EXCEPT ![c] = "starting"]
  /\ result' = [result EXCEPT ![c] = "none"]
  /\ UNCHANGED <<sessionState, target>>

(* No source, no output directory, no log file, no pipe or no process.     *)
StartFails(c) ==
  /\ call[c] = "starting"
  /\ Return(c, "failed")
  /\ UNCHANGED <<sessionState, target, calls>>

StartRefused(c) ==
  /\ call[c] = "starting"
  /\ active # 0
  /\ Return(c, "alreadyRunning")
  /\ UNCHANGED <<sessionState, target, calls>>

Spawn(c, s) ==
  /\ process[s] = "none" /\ \A earlier \in 1..s - 1 : process[earlier] # "none"
  /\ process' = [process EXCEPT ![s] = "running"]
  /\ waiter' = [waiter EXCEPT ![s] = "wait"]
  /\ active' = s
  /\ Return(c, "started")
  /\ UNCHANGED <<done, target, calls>>

(* A fault to be caught: what was checked before the discovery still holds.*)
StartUnchecked(c) == call[c] = "starting" /\ \E s \in Captures : Spawn(c, s)

StartProcess(c) ==
  /\ call[c] = "starting"
  /\ active = 0
  /\ \E s \in Captures : Spawn(c, s)

Start(c) == StartBegin(c) \/ StartFails(c) \/ StartRefused(c) \/ StartProcess(c)

-----------------------------------------------------------------------------
(* waitForSession: the process is reaped, the session cleared, and only    *)
(* then its result handed on.                                              *)
ProcessExits(s) ==
  /\ process[s] = "running"
  /\ process' = [process EXCEPT ![s] = "exited"]
  /\ UNCHANGED <<active, waiter, done, callState>>

Reap(s) ==
  /\ waiter[s] = "wait" /\ process[s] = "exited"
  /\ waiter' = [waiter EXCEPT ![s] = "reaped"]
  /\ UNCHANGED <<active, process, done, callState>>

Clear(s) ==
  /\ waiter[s] = "reaped"
  /\ waiter' = [waiter EXCEPT ![s] = "cleared"]
  /\ active' = IF active = s THEN 0 ELSE active
  /\ UNCHANGED <<process, done, callState>>

Deliver(s) ==
  /\ waiter[s] = "cleared"
  /\ waiter' = [waiter EXCEPT ![s] = "end"]
  /\ done' = [done EXCEPT ![s] = TRUE]
  /\ UNCHANGED <<active, process, callState>>

Waiter(s) == Reap(s) \/ Clear(s) \/ Deliver(s)

-----------------------------------------------------------------------------
(* stop: the active session is read, and asked to quit.                    *)
StopBegin(c) ==
  /\ Begin(c)
  /\ target' = [target EXCEPT ![c] = active]
  /\ IF active = 0
     THEN Return(c, "notRunning")
     ELSE /\ call' = [call EXCEPT ![c] = "stopping"]
          /\ result' = [result EXCEPT ![c] = "none"]
  /\ UNCHANGED sessionState

(* The result of the process is taken; the output file may be missing or   *)
(* empty.                                                                  *)
StopDone(c) ==
  /\ call[c] \in {"stopping", "killing"}
  /\ done[target[c]]
  /\ done' = [done EXCEPT ![target[c]] = FALSE]
  /\ \E r \in {"stopped", "failed"} : Return(c, r)
  /\ UNCHANGED <<active, process, waiter, target, calls>>

StopCancelled(c) ==
  /\ call[c] = "stopping"
  /\ Return(c, "failed")
  /\ UNCHANGED <<sessionState, target, calls>>

(* The stop timeout: a process that has been reaped cannot be killed, one  *)
(* that has ended but was not may refuse it, a running one ends.           *)
StopKills(c) ==
  /\ call[c] = "stopping"
  /\ waiter[target[c]] = "wait"
  /\ process' = [process EXCEPT ![target[c]] = "exited"]
  /\ call' = [call EXCEPT ![c] = "killing"]
  /\ UNCHANGED <<active, waiter, done, target, result, calls>>

StopCannotKill(c) ==
  /\ call[c] = "stopping"
  /\ process[target[c]] = "exited"
  /\ Return(c, "failed")
  /\ UNCHANGED <<sessionState, target, calls>>

(* A fault to be caught: once killed, the process is waited for in vain.   *)
KillNeverTimesOut(c) == FALSE /\ UNCHANGED recorderVars

(* "process did not exit after kill"                                       *)
KillTimesOut(c) ==
  /\ call[c] = "killing"
  /\ Return(c, "failed")
  /\ UNCHANGED <<sessionState, target, calls>>

StopTimer(c) == StopKills(c) \/ StopCannotKill(c) \/ KillTimesOut(c)

Stop(c) == StopBegin(c) \/ StopDone(c) \/ StopCancelled(c) \/ StopTimer(c)

RecorderNext ==
  \/ \E c \in Callers : Start(c) \/ Stop(c)
  \/ \E s \in Captures : ProcessExits(s) \/ Waiter(s)

RecorderSpec == RecorderInit /\ [][RecorderNext]_recorderVars

-----------------------------------------------------------------------------
(* No ffmpeg is ever out of reach: a process that runs is that of the      *)
(* active session, where the next Stop finds it, so two never record at    *)
(* once, however calls of Start overlap.                                   *)
RunningIsActive ==
  \A s \in Captures : process[s] = "running" => active = s

(* A stop that reports success is over: the process has ended and the      *)
(* recorder no longer counts its session as active, so a Start that        *)
(* follows is not refused because of it.                                   *)
StoppedIsOver ==
  \A c \in Callers : result[c] = "stopped" =>
    process[target[c]] = "exited" /\ active # target[c]

(* One recording is reported stopped once, so that it is queued for        *)
(* processing once, although two stops may wait for the same process.      *)
StoppedOnce ==
  \A c, d \in Callers :
    c # d /\ result[c] = "stopped" /\ result[d] = "stopped" => target[c] # target[d]

(* Together: whatever starts and stops overlap, sessions and processes     *)
(* agree, and what callers were told of them is true (Start, stop,         *)
(* waitForSession).                                                        *)
SessionsMatchProcesses == RunningIsActive /\ StoppedIsOver /\ StoppedOnce
=============================================================================
