# Verification of the GTA Parking Lab

This directory holds TLA+ models of the parking lab's backend (Go), of the FiveM
resource's interface to it (TypeScript) and their TLC configurations, with proofs
checked by TLAPS. Every definition is a translation of the source; `PROJECT.json`
names for each of them the file and lines it stands for, and lists the runs, the
known hazards, the mutants each property is tested with and the theorems.

    tlc -workers 2 -config MCParkingActuator.cfg MCParkingActuator
    tlapm ParkingActuatorProofs.tla

## 1. Inventory

One Windows machine runs a FiveM server and client (the simulated car), the Go
backend (screen capture, inference control, a virtual Xbox gamepad, the web UI) and
a Python process for each trained model. The loop of a parking session:

    FiveM egoService --telemetry--> control.Store --> actuator (20-100 Hz) --> ViGEm gamepad --> game
          ^                             |                 ^    |
          |                             v                 |    | State(): receipts
      control commands            frames + telemetry      |    v
          |                             |            plans, arm, stop
    control.Store queue            capture.Inferencer ----+
                                        | stdin/stdout
                                   Python model server

| Component | State it keeps | Operations | What makes it hard | What makes it correct |
|---|---|---|---|---|
| `backend/internal/actuator` | owner, current command, safety stop, setpoint plan, last applied and attempted report, tuning; one mutex | Start, Close, Submit, RequestParkingSafetyStop, SubmitParkingSetpointPlan, tuning, ticker `step` | a wall clock that may be adjusted, the sender's clock, refused reports, preemption | ownership coherent; no plan outlives its arm; a stop persists and its receipt is true; expired input drives for no longer than the clock was set back |
| `backend/internal/parkingcontrol` | PI integrators, stop latch, previous output | `Step`, `Reset`, `NewPlanSampler`, `SampleByAge` | hysteresis, anti-windup, slew across a sign change | bounded outputs; brake and throttle exclusive; the latch does not chatter |
| `backend/internal/capture` inferencer | active session, status, terminal flags; three mutexes, an actuation ticket | Start, Stop, LoadModel, worker, frame consumer, deadline monitor, exit waiter | five goroutines per session, late predictions, a stop that must be confirmed by a receipt | armed only for the current session; held before the model ends; flags coherent; a stale goroutine never ends another session |
| `backend/internal/capture` recorder | active session, ffmpeg process, manifests | Start, Stop, session wait | process exit races Stop, requests that overlap or were given up | no process out of reach; a stop that succeeded is over, and reported once |
| `backend/internal/capture` frame windows and prediction queue | ring of frames with their dates, a queue of one window, what the worker saw of the telemetry | consume, offer, take, match, check, ask, submit | two pipes joined by counting, rows that arrive late, a check that is old when the plan goes out | what is asked of the model belongs together; plans advance and go out on the newest telemetry |
| `backend/internal/parkingcontrol/plan.go` | none | ValidatePlan, SampleByAge | interpolation at the edges | a plan that was accepted stays in the model's limits |
| `backend/internal/control` | command queue, consumer cursor, telemetry store | Enqueue, Poll, ResetConsumerSession, UpdateStatus, UpdateTelemetry | polling at least once, bounded history, sender restarts | commands are delivered in order; none is delivered twice; none counts as seen before it was passed on |
| `backend/internal/dataset` | a trip's status, images and samples, all in files | Queue, ProcessTrip, batch workers, run report | two processes on the same files, failures and crashes between two writes, jitter of frames and rows | what is called completed is whole; a report agrees with the files; samples look at the past only |
| `backend/cmd` | HTTP routes, shutdown | wiring | shutdown order | the car is held when the backend leaves |
| `fivem/src` | scene, parking runner, trip state, capture control | ticks, HTTP handlers, poll loop | asynchronous natives, timeouts that one side alone knows of, restarts of client and resource | an attempt that is counted is whole; nothing records unattended; every run ends |
| `fsd_trainer` | training job queue, model server, data set and target transforms | HTTP server, worker processes | cancel, stop and delete while the worker moves on; files that fail; restarts | one training at a time; no job is lost; a stop hits its job; a restart keeps results |

PROJECT.json lists these parts with what is modelled of each, and under "hazards"
everything of this code that is hard to test, at its line.

## 2. Plan

In the order of what it would cost to be wrong. Done:

1. `ControlSafety`, `ParkingActuator`: what reaches the gamepad, with the contract
   `ActuatorOwnership` its callers rely on, the refinement, and the proofs.
2. `ParkingSession`: the inferencer's session, composed with `ActuatorOwnership`.
3. `Interpolation`, `ParkingFeedback`: the feedback controller as a step relation.
4. `ControlChannel`: the command queue composed with FiveM's polling consumer.
5. `Recorder`: the recorder, its process and concurrent calls.
6. `TrainingQueue`: the trainer's job queue with its worker, files and restarts.

7. `SetpointPlan` over `Interpolation`: `ValidatePlan` and `SampleByAge`.
8. `TelemetryStore`, the control store's telemetry with its order check and histories,
   and on top of it `PredictionWindows`: frames, windows, queue, worker.
9. `DatasetSamples` (which frames and rows make a sample) and `TripProcessing` (the
   processor, its batches and the report over the files).
10. `TripCapture`: the parking runner, capture requests and trip finalisation, composed
    with `Recorder`.

Left, in this order: the outcome evaluation and the curriculum of the parking runner
(geometry on reals, to be cut to comparisons), the routes of the ego service with their
own capture sequence, the preparation of an expert run (`server.ts`), live tuning
(`ApplyTuning`, `SaveTuning`, `ReloadTuning`) with the configurations that
`HoldBelowLimiter` excludes, the state of the Python model server, `PredictionWindows`
composed with `ParkingSession` instead of its own short life of a session.

A subsystem that shares a boundary with a module above is composed with it: `ParkingSession`
through the abstract contract `ActuatorOwnership`, `TripCapture` by extending `Recorder`,
`PredictionWindows` by extending `TelemetryStore` and `SetpointPlan`. Runs stay few, one
for each question. Once a theorem covers a property for every instance and no run needs it
to test the model, its place in the runs goes to one that is only model-checked.

Theorems left: that every plan the actuator accepts is a `ValidatePlan` plan.

## 3. Modules

Each module's definitions carry the names of the code; the exact lines are in
`PROJECT.json`. Operators whose comment starts with "A fault to be caught" are
deliberate bugs: substituted for the definition after them, they make a property fail,
and the specifications do not use them.

**ControlSafety** - what the actuator does to one control, as pure operators on
percents: the speed limiter, reverse lockout, gains and throttle floor of live tuning,
the mutual exclusion of throttle, brake and handbrake under parking safety, and what
counts as a stop. `TuningAssumption` is what `ValidateTuning` guarantees.

**ParkingActuator** - `actuator.Service`. Every exported method and every tick of
`run()` holds `s.mu` throughout and is one action: `Submit` (direct, arming, release,
each with its refusals), `RequestParkingSafetyStop`, `SubmitParkingSetpointPlan`,
`Step` (the whole of `step()`: target resolution with its three branches, tuning,
device write, receipt). `Start` and `Close` release the mutex half way and are two
actions each; `CloseDevice` stands for the exit of `run()` that closes the device, too.
A `Close` that overlaps a `Start` is not modelled: `main` calls each once, in order.
Time is kept as ages. Whatever instants the service compares went through `UTC()` (297,
335, 380, 457) or through text, which drops Go's monotonic reading: the age of a command,
of a plan, of its observation, of a sample and of the last feedback tick are all
differences of the wall clock, `age` in the model, and `ClockStep` shifts them all. What
really passed is history that no action reads: `mono`, and `back`, by how much the clock
was set back meanwhile. `Horizon` is the age from which no setting back that is still
possible makes a thing fresh again, so ages are counted up to there only. The unit is a
ticker period; `tickDue` says that the ticker has not been served in the present one, and
`Elapse` may pass without it, as a tick that waits too long is dropped. A report the
driver refuses (`Step` with `applyFault'`) may or may not have reached the device. The
feedback controller appears as any output of `Outputs`, which `ParkingFeedback` shows
to be what it can return; live tuning is a constant of each run.

**ActuatorOwnership / ActuatorRefinement** - the contract: who owns the gamepad, which
command is current, and what a receipt in `State()` means. `ActuatorRefinement` maps
the service's variables onto it, and `ImplementsOwnership` is both a run's property
and a theorem.

**ParkingSession** - `capture.Inferencer` EXTENDS the contract rather than the service.
`api` is where the call under `lifecycleMu` stands; `pc[s][g]` where goroutine `g` of
session `s` stands (worker, frame consumer, deadline monitor, process waiter; the stderr
reader touches only text). The section under `actuationMu` is split where it polls the
receipt (`request`, `confirm`, `cancel`), so everything that does not take the mutex
interleaves with it: ticks, other HTTP clients' commands, the process, the shutdown.
The content of predictions is abstracted to the plan they lead to; a goroutine's
error is possible at any time.

**Interpolation / ParkingFeedback** - `parkingcontrol.Controller`: piecewise linear maps,
and `Step` in its three outcomes (refused, hold, drive or brake) with stop latch,
slews and both integrators; `Reset`. Values are whole percents and whole speed units;
the assumptions are what `New` checks. Gains are integers of the same scale, so rounding
differs from the floating-point code while every comparison, order of updates and
clamp is kept.

**ControlChannel** - `control.Store`'s queue with its FiveM consumer in `server.ts`. A
request is three steps (sent, served, answered) and can fail before or after it
was served; handlers run without interruption between their awaits. `BackendRestarts`
and `ResourceRestarts` lose one side's memory; a restart loses or has served the
requests in flight.

**SetpointPlan** - `ValidatePlan` and `SampleByAge` as operators on plans in fixed-point
units; `PredictionWindows` submits nothing else.

**TelemetryStore** - the telemetry half of `control.Store` and the game that sends it.
Requests may be delayed, lost or overtaken; the store keeps what arrives as it arrives,
and only the adapter of the ego telemetry refuses a sample older than one it has seen
(`highest`). Of a sample only what a decision depends on is kept: bay, phase, start
envelope, driver.

**PredictionWindows** - from FFmpeg's two pipes to the actuator: `timings` and frames
joined by counting, `consumer` (frame goroutine: read, offer, drop the oldest, put),
`predictQ` of one window, `worker` (take, look at the telemetry, choose rows, ask, look
again, submit). The two looks each read the store twice, as the code does. A session is
over for good here; how it ends and what it leaves behind is `ParkingSession`'s.

**DatasetSamples** - pure operators: frame windows, the nearest row for each offset that
no other offset took, smoothing, training labels, thinning of standstills. **TripProcessing**
puts them on disk: one action for each access to the files, by the goroutine that
`/capture/stop` starts for a trip and by the workers of `process-runs`, which know nothing
of each other. `Fault` fails one access, `BackendDies` and `BatchDies` end a process
between two. The loops over frames, rows and samples are recursive functions over how many
were handled. `RecordedAssumption` says what can be recorded: ffprobe lists frames in the
order in which they are shown, and a row has one time at most; rows come in any order, and
timestamps, flash, images, speeds and yaws may be missing anywhere. `SamplingAssumption` is
what the options are checked for. `sort.Slice` leaves the order of rows with the same time
open; the model keeps the order in which they were written.

**Recorder** - `capture.Service`: `Start`, `Stop`, `ForceStop` by several callers, the
ffmpeg process, and the goroutine that waits for it. The unlocked discovery before the
check and the order in which `waitForSession` clears the session and hands on the result
are steps of their own.

**TripCapture** - EXTENDS `Recorder`: its callers are the HTTP requests of the game
server. `runner` is where `run`/`runAttempt` stand in the client; `requests` the events on
their way, `telemetry` the trips whose chunks are; `server` the maps of `server.ts`
(pending, active, in flight, finalized), `written` its three files, one write after the
other; `serving` which event each HTTP request serves. Any await of the runner may time
out (`AttemptFails`), while the server goes on with what it was asked. `ClientRestarts`
and `ResourceRestarts` lose one or both memories; the backend lives on. `/capture/stop`
is sent a run and a trip and looks at neither, so which recording a stop ends and which
directory it queues follow from the recorder's state (`Queued`), not from the request.

**TrainingQueue** - `TrainingManager`. A call holds the lock for one action; `stop` goes
on watching the process (`terminating`) and deletions remove directories (`removing`)
without it. `pc` is where the worker thread stands in `_run_loop` and `_run_job`, one
step for each stretch under the lock and each wait. `jobs` is the memory, `disk` the
directory and the `job.json` of each id; the two differ where a write fails (`Fault`)
and after `Restart`, which loads what it can read. The queue, a list in the order of
creation, is the set of its entries with their stamps. `requeue` is an `Enqueue`: it adds
a copy of a job it read before, and nothing else of that job matters. A list of jobs in
one call is as many `Enqueue`s; the event that `enqueue` sets after the lock is set with
it, since the worker that looks at the queue before is only woken once more. A write that
a restart cuts short is one that fails, followed by the restart.

## 4. Runs

| Run | Question | Bounds, and why they are enough |
|---|---|---|
| `actuator` | what can the ticker write, and whose command, plan and receipt is it? | 2 commands, 2 plans, the clock set back once by a unit, at any time: a replaced command with a replaced plan, a preemption, a re-arm, and timeouts of 1 unit that the step crosses, so that a plan drives, and a handbrake is thrown on a speed, older than its timeout. Four requests (arm, throttle, brake, release), three outputs, three samples, plans observed late, now or in the future: one for each branch. Also the refinement |
| `actuator_stop` | does a stop reach the device? | the same with two requests (arm, throttle) and one sample; under the fairness below |
| `actuator_clock` | does the wall clock alone bound a direct throttle? | expected violation, see section 6 |
| `session_safety` | is the car armed only for a session, held after it, and what can a goroutine of an old session do? | two sessions with worker, frame consumer and waiter; the deadline monitor fails and terminates on the same paths. One command of another client, in the first session; the frames of the second do not end (`MCSessionBound`) |
| `session_live` | does everything end? | one session with the deadline monitor |
| `feedback` | latch, slews, integrators, settling | all combinations that differ in a branch, elapsed times 1 and `MaxDT`, one input for each refusal; integrals small enough that both limits are reached in three steps |
| `control_channel` | order, delivery, and does a cleared queue stay behind? | history of 2 with 3 commands (it overflows), 2 registrations that can overlap, one restart of either side |
| `predictions` | does a plan come from inputs that belong together, and go out on the newest telemetry? | 3 units of time, 3 samples, 3 frames, windows of two frames, a history of three rows: a row late by one, a timing line lost, a window replaced in the queue. A session starts at the first sample, and one thing is out of the ordinary: the game changes or something fails (`MCWindowsBound`) |
| `trip_capture` | is a counted attempt whole, does anything record unattended, does every run end? | a run of two attempts (the barrier between trips of a run) and one of one (what the first left behind), two starts and two stops that overlap, two recordings. A restart or a failing write, once and in the first run, and one start overtaken by its abort (`OneMishap`). With the mishap at any time, any number of overtaken starts and an ffmpeg that always ends when it likes, safety holds over 900 000 states, too |
| `trips` | what is left of a trip when processing fails, dies or meets itself? | two trips and 275 recordings of 7 frames: every jitter of four rows by one unit before or two after, standstills, missing fields, flashes and timestamps. The plain recording meets the backend with both trips, the backend with a batch, and two batches of two workers one after the other, with up to two failing accesses and a crash; the unusual ones are processed by the backend without failures |
| `training` | can calls, failing files and restarts confuse the queue? | two jobs and a history of one: an id is used again, a stop can meet the next job, pruning happens; two faults, so that the handler of the first can fail; one restart |
| `training_cancel` | is a canceled job left alone? | expected violation, see section 6 |

What they show: under parking ownership nothing drives without a plan whose observation is
at most as old as the plan timeout and what the wall clock was set back since the plan was
accepted; the handbrake is thrown on a slow sample only, received within the telemetry
timeout and what the clock was set back since. No receipt names a plan older than one that
was applied before, stops and re-arms in between or not. A stop persists until another command, reaches the device, and its receipt cannot be
that of an older command. The inferencer keeps the gamepad armed only for its own session
and reports success only if the stop was confirmed; a goroutine of a session that is over
is harmless. A latched stop releases the throttle at once. The command queue keeps order
until the consumer forgets where it was, and of what was queued before a clear at most the
answer under way is passed on. Plans advance, are made of consecutive frames with
rows of their time, and go out on a check of the newest sound telemetry, unless more of it
arrived between the two reads of the check (the exception in `PlanKnowsTheLatest`). No
ffmpeg gets out of reach of the next stop, and none records unattended, but one whose start
was still under way when its abort was carried out: that abort is a success ("not running"),
the start follows, and the recording goes on until the next abort or registration
(`Strays`). An attempt that the runner counts has its three files, one recording that is
over, and that recording queued, again unless a stray one was stopped in its place. What
is completed on disk is whole, unless a worker had the trip together with the backend; a
whole dataset is made anew by force only, or by a task that looked for one before another
wrote it, and this on such a shared trip only. A training job is
queued, active or over whatever fails; a stop hits the job it names and ends it; removing a
deleted job never touches a new one of the same name.

A property that is the conjunction of named parts (`SessionsMatchProcesses`, `JobsAreKept`,
`DispatchedInOrder`, `SamplesAreSound`, `PlansAreCurrent`) is one line in a run; the last
three are tested with a mutant for each part that needs one. Type invariants are checked with the models during their
development and, where there are proofs, shown by TLAPS for every instance.

Some properties say nothing of what went wrong before: `RestartKeepsResults` and
`StoppedOnRequest` hold as long as no file operation failed, `ReportAgrees` as long as none
failed and no trip was shared, `CompletedIsWhole` of trips that were not shared. `JobsAreKept`
covers failed files and a dead worker, `OnlyForceRewrites` shared trips and failures.

The constraints named above are ACTION_CONSTRAINTs: they cut steps of the environment that
would multiply the states without meeting a new branch. In `trip_capture` and `predictions`
they stand beside fairness; what they cut is never the only way on for a fair action, so the
liveness properties are not satisfied by it.

`CHECK_DEADLOCK FALSE` stands in the session runs, because the backend really stops
after its shutdown, and in `trip_capture`, `trips`, `predictions` and `training`, where
calls, captures, batches, frames and jobs are bounded.

**Fairness.** `ParkingActuator`: time passes and the ticker fires (weak); strong fairness
of a tick that the driver accepts, so the driver does not refuse for ever. This is
the driver's promise, not the code's: without it no stop can reach the device.
`ParkingSession`: calls and goroutines proceed (weak; their polls carry deadlines);
strong fairness for everything that takes `actuationMu`, since Go's mutex turns to its
longest waiter after a millisecond; the deadline timer fires; the process of a cancelled
context is killed (`exec.CommandContext`). Nothing is assumed of predictions, frames or
the process otherwise. `ParkingFeedback`: the actuator's ticker calls `Step`.
`ControlChannel`: the 250 ms interval and the client's heartbeat (weak); strong fairness
that a request to the backend on the same host is some time served and answered.
`TripCapture`: the runner's ticks and timers run and the timers of a stop fire (weak);
nothing is assumed of events, of the server's answers, of ffmpeg or of its waiter.
`TripProcessing`: workers and the loop that reads their results go on (weak), unless the
process dies. `PredictionWindows`: both goroutines run on (weak), the request to the model
ends by its timeout; frames, telemetry and answers need not ever come.
`TrainingQueue`: the worker thread and the loop of a stop go on, and a killed process ends
(weak). That a training ends by itself is the premise of `QueueDrains` alone. Both liveness
properties except a worker thread that died, which the code lets happen (section 6).

## 5. Theorems

Proved by TLAPS for every value of the constants under the modules' assumptions.

- **ParkingActuatorProofs.** `TypeCorrect` needs only that the control algebra stays in
  range (`GainRange` and the lemmas after it). The safety theorems rest on
  `ActuatorInv`, the conjunction of the types, `OwnershipCoherent`, `PlanBelongsToArm`,
  `StopReceiptSound`, `IdsAreIssued`, `ClosedIsClear` and two facts: a parking owner has
  a command, and while the service is ready and the last write succeeded the device holds
  what the receipt says. None is inductive alone: that a receipt with the current
  ID is a stop's needs IDs that were issued (a new command's ID matches no older
  receipt) and a service that is clear when not ready (a new life does not find the old
  receipt). `StopsPersist` follows step by step from the invariant.
  `OwnershipIsImplemented` shows the step simulation action by action: a tick is a
  `WriteOk` or `WriteErr`, whose kind is a stop by `StopReceiptSound`'s argument.
  It assumes `HoldBelowLimiter`, which the deployed configuration satisfies and
  `LoadConfig` does not check: otherwise the limiter adds a brake to a handbrake and no
  receipt counts as a stop.
  The second half is what the ticker puts on the device. `MotionInv` adds to
  `ActuatorInv` that without a command nothing is left of one; `TickWrites` names what a tick
  can write, for any gains and floors, and the four theorems (nothing without a command,
  no plan past its timeout plus what the clock was set back, a slow handbrake, receipts
  whose plans only get newer) follow from it. For the two in the middle `AgesCoherent`
  compares the ages that the service takes with the true ones: a true age is more than the
  wall clock's by at most `back`, up to the horizon. `newestPlan`, the newest plan of any
  receipt so far, is at most the last ID handed out and no newer than a plan that is held
  (`IdsAreIssued`). That
  a floor makes no throttle out of none (`NeutralStaysNeutral`) is the arithmetic in it.
- **ParkingSessionProofs.** `ReceiptsAreHonest` is the contract's promise, by an
  invariant of its own; `SessionReceiptsAreHonest` carries it over to the inferencer
  with other clients, since every step is one of the contract or leaves it alone.
  `SessionTypeCorrect` types the call, every goroutine and the flags.
  The five properties of `session_safety` follow for any number of
  sessions, goroutines and foreign commands. `SessionInv` says what each section of Start
  and Stop and each goroutine inside `actuationMu` may rely on (`StartFits`, `StopFits`,
  `SectionFits`, `WaiterFits`) and where the evidence of a hold is (`HoldFits`): an
  armed gamepad has somebody who will answer for it, and a session that reports "held" keeps the
  receipt that says so. `StaleGoroutinesDoNoHarm` follows step by step.
- **ControlChannelProofs.** `CommandsStayInOrder` for any history, with restarts and lost
  answers. The strengthening is about the store: it keeps the newest commands without a gap
  (`NewestKept`), so an ID it does not know is older than all it keeps, and going on from
  the oldest never goes back; the rest (`SeenIsLatest`, `AskedFromLatest`,
  `AnswerIsNewer`, `IDsQueued`, `ReconnectsAsRegistered`) follows a poll from its question to
  its answer. `SessionsStartFresh`: whatever the store hands out after a clear has an ID
  above those before it, so the only older one passed on is the answer on its way. The two
  together are `OrderIsKept`.
- **ParkingFeedbackProofs.** One inductive invariant, types and latch and output
  contract together. The lemmas of its first half show that a map with increasing
  positions has an enclosing segment at every point (least segment by well-foundedness)
  and an integer value there. `EffortGrowsGradually` and `SpeedNeverWindsUp` are action
  properties under that invariant, for every gain and limit; neither is in a run.
- **RecorderProofs.** `RecorderInv` says for every session which of process, result and
  waiter is where, and who may hold the result; the recorder's theorems follow for any number
  of callers and recordings. `TripsUseRecorder` shows that `TripCapture` implements
  `Recorder`, step by step, so the same holds (`AttemptsShareOneRecorder`) with the runner,
  the game server, timeouts and restarts around it. The invariants of `TripCapture` itself
  hold for any number of runs, attempts, requests under way and restarts, in four layers:
  - `BaseInv`: types, and which trip, request and session each phase and call goes with.
  - `BarrierInv`: only the active trip of a run gathers telemetry; what is on its way or not
    yet written is of the last trip of its run, because the runner does not go on before
    the answer (`OpenFits`); so rows reach the manifest in order. `BarrierIsHeld`.
  - `WritingInv`: a trip is asked to be finalized once, and whoever is asked was not written
    before, so what is finalized was written exactly once.
  - `RecordingInv`: a start is a request, then a call, then a session, and is one of them
    only; what the runner does not wait for any more is followed by a request that stops it or
    was overtaken by one; requests are served in their order, so a stop finds the session of
    its trip or a stray one. `RecordingsAreAttended` and `CollectedAttemptsAreWhole`.
- **TrainingQueueProofs.** `TrainingInv` adds to the types where the job of each status is
  found (`WhereJobsAre`, the strengthening of `JobsAreReachable` by the worker's steps),
  that directories about to go belong to no job and are still there (so that a new job
  cannot be given their id), what the worker has in hand, and that the stop flag is the
  active job's. The effects of writes, of removals and of a job's end are lemmas
  (`PersistWrites`, `RemoveTreesRemoves`, `FinishEnds`), failures included.
  `ResultsSurviveRestarts` is about one step, the restart, but its reason is in all that
  came before: without a failed write the disk says what memory knows (`WrittenAsKnown`). A
  result that goes when the history is pruned has as many newer ones as the history holds
  that stay; of those that are newer but go, too, the oldest stamp bounds the rest
  (`PrunedForNewer`, by well-foundedness).
- **PredictionWindowsProofs.** `WindowsInv` follows a frame from the line that dates it to the
  plan: a line is read after its frame was captured, and the clock dates frames from the first
  line within the tolerance and the lead (`FrameFits`); the buffer holds the latest frames
  without a gap, so a window's are consecutive (`BufferFits`, `WindowFits`); the worker's rows
  are the nearest to their times within the tolerance (`InputsFit`); and plan, worker, queue and
  consumer hold windows in the order of their frames (`OrderFits`). What the worker saw of
  the telemetry was the newest unless a sample came since (`SeenFits`), and the envelope of
  a start was seen by whoever drives (`EnvelopeFits`). The four properties of `predictions`
  follow for any frames, samples, offsets, tolerances and answers.
- **TripProcessingProofs.** `TripInv` says that a trip which is not shared is one task's at a
  time (`TripsAreHeldOnce`), and for each place of a task what its trip's status and files
  then are (`FilesFit`): from the first step on its files the status says "running", and
  a task that was not forced found no dataset. A crash leaves the status so, which is why
  "completed" can be trusted. For `OnlyForcedRewrites`, which is about shared trips, too,
  `LookFits` adds who may have looked too early: a task neither forced nor overtaken found no
  dataset, there is none until it writes one, and then nobody else is writing. `CountsFit` and `ReportFits` compare counts, statuses and the
  report while nothing failed. To these proofs the samples of a recording may be anything.
  What they are is a matter of `DatasetSamples` alone, and the other half of the module.
  First one sample: `NearestFinds` (the search around the first later row finds the nearest
  row of a range, or that none is within the tolerance) and, by induction over the offsets,
  that a history or a future is dense, in order and within the tolerance
  (`HistoryIsDense`, `FutureIsDense`), that a history is found wherever each of its times has
  a row nearer than half an interval (`HistoryIsFoundIfDense`: the row chosen for one time is
  never past the row the next one needs), and that a sample shows the past of its frame
  and predicts what comes after it (`SamplesLookBack`). Then the lists: what `Kept` leaves of
  a list is what was at the places to keep, in order (`KeptIsAt`), so that frames are in the
  order in which they are shown and no image is of later than its frame, though untimed
  frames shift the numbers (`FramesAreShown`); the inserted rows are in the order of their
  times (`TimedLabelsAreSorted`); every sample was taken at a frame of its own
  (`SamplesAreTaken`, `SamplesDiffer`); and the state that thinning carries along counts what
  it kept of the present standstill and the time of the last (`RunsCount`). With the types of
  `recording` and `dataset` this is `SamplesAreSound` of every dataset that is ever written
  (`DatasetsAreSound`), for any recordings that satisfy `RecordedAssumption`. The inductions
  are carried out by hand, on the least number for which the claim fails (`UpTo`), and so
  is the existence of the recursive functions (`Recursion`).

Every safety property of the passing runs is a theorem. Liveness stays with TLC, as it needs
fairness and ENABLED. Proved and in no run:
`OwnershipCoherent`, `PlanBelongsToArm`, `ReceiptHonest`, the output contract and the two
action properties of the feedback, `FilesAreKept` and `NoJobIsLost` (as parts of
`JobsAreKept` they are), the types, and the parts of `SamplesAreSound` and
`DispatchedInOrder` one by one.

## 6. Where code and its tests or comments disagree

- **Wall clock set back** (`actuator_clock`). A direct command's age is computed
  from text without a monotonic reading, and a negative age is not refused, so that a
  throttle which nobody renews stays applied for as long as the clock was set back. The
  test of the timeout (`service_test.go:176`) says it ends in neutral.
- **A canceled job is trained** (`training_cancel`). The worker takes a job from the queue
  and releases the lock before it marks it as starting, and does not look at its status
  again. `cancel` succeeds in between, the page says "Queued training job canceled."
  (`app.ts:3135`), and the job starts. If the job is deleted in between as well, a
  `KeyError` ends the worker thread with the job still active, and the queue stands still;
  so it does when a write fails at the start or in the handler of errors. `StopEndsJob`
  and `QueueDrains` name that exception.

Nothing in the repository says otherwise of the following, but a reader of the code may not
expect it:

- Plans and telemetry share the wall clock with direct commands: `service.go:582`, `:605` and
  `:686` subtract times that went through `UTC()`. A clock set back keeps an old plan or an
  old speed acceptable for as long as it was set back; only a negative age is refused, that is
  a clock set back beyond the observation or the receipt. `NoExpiredPlanDrives` and
  `HandbrakeNeedsLowSpeed` say by how much.
- A client that registers makes the consumer forget the last ID before it awaits two requests
  (`server.ts:516-521`); a poll in between asks from the beginning and is given the oldest kept
  command, which was executed before. `store_test.go:108` expects just that of a poll
  without an ID. The clear of the queue ends it (`NothingFromBeforeTheClear`).
- Backend and `process-runs` that have the same trip both make its dataset if they looked
  before either wrote it: the second truncates a whole dataset and removes its images
  (`processor.go:1814`), while the status may say "completed".
- A start of a recording that is under way when its abort arrives outlives it (section 4);
  the client's timeout of 20 s makes that possible (`captureControl.ts:108`).
- `/capture/stop` stops whatever records (`main.go:567`), so a stray recording may be ended,
  and queued for processing, in the name of another attempt. The row of the attempt is
  then complete and its video is not queued.
- The check before a plan goes out reads the store twice (`parking_inference_safety.go:171`);
  a sample that arrives in between can vouch for one that it replaced.
- The date of a session's first frame anchors those of the later ones: if it was read
  late, they all are, within the lead of 50 ms that is allowed; but a plan whose
  observation lies ahead of the clock is refused, so such a lead costs plans, not safety.
- The registration of a client stops a recording without an abort: what was recorded is
  queued for processing although its trip was never finalized, and the readiness check
  gives it up after 45 s (`main.go:599`).

## 7. Not modelled

Floating point (percents and whole units instead; NaN is refused like any value out of
range). What ffmpeg, the Python model and the game do (any exit, any prediction, any
sample). File formats, HTML, routes and command-line parsing. Tensors and training.

Adjustments of the wall clock are in `ParkingActuator` alone: `PredictionWindows` dates frames,
samples and plans on one clock that only goes forward, although inference.go and the
store take wall-clock times as well; `ParkingSession` and the others have no clock.

Of the modelled parts: images, features, model description and loading of a prediction;
of the dataset, the values of labels beyond the speed change, the fields of the report's
statistics, `report-runs`, several runs and scenes, two calls of `process-runs` at once, and
a game server that dies inside a row; of the trips, several chunks, the ten minutes for
which a finalisation is remembered, and how an attempt is driven and judged; of the
actuator, live tuning as state; of the backend, its shutdown, which does not stop an active
inference process or recording (the session model contains that shutdown, and nothing in the
repository promises more).

Known hazards without a property, since they lie outside the models: `SaveTuning` writes its
file without the lock and a concurrent `ApplyTuning` may be overwritten in the saved copy
(`actuator/service.go:843`); `LoadConfig` relates neither hold speed to speed limit nor
`MaxDT` to the tick rate (`actuator/config.go:351`); on a signal `main` closes server and
gamepad without stopping inference or capture (`main.go:641`); if `job.json` cannot be
written after the process was started, the job ends but not its process
(`training_runtime.py:761`), and a worker thread that died leaves the queue standing
(section 6). The windup of an integrator at its limit (`pi.go:17`) is the matter of the
theorem `SpeedNeverWindsUp` alone.

Everything under "Left" in section 2 until it is built. Each component's row in
PROJECT.json names what of it is left out.
