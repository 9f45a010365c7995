------------------------------ MODULE TripCapture ------------------------------
(***************************************************************************)
(* One recorded attempt after the other: the parking runner of the client  *)
(* (fivem/src/parking/runner.ts) asks the FiveM server to record, finalize *)
(* and stop (captureControl.ts), the server gathers the telemetry, writes  *)
(* it (server.ts) and calls the recorder of the backend over HTTP          *)
(* (backend/cmd/main.go), which is the Recorder this module extends.       *)
(*                                                                         *)
(* Every request has a timeout at the client only: the server goes on with *)
(* what was given up.  Its handlers run concurrently, each over an HTTP    *)
(* request of its own, which is a caller of Recorder.  The requests of a   *)
(* client arrive in their order; that the server does not count on for the *)
(* telemetry, but waits for it, so it may come later here.                 *)
(***************************************************************************)
EXTENDS Recorder, FiniteSets, Sequences, SequencesExt

CONSTANTS
  Starters,     \* bound: requests of /capture/start that overlap
  Stoppers,     \* bound: requests of /capture/stop that overlap
  Attempts,     \* how many attempts each call of startParkingRun asks for
  MaxFaults,    \* bound: file operations of the server that fail
  MaxRestarts   \* bound: restarts of the client or of the whole resource

ASSUME CaptureAssumption ==
  /\ Attempts \in Seq(Nat \ {0}) /\ MaxFaults \in Nat /\ MaxRestarts \in Nat
  /\ Callers = Starters \cup Stoppers /\ Starters \cap Stoppers = {}

VARIABLES
  runner,      \* the client: phase of the attempt, its trip, stopRequested, and
               \* what came back for the request that it waits for
  requests,    \* events on their way to the server, in their order
  telemetry,   \* the trips whose telemetry is on its way
  server,      \* its pendingTrips, activeTripByStream, finalizeInFlightTrips, finalizedTripResults
  written,     \* metadata.json, and the lines of run.jsonl and of the manifest
  serving,     \* the event that each HTTP request serves
  cancelled,   \* stop requests whose connection was closed
  recorded,    \* the trip whose video each session of the recorder writes
  queued,      \* trips handed to post-processing
  collected,   \* history: attempts that runAttempt returned
  overtaken,   \* history: trips whose start was under way when an abort was carried out
  faults, restarts

clientVars  == <<runner, collected>>
eventVars   == <<requests, telemetry>>
serverVars  == <<server, written, faults>>
backendVars == <<serving, cancelled, recorded, queued, overtaken>>
tripVars    == <<recorderVars, clientVars, eventVars, serverVars, backendVars, restarts>>

Runs    == DOMAIN Attempts
Trips   == UNION {[run : {r}, index : 1..Attempts[r]] : r \in Runs}
NoTrip  == [run |-> 0, index |-> 0]
Awaiting == {"start", "finalize", "stop", "abort"}
Phases  == {"idle", "neutralize", "spawn", "flash", "record"} \cup Awaiting

Event(kind, trip) == [kind |-> kind, trip |-> trip]

Events == [kind : Awaiting, trip : Trips] \cup {Event("register", NoTrip)}

RunnerStates == [phase : Phases, stopRequested : BOOLEAN, reply : {"none", "ok", "error"},
                 trip : [run : 0..Len(Attempts), index : Nat]]
Memories     == [pending : SUBSET Trips, active : [Runs -> Nat],
                 finalizing : SUBSET Trips, finalized : SUBSET Trips]
Files        == [metadata : SUBSET Trips, rows : Seq(Trips), manifest : Seq(Trips)]

TripTypeOK ==
  /\ RecorderTypeOK
  /\ runner \in RunnerStates /\ requests \in Seq(Events) /\ telemetry \subseteq Trips
  /\ server \in Memories /\ written \in Files
  /\ serving \in [Callers -> Events]
  /\ cancelled \subseteq Callers
  /\ recorded \in [Captures -> Trips \cup {NoTrip}]
  /\ queued \subseteq Trips /\ collected \subseteq Trips /\ overtaken \subseteq Trips
  /\ faults \in 0..MaxFaults /\ restarts \in 0..MaxRestarts

NoMemory == [pending |-> {}, active |-> [r \in Runs |-> 0], finalizing |-> {}, finalized |-> {}]

AtRest(trip) == [phase |-> "idle", stopRequested |-> FALSE, reply |-> "none", trip |-> trip]

TripInit ==
  /\ RecorderInit
  /\ runner = AtRest(NoTrip)
  /\ requests = <<>> /\ telemetry = {} /\ collected = {} /\ overtaken = {}
  /\ server = NoMemory
  /\ written = [metadata |-> {}, rows |-> <<>>, manifest |-> <<>>]
  /\ serving = [c \in Callers |-> Event("register", NoTrip)] /\ cancelled = {}
  /\ recorded = [s \in Captures |-> NoTrip] /\ queued = {}
  /\ faults = 0 /\ restarts = 0

-----------------------------------------------------------------------------
(* The runner.  Its ticks and awaits take what time they take.             *)
Goto(phase) == runner' = [runner EXCEPT !.phase = phase, !.reply = "none"]

EndRun == runner' = AtRest(runner.trip)

Ask(kind) ==
  /\ Goto(kind)
  /\ requests' = Append(requests, Event(kind, runner.trip))
  /\ telemetry' = IF kind = "finalize" THEN telemetry \cup {runner.trip} ELSE telemetry

RunBegin ==
  /\ runner.phase = "idle" /\ runner.trip.run < Len(Attempts)
  /\ runner' = [AtRest([run |-> runner.trip.run + 1, index |-> 0]) EXCEPT !.phase = "neutralize"]
  /\ UNCHANGED <<eventVars, collected>>

RequestStop ==
  /\ runner.phase # "idle" /\ ~runner.stopRequested
  /\ runner' = [runner EXCEPT !.stopRequested = TRUE]
  /\ UNCHANGED <<eventVars, collected>>

NextAttempt ==
  IF runner.stopRequested \/ runner.trip.index = Attempts[runner.trip.run]
  THEN EndRun
  ELSE runner' = [runner EXCEPT !.phase = "spawn", !.reply = "none", !.trip.index = @ + 1]

(* requestExpertInputNeutralization is answered, refused or times out.     *)
Neutralized ==
  /\ runner.phase = "neutralize"
  /\ NextAttempt \/ EndRun
  /\ UNCHANGED <<eventVars, collected>>

Spawned ==
  /\ runner.phase = "spawn"
  /\ \/ Ask("start")
     \/ EndRun /\ UNCHANGED eventVars
  /\ UNCHANGED collected

Flashed ==
  /\ runner.phase = "flash"
  /\ Goto("record")
  /\ UNCHANGED <<eventVars, collected>>

(* The outcome is there: the telemetry is sent, and asked to be finalized. *)
AttemptEnds ==
  /\ runner.phase = "record"
  /\ Ask("finalize")
  /\ UNCHANGED collected

Acknowledged(kind) == runner.phase = kind /\ runner.reply = "ok"

Started == Acknowledged("start") /\ Goto("flash") /\ UNCHANGED <<eventVars, collected>>

Finalized == Acknowledged("finalize") /\ Ask("stop") /\ UNCHANGED collected

Collected ==
  /\ Acknowledged("stop")
  /\ collected' = collected \cup {runner.trip}
  /\ NextAttempt
  /\ UNCHANGED eventVars

(* A fault to be caught: only a recording that was acknowledged is aborted.*)
AttemptFailsAsRoute ==
  /\ \/ runner.phase \in {"flash", "record"}
     \/ runner.phase \in Awaiting \ {"abort"} /\ runner.reply # "ok"
  /\ IF runner.phase = "start" THEN EndRun /\ UNCHANGED eventVars ELSE Ask("abort")
  /\ UNCHANGED collected

(* A native that throws, a request that is refused or times out: once the  *)
(* start was asked for, the recording is aborted, acknowledged or not.     *)
AttemptFails ==
  /\ \/ runner.phase \in {"flash", "record"}
     \/ runner.phase \in Awaiting \ {"abort"} /\ runner.reply # "ok"
  /\ Ask("abort")
  /\ UNCHANGED collected

(* Whatever became of the abort, the error ends the run.                   *)
Aborted ==
  /\ runner.phase = "abort"
  /\ EndRun
  /\ UNCHANGED <<eventVars, collected>>

RunnerGoesOn ==
  \/ Neutralized \/ Spawned \/ Started \/ Flashed \/ AttemptEnds
  \/ Finalized \/ Collected \/ AttemptFails \/ Aborted

Client ==
  /\ RunBegin \/ RequestStop \/ RunnerGoesOn
  /\ UNCHANGED <<recorderVars, serverVars, backendVars, restarts>>

-----------------------------------------------------------------------------
(* The server's memory and files.  An answer reaches the client if that    *)
(* still waits for it.                                                     *)
Receive(event) ==
  /\ requests # <<>> /\ Head(requests) = event
  /\ requests' = Tail(requests) /\ UNCHANGED telemetry

Reply(kind, trip, ok) ==
  runner' = IF runner.phase = kind /\ runner.trip = trip
            THEN [runner EXCEPT !.reply = IF ok THEN "ok" ELSE "error"] ELSE runner

Fault == faults < MaxFaults /\ faults' = faults + 1

(* ego:vehicleData: refused while another trip of the run is active.       *)
MayGather(t) == server.active[t.run] \in {0, t.index}

Gather(t) ==
  server' = IF t \in server.finalized \/ ~MayGather(t) THEN server
            ELSE [server EXCEPT !.pending = @ \cup {t}, !.active[t.run] = t.index]

ChunkArrives(t) ==
  /\ t \in telemetry /\ telemetry' = telemetry \ {t}
  /\ \/ Gather(t) /\ UNCHANGED faults
     \/ Fault /\ UNCHANGED server
  /\ UNCHANGED <<runner, requests, written>>

FinalizeArrives(t) ==
  /\ Receive(Event("finalize", t))
  /\ server' = [server EXCEPT !.finalizing = @ \cup {t}]
  /\ UNCHANGED <<runner, written, faults>>

(* A fault to be caught: the next trip of the run finds the last one still *)
(* active.                                                                 *)
RememberActive(t) ==
  server' = [server EXCEPT !.finalizing = @ \ {t}, !.pending = @ \ {t}, !.finalized = @ \cup {t}]

Remember(t) ==
  server' = [server EXCEPT !.finalizing = @ \ {t}, !.pending = @ \ {t},
                           !.finalized = @ \cup {t}, !.active[t.run] = 0]

WithMetadata(t) == [written EXCEPT !.metadata = @ \cup {t}]
WithRow(t)      == [WithMetadata(t) EXCEPT !.rows = Append(@, t)]
WithManifest(t) == [WithRow(t) EXCEPT !.manifest = Append(@, t)]

(* flushTrip, once the telemetry is there; it throws where a write fails.  *)
FlushTrip(t) ==
  /\ t \in server.finalizing /\ t \in server.pending
  /\ \/ /\ written' = WithManifest(t)
        /\ Remember(t) /\ Reply("finalize", t, TRUE)
        /\ UNCHANGED faults
     \/ /\ Fault
        /\ written' \in {written, WithMetadata(t), WithRow(t)}
        /\ server' = [server EXCEPT !.finalizing = @ \ {t}]
        /\ Reply("finalize", t, FALSE)
  /\ UNCHANGED eventVars

(* The telemetry did not come for tripFinalizeWaitMs.                      *)
FinalizeGivesUp(t) ==
  /\ t \in server.finalizing \ server.pending
  /\ server' = [server EXCEPT !.finalizing = @ \ {t}]
  /\ Reply("finalize", t, FALSE)
  /\ UNCHANGED <<eventVars, written, faults>>

(* capture:stopRequest for a trip that was not finalized.                  *)
RefuseStop(t) ==
  /\ t \notin server.finalized
  /\ Receive(Event("stop", t))
  /\ Reply("stop", t, FALSE)
  /\ UNCHANGED <<server, written, faults>>

Server ==
  /\ \E t \in Trips : \/ ChunkArrives(t) \/ FinalizeArrives(t)
                      \/ FlushTrip(t) \/ FinalizeGivesUp(t) \/ RefuseStop(t)
  /\ UNCHANGED <<recorderVars, collected, backendVars, restarts>>

-----------------------------------------------------------------------------
(* The server's calls of /capture/start and /capture/stop.                 *)
Free(slots) == {c \in slots : call[c] = "idle"}

(* Which of the free slots serves a request is of no account.              *)
FirstFree(slots) == CHOOSE c \in Free(slots) : TRUE

Serve(c, e) == Receive(e) /\ serving' = [serving EXCEPT ![c] = e]

StartArrives(t) ==
  /\ Free(Starters) # {}
  /\ LET c == FirstFree(Starters) IN StartBegin(c) /\ Serve(c, Event("start", t))
  /\ UNCHANGED <<runner, cancelled, recorded, queued, overtaken>>

StartReturns(c) ==
  /\ StartProcess(c) \/ StartRefused(c) \/ StartFails(c)
  /\ Reply("start", serving[c].trip, result'[c] = "started")
  /\ recorded' = IF result'[c] = "started"
                 THEN [recorded EXCEPT ![active'] = serving[c].trip] ELSE recorded
  /\ UNCHANGED <<eventVars, serving, cancelled, queued, overtaken>>

(* A stop is served for a finalized trip, an abort and the stop of a       *)
(* client that registers always.                                           *)
MayStop(e) == \/ e.kind \in {"abort", "register"}
              \/ e.kind = "stop" /\ e.trip \in server.finalized

(* A fault to be caught: whoever stops is content when nothing records.    *)
SucceededIfNothingRuns(c, e) == result'[c] \in {"stopped", "notRunning"}

(* What the caller of /capture/stop makes of its result: for an abort,     *)
(* "not running" will do.                                                  *)
Succeeded(c, e) == \/ result'[c] = "stopped"
                   \/ e.kind = "abort" /\ result'[c] = "notRunning"

(* Post-processing gets the directory of the session that was stopped.     *)
Queued(c, e) ==
  IF e.kind # "abort" /\ result'[c] = "stopped" THEN queued \cup {recorded[target[c]]} ELSE queued

StopAnswered(c, e) ==
  IF call'[c] = "idle" THEN Reply(e.kind, e.trip, Succeeded(c, e)) /\ queued' = Queued(c, e)
                       ELSE UNCHANGED <<runner, queued>>

(* The trips whose start is under way at the recorder.                     *)
BeingStarted == {serving[c].trip : c \in {d \in Starters : call[d] = "starting"}}

StopArrives(e) ==
  /\ MayStop(e) /\ Free(Stoppers) # {}
  /\ LET c == FirstFree(Stoppers) IN StopBegin(c) /\ Serve(c, e) /\ StopAnswered(c, e)
  /\ overtaken' = IF e.kind = "stop" THEN overtaken ELSE overtaken \cup BeingStarted
  /\ UNCHANGED <<cancelled, recorded>>

StopGoesOn(c) ==
  /\ \/ StopDone(c) \/ StopTimer(c)
     \/ c \in cancelled /\ StopCancelled(c)
  /\ StopAnswered(c, serving[c])
  /\ cancelled' = IF call'[c] = "idle" THEN cancelled \ {c} ELSE cancelled
  /\ UNCHANGED <<eventVars, serving, recorded, overtaken>>

CaptureCalls ==
  /\ \/ \E t \in Trips : StartArrives(t)
     \/ \E c \in Starters : StartReturns(c)
     \/ requests # <<>> /\ StopArrives(Head(requests))
     \/ \E c \in Stoppers : StopGoesOn(c)
  /\ UNCHANGED <<collected, serverVars, restarts>>

(* ffmpeg ends when it was asked to, or by itself; its waiter goes on.     *)
Process ==
  /\ \E s \in Captures : ProcessExits(s) \/ Waiter(s)
  /\ UNCHANGED <<clientVars, eventVars, serverVars, backendVars, restarts>>

-----------------------------------------------------------------------------
(* Restarts: the new client registers, and the server stops what records.  *)
Restart ==
  /\ restarts < MaxRestarts /\ restarts' = restarts + 1
  /\ runner' = AtRest(runner.trip)
  /\ UNCHANGED <<recorderVars, collected, written, faults, serving, recorded, queued, overtaken>>

ClientRestarts ==
  /\ Restart
  /\ requests' = Append(requests, Event("register", NoTrip))
  /\ UNCHANGED <<telemetry, server, cancelled>>

ResourceRestarts ==
  /\ Restart
  /\ requests' = <<Event("register", NoTrip)>> /\ telemetry' = {}
  /\ server' = NoMemory
  /\ cancelled' = cancelled \cup {c \in Stoppers : call[c] # "idle"}

TripNext == Client \/ Server \/ CaptureCalls \/ Process \/ ClientRestarts \/ ResourceRestarts

TripSpec == TripInit /\ [][TripNext]_tripVars

(* The runner's ticks and timers run, and the timers of a stop fire.       *)
(* Nothing is assumed of the server's answers, of ffmpeg or of its waiter. *)
FairTripSpec ==
  /\ TripSpec
  /\ WF_runner(RunnerGoesOn)
  /\ \A c \in Stoppers : WF_recorderVars(StopTimer(c))

-----------------------------------------------------------------------------
RecordingsOf(t) == {s \in Captures : recorded[s] = t}
Count(t, file) == Cardinality({i \in DOMAIN file : file[i] = t})

(* Recordings that began after what was to stop them.                      *)
Strays == {s \in Captures : recorded[s] \in overtaken}

(* An attempt that the runner counts is whole: its telemetry, its row and  *)
(* its line of the manifest were written once, it was recorded once, and   *)
(* that recording is over and was the one its stop handed to processing,   *)
(* unless a stray one took its place meanwhile.                            *)
CollectedIsWhole ==
  \A t \in collected :
    /\ t \in written.metadata
    /\ Count(t, written.rows) = 1 /\ Count(t, written.manifest) = 1
    /\ Cardinality(RecordingsOf(t)) = 1
    /\ \A s \in RecordingsOf(t) : process[s] = "exited"
    /\ t \in queued \/ Strays # {}

(* Nothing records unattended: the attempt of a running recording goes on  *)
(* at the runner, or something that stops it is on its way.  The exception *)
(* is a start that was still under way when its abort, or the stop of the  *)
(* client's restart, was carried out and found nothing to stop.            *)
Attended(s) ==
  \/ runner.trip = recorded[s] /\ runner.phase \in {"flash", "record"} \cup Awaiting
  \/ \E e \in Range(requests) : e.kind \in {"abort", "register"}
  \/ \E c \in Stoppers : call[c] # "idle" /\ target[c] = s

NothingRecordsUnattended ==
  \A s \in Captures : process[s] = "running" => Attended(s) \/ s \in Strays

(* The finalize-trip barrier is never bypassed: no telemetry comes while   *)
(* an earlier trip of the run is active, and so the manifest has each run's*)
(* attempts in order.                                                      *)
BarrierHolds ==
  /\ \A t \in telemetry \ server.finalized : MayGather(t)
  /\ \A i, j \in DOMAIN written.manifest :
       i < j /\ written.manifest[i].run = written.manifest[j].run
         => written.manifest[i].index < written.manifest[j].index

(* Every run of the client ends and every stop of the recorder returns,    *)
(* whatever is lost, refused or never answered: also the stop whose result *)
(* another one has taken and the one whose process ignores that it was     *)
(* asked to quit (startParkingRun, stop).                                  *)
EverythingReturns ==
  /\ runner.phase # "idle" ~> runner.phase = "idle"
  /\ \A c \in Stoppers : call[c] # "idle" ~> call[c] = "idle"
=============================================================================
