---------------------------- MODULE TripProcessing ----------------------------
(***************************************************************************)
(* Processing of recorded trips into datasets: after /capture/stop a       *)
(* goroutine of the backend processes the trip (backend/cmd/main.go), and  *)
(* the command process-runs processes all trips with its own workers       *)
(* (backend/internal/dataset/batch.go); both use the Processor of          *)
(* processor.go on the files of the trip's directory, with no lock between *)
(* them.  The FiveM server appends the trip's row to the run file run.jsonl*)
(* meanwhile.  Each step below is one access to the files.                 *)
(*                                                                         *)
(* All trips are of one scene of one run.  A trip's live goroutine is      *)
(* named by the trip, so the tasks are the trips and the workers.          *)
(***************************************************************************)
EXTENDS DatasetSamples

CONSTANTS
  NumTrips,      \* trips 1..NumTrips, in the order of their names
  Workers,       \* of process-runs
  Recorded,      \* what may have been recorded: a sequence of [video, rows, syncTime]
  MaxBatches,    \* bound: times process-runs is called
  MaxFaults,     \* bound: file operations and tools that fail
  MaxCrashes     \* bound: processes that die

Trips == 1..NumTrips
Tasks == Trips \cup Workers
Recordings == DOMAIN Recorded

ASSUME TripAssumption ==
  /\ NumTrips \in Nat \ {0} /\ MaxBatches \in Nat /\ MaxFaults \in Nat /\ MaxCrashes \in Nat
  /\ Workers \cap Trips = {} /\ Workers # {} /\ IsFiniteSet(Workers)

(* What may be recorded: frames in the order in which they are shown, as   *)
(* ffprobe lists them, and rows in any order, each with one time at most.  *)
Video == [pts : Int, timed : BOOLEAN, flash : BOOLEAN]
Telemetry == [time : SUBSET Int, stopped : BOOLEAN, speed : SUBSET Int, yaw : BOOLEAN,
              yawRate : BOOLEAN, route : BOOLEAN]

ASSUME RecordedAssumption ==
  \A r \in Recordings :
    /\ Recorded[r].video \in Seq(Video)
    /\ \A i, j \in DOMAIN Recorded[r].video :
         i < j => Recorded[r].video[i].pts <= Recorded[r].video[j].pts
    /\ Recorded[r].rows \in Seq(Telemetry) /\ Recorded[r].syncTime \in Int
    /\ \A i \in DOMAIN Recorded[r].rows : \A a, b \in Recorded[r].rows[i].time : a = b

VARIABLES
  recording,  \* which of the recordings each trip's video and row hold
  limits,     \* the workers, and how many batches, faults and crashes there may be
  runFile,   \* the rows of run.jsonl: whose, and whether written to the end
  status,     \* state in processing.json
  images,     \* of frames/: which of the frames have an image
  dataset,    \* dataset.jsonl; current: no image it names was removed since
  task,       \* where each task stands, with which trip
  batch,      \* the call of process-runs under way
  counted,    \* what it counted each trip as
  report,     \* the run's dataset report, <<>> before the first
  shared,     \* history: trips a worker took while the backend had them
  faults, crashes \* so far

given == <<recording, limits>>
files == <<status, images, dataset, faults>>
runs  == <<batch, counted, report, shared>>
tripVars == <<given, runFile, files, task, runs, crashes>>

AtRest == {"over", "late", "done"}
Processing == {"start", "probe", "clear", "extract", "read", "write", "fill", "finish"}

Task(trip, pc, force, only) ==
  [trip |-> trip, pc |-> pc, force |-> force, only |-> only, ok |-> TRUE,
   seen |-> "none", intact |-> TRUE, overtaken |-> FALSE]

Places    == AtRest \cup Processing \cup {"capturing", "waiting", "idle", "queue"}
TaskStates == [trip : Trips, force : BOOLEAN, only : BOOLEAN, ok : BOOLEAN, pc : Places,
               seen : {"none", "some", "all"}, intact : BOOLEAN, overtaken : BOOLEAN]
Statuses  == {"none", "torn", "queued", "skipped", "running", "completed", "failed"}
Datasets  == [file : {"none", "cut", "torn", "whole"}, from : {"none", "some", "all"}, current : BOOLEAN]
Batches   == [state : {"idle", "running", "reporting", "done"}, force : BOOLEAN,
              only : BOOLEAN, todo : SUBSET Trips, number : 0..MaxBatches]
Limits    == [workers : SUBSET Workers, batches : 0..MaxBatches, faults : 0..MaxFaults, crashes : 0..MaxCrashes]

TripTypeOK ==
  /\ recording \in [Trips -> Recordings] /\ limits \in Limits
  /\ runFile \in Seq([trip : Trips, whole : BOOLEAN])
  /\ status \in [Trips -> Statuses]
  /\ images \in [Trips -> {"none", "some", "all"}]
  /\ dataset \in [Trips -> Datasets]
  /\ task \in [Tasks -> TaskStates] /\ batch \in Batches
  /\ counted \in [Trips -> {"none", "completed", "skipped", "failed"}]
  /\ shared \subseteq Trips
  /\ faults \in 0..limits.faults /\ crashes \in 0..limits.crashes

(* Some trips are still being recorded, the recording of the others was    *)
(* aborted; the rows of some are written.                                  *)
StartWith(recorded, capturing, rows, most) ==
  /\ recording = recorded /\ limits = most
  /\ runFile = [i \in DOMAIN rows |-> [trip |-> rows[i], whole |-> TRUE]]
  /\ status = [t \in Trips |-> "none"]
  /\ images = [t \in Trips |-> "none"]
  /\ dataset = [t \in Trips |-> [file |-> "none", from |-> "none", current |-> TRUE]]
  /\ task = [p \in Tasks |->
               IF p \in Workers THEN Task(1, "idle", FALSE, FALSE)
               ELSE Task(p, IF p \in capturing THEN "capturing" ELSE "over", FALSE, FALSE)]
  /\ batch = [state |-> "idle", force |-> FALSE, only |-> FALSE, todo |-> {}, number |-> 0]
  /\ counted = [t \in Trips |-> "none"]
  /\ report = <<>> /\ shared = {} /\ faults = 0 /\ crashes = 0

TripInit ==
  \E recorded \in [Trips -> Recordings] :
    StartWith(recorded, Trips, <<>>, [workers |-> Workers, batches |-> MaxBatches, faults |-> MaxFaults, crashes |-> MaxCrashes])

-----------------------------------------------------------------------------
(* Files.                                                                  *)
Fault == faults < limits.faults /\ faults' = faults + 1

(* os.WriteFile truncates first, so a failure may leave no valid file.     *)
WriteStatus(t, state) == status' = [status EXCEPT ![t] = state] /\ UNCHANGED faults

WriteStatusFails(t) == Fault /\ status' \in {status, [status EXCEPT ![t] = "torn"]}

(* The images that are there: all, or of a video or an extraction that was *)
(* cut short the first ones.                                               *)
Extents == {"none", "some", "all"}

ImagesOf(r, extent) ==
  1..(CASE extent = "all" -> Len(Recorded[r].video) [] extent = "some" -> Len(Recorded[r].video) - 2 [] OTHER -> 0)

FramesOf(r, extent) == FramesWithImages(Recorded[r].video, ImagesOf(r, extent))

FlashOf(r, extent) == SyncFlash(Recorded[r].video, FramesOf(r, extent))

(* The recordings with frames, and those with a flash in the images left.  *)
Filmed == {r \in Recordings : FramesOf(r, "all") # <<>>}

Synced == [extent \in Extents |-> {r \in Recordings : FlashOf(r, extent) # 0}]

LabelsOf(r) == TimedLabels(Recorded[r].rows, Recorded[r].syncTime)

(* What a recording with those images gives before and after thinning.     *)
AllSamples == [r \in Recordings |-> [extent \in Extents |->
  IF FlashOf(r, extent) = 0 THEN <<>>
  ELSE DatasetSamples(FramesOf(r, extent), LabelsOf(r), FlashOf(r, extent))]]

Samples == [r \in Recordings |-> [extent \in Extents |->
  ThinStopped(AllSamples[r][extent], LabelsOf(r))]]

(* loadRunTripRecord gives up at a row it cannot parse.                    *)
RecordFound(t) ==
  \E i \in DOMAIN runFile :
    runFile[i].trip = t /\ \A j \in 1..i : runFile[j].whole

(* metadata.json is written right before the row.                          *)
MetadataThere(t) == \E i \in DOMAIN runFile : runFile[i].trip = t

(* A fault to be caught: it looks for the images only.                     *)
ShouldSkipWithImages(p) == ~task[p].only /\ images[task[p].trip] # "none"

ShouldSkip(p) ==
  \/ dataset[task[p].trip].file # "none"
  \/ ~task[p].only /\ images[task[p].trip] # "none"

Goto(p, pc) == task' = [task EXCEPT ![p].pc = pc]
Fail(p) == task' = [task EXCEPT ![p].pc = "finish", ![p].ok = FALSE]

-----------------------------------------------------------------------------
(* Queue, and the steps of ProcessTrip.                                    *)
QueueState(p) == IF ~task[p].force /\ ShouldSkip(p) THEN "skipped" ELSE "queued"

Skip(p) ==
  /\ task[p].pc = "start" /\ ~task[p].force /\ ShouldSkip(p)
  /\ \/ WriteStatus(task[p].trip, "skipped") /\ Goto(p, "done")
     \/ WriteStatusFails(task[p].trip) /\ task' = [task EXCEPT ![p].pc = "done", ![p].ok = FALSE]
  /\ UNCHANGED <<given, runFile, images, dataset, runs, crashes>>

Begin(p) ==
  /\ task[p].pc = "start" /\ (task[p].force \/ ~ShouldSkip(p))
  /\ \/ WriteStatus(task[p].trip, "running") /\ Goto(p, "probe")
     \/ WriteStatusFails(task[p].trip) /\ task' = [task EXCEPT ![p].pc = "done", ![p].ok = FALSE]
  /\ UNCHANGED <<given, runFile, images, dataset, runs, crashes>>

(* The files are there, and ffprobe lists frames.                          *)
Probe(p) ==
  /\ task[p].pc = "probe"
  /\ \/ /\ MetadataThere(task[p].trip)
        /\ recording[task[p].trip] \in Filmed
        /\ Goto(p, IF task[p].only THEN "read" ELSE "clear")
        /\ UNCHANGED faults
     \/ /\ \/ ~MetadataThere(task[p].trip)
           \/ recording[task[p].trip] \notin Filmed
        /\ Fail(p) /\ UNCHANGED faults
     \/ Fault /\ Fail(p)
  /\ UNCHANGED <<given, runFile, status, images, dataset, runs, crashes>>

(* RemoveAll and MkdirAll.  What names the images is no longer current.    *)
RemoveImages(p, left, pc, ok) ==
  LET t == task[p].trip
  IN /\ images' = [images EXCEPT ![t] = left]
     /\ dataset' = [dataset EXCEPT ![t].current = FALSE]
     /\ task' = [q \in Tasks |->
                   IF q = p THEN [task[q] EXCEPT !.pc = pc, !.ok = ok]
                   ELSE IF task[q].trip = t /\ task[q].pc = "write" THEN [task[q] EXCEPT !.intact = FALSE]
                   ELSE task[q]]

Clear(p) ==
  /\ task[p].pc = "clear"
  /\ \/ RemoveImages(p, "none", "extract", TRUE) /\ UNCHANGED faults
     \/ /\ Fault
        /\ \E left \in {images[task[p].trip], "some"} : RemoveImages(p, left, "finish", FALSE)
  /\ UNCHANGED <<given, runFile, status, runs, crashes>>

(* ffmpeg, which runs for a while.  A video that is still being recorded   *)
(* is cut short.                                                           *)
ExtractWrites(p) ==
  /\ task[p].pc = "extract" /\ images[task[p].trip] = "none"
  /\ images' = [images EXCEPT ![task[p].trip] = "some"]
  /\ UNCHANGED <<given, runFile, status, dataset, faults, task, runs, crashes>>

ExtractEnds(p) ==
  /\ task[p].pc = "extract"
  /\ \/ /\ images' = [images EXCEPT ![task[p].trip] =
                        IF task[task[p].trip].pc = "capturing" THEN "some" ELSE "all"]
        /\ Goto(p, "read") /\ UNCHANGED faults
     \/ Fault /\ Fail(p) /\ UNCHANGED images
  /\ UNCHANGED <<given, runFile, status, dataset, runs, crashes>>

(* The frames with images, the flash among them (in none if there are      *)
(* none), and the row of the trip.                                         *)
Read(p) ==
  LET t == task[p].trip
      usable == recording[t] \in Synced[images[t]] /\ RecordFound(t)
  IN /\ task[p].pc = "read"
     /\ IF usable THEN task' = [task EXCEPT ![p].pc = "write", ![p].seen = images[t], ![p].intact = TRUE]
        ELSE Fail(p)
     /\ UNCHANGED <<given, runFile, files, runs, crashes>>

(* os.Create truncates dataset.jsonl, then a line per sample is written:   *)
(* "cut" stands for any number of whole lines, "torn" for a last line that *)
(* is not whole.  History: who has looked for a dataset of that trip       *)
(* before is overtaken.                                                    *)
Overtakes(p, q) == q # p /\ task[q].trip = task[p].trip /\ task[q].pc \in Processing \ {"start"}

Write(p) ==
  /\ task[p].pc = "write"
  /\ \/ /\ dataset' = [dataset EXCEPT ![task[p].trip] =
                         [file |-> "cut", from |-> task[p].seen, current |-> task[p].intact]]
        /\ task' = [q \in Tasks |->
                      IF q = p THEN [task[q] EXCEPT !.pc = "fill"]
                      ELSE IF Overtakes(p, q) THEN [task[q] EXCEPT !.overtaken = TRUE] ELSE task[q]]
        /\ UNCHANGED faults
     \/ Fault /\ Fail(p) /\ UNCHANGED dataset
  /\ UNCHANGED <<given, runFile, status, images, runs, crashes>>

(* A fault to be caught: an error of the writer is not noticed.            *)
FillUnchecked(p) ==
  /\ task[p].pc = "fill"
  /\ \/ dataset' = [dataset EXCEPT ![task[p].trip].file = "whole"] /\ UNCHANGED faults
     \/ Fault /\ dataset' = [dataset EXCEPT ![task[p].trip].file = "torn"]
  /\ Goto(p, "finish")
  /\ UNCHANGED <<given, runFile, status, images, runs, crashes>>

Fill(p) ==
  /\ task[p].pc = "fill"
  /\ \/ /\ dataset' = [dataset EXCEPT ![task[p].trip].file = "whole"]
        /\ Goto(p, "finish") /\ UNCHANGED faults
     \/ /\ Fault /\ Fail(p)
        /\ \E file \in {"cut", "torn"} : dataset' = [dataset EXCEPT ![task[p].trip].file = file]
  /\ UNCHANGED <<given, runFile, status, images, runs, crashes>>

(* The deferred write of the status, whose errors are ignored.             *)
Finish(p) ==
  /\ task[p].pc = "finish"
  /\ \/ WriteStatus(task[p].trip, IF task[p].ok THEN "completed" ELSE "failed")
     \/ WriteStatusFails(task[p].trip)
  /\ Goto(p, "done")
  /\ UNCHANGED <<given, runFile, images, dataset, runs, crashes>>

ProcessTrip(p) ==
  \/ Skip(p) \/ Begin(p) \/ Probe(p) \/ Clear(p) \/ ExtractWrites(p) \/ ExtractEnds(p)
  \/ Read(p) \/ Write(p) \/ Fill(p) \/ Finish(p)

-----------------------------------------------------------------------------
(* The backend: /capture/stop, or an abort of the capture, which leaves    *)
(* the trip alone.  The goroutine waits for the files up to 45 s.          *)
CaptureStop(t) ==
  /\ task[t].pc = "capturing"
  /\ \/ WriteStatus(t, QueueState(t)) /\ Goto(t, "waiting")
     \/ WriteStatusFails(t) /\ Goto(t, "over")
     \/ Goto(t, "over") /\ UNCHANGED <<status, faults>>
  /\ UNCHANGED <<given, runFile, images, dataset, runs, crashes>>

(* A fault to be caught: it only looks for the files.                      *)
ReadyWithFiles(t) == MetadataThere(t) /\ runFile # <<>>

(* checkTripReadiness                                                      *)
Ready(t) == MetadataThere(t) /\ RecordFound(t)

ReadinessSeen(t) ==
  /\ task[t].pc = "waiting" /\ Ready(t)
  /\ Goto(t, "start")
  /\ UNCHANGED <<given, runFile, files, runs, crashes>>

ReadinessTimesOut(t) ==
  /\ task[t].pc = "waiting" /\ ~Ready(t)
  /\ Goto(t, "late")
  /\ UNCHANGED <<given, runFile, files, runs, crashes>>

(* The FiveM server: metadata.json, then the row, which a reader may see   *)
(* half written.  One trip after the other.                                *)
RowBegins(t) ==
  /\ ~MetadataThere(t)
  /\ \A i \in DOMAIN runFile : runFile[i].whole
  /\ runFile' = Append(runFile, [trip |-> t, whole |-> FALSE])
  /\ UNCHANGED <<given, files, task, runs, crashes>>

RowEnds ==
  /\ runFile # <<>> /\ ~Last(runFile).whole
  /\ runFile' = [runFile EXCEPT ![Len(runFile)].whole = TRUE]
  /\ UNCHANGED <<given, files, task, runs, crashes>>

-----------------------------------------------------------------------------
(* process-runs: ProcessTripDirsWithCallback and runProcessRuns.           *)
StartBatch ==
  /\ batch.state \in {"idle", "done"} /\ batch.number < limits.batches
  /\ \E force, only \in BOOLEAN :
       batch' = [state |-> "running", force |-> force, only |-> only,
                 todo |-> Trips, number |-> batch.number + 1]
  /\ counted' = [t \in Trips |-> "none"]
  /\ UNCHANGED <<given, runFile, files, task, report, shared, crashes>>

(* The trips are handed out in order.                                      *)
Take(w) ==
  LET t == Min(batch.todo)
  IN /\ batch.state = "running" /\ task[w].pc = "idle" /\ batch.todo # {} /\ w \in limits.workers
     /\ batch' = [batch EXCEPT !.todo = @ \ {t}]
     /\ task' = [task EXCEPT ![w] = Task(t, "queue", batch.force, batch.only)]
     /\ shared' = IF task[t].pc \in AtRest THEN shared ELSE shared \cup {t}
     /\ UNCHANGED <<given, runFile, files, counted, report, crashes>>

Count(w, as) ==
  /\ counted' = [counted EXCEPT ![task[w].trip] = as]
  /\ task' = [task EXCEPT ![w] = Task(1, "idle", FALSE, FALSE)]

(* A fault to be caught: after an error the worker returns without a       *)
(* result.                                                                 *)
WorkerQueuesOrLeaves(w) ==
  /\ task[w].pc = "queue"
  /\ \/ WriteStatus(task[w].trip, QueueState(w)) /\ Goto(w, "start")
     \/ WriteStatusFails(task[w].trip) /\ Goto(w, "over")
  /\ UNCHANGED <<given, runFile, images, dataset, runs, crashes>>

WorkerQueues(w) ==
  /\ task[w].pc = "queue"
  /\ \/ WriteStatus(task[w].trip, QueueState(w)) /\ Goto(w, "start") /\ UNCHANGED counted
     \/ WriteStatusFails(task[w].trip) /\ Count(w, "failed")
  /\ UNCHANGED <<given, runFile, images, dataset, batch, report, shared, crashes>>

(* A fault to be caught: the result counts by the error alone.             *)
WorkerReportsError(w) ==
  /\ task[w].pc = "done" /\ w \in Workers
  /\ Count(w, IF task[w].ok THEN "completed" ELSE "failed")
  /\ UNCHANGED <<given, runFile, files, batch, report, shared, crashes>>

(* The result has the state of the status file; what is neither completed  *)
(* nor skipped there counts by the error.                                  *)
WorkerReports(w) ==
  LET state == status[task[w].trip]
  IN /\ task[w].pc = "done" /\ w \in Workers
     /\ Count(w, IF state \in {"completed", "skipped"} THEN state
                 ELSE IF task[w].ok THEN "completed" ELSE "failed")
     /\ UNCHANGED <<given, runFile, files, batch, report, shared, crashes>>

EndBatch ==
  /\ batch.state = "running" /\ batch.todo = {}
  /\ \A w \in Workers : task[w].pc = "idle"
  /\ batch' = [batch EXCEPT !.state = "reporting"]
  /\ UNCHANGED <<given, runFile, files, task, counted, report, shared, crashes>>

-----------------------------------------------------------------------------
(* The report of the run: each trip's state and number of samples; none    *)
(* when a dataset has a line that is not whole.                            *)
TripDatasetReport(t, lines) ==
  [state |-> IF status[t] \in {"none", "torn"} THEN "missing" ELSE status[t],
   missingDataset |-> dataset[t].file = "none", samples |-> lines]

Lines(t) ==
  LET all == Len(Samples[recording[t]][dataset[t].from])
  IN CASE dataset[t].file = "whole" -> {all}
       [] dataset[t].file = "cut"   -> {0, all \div 2}
       [] OTHER                     -> {0}

RunDatasetReports ==
  {[t \in Trips |-> TripDatasetReport(t, lines[t])] :
     lines \in {f \in [Trips -> UNION {Lines(t) : t \in Trips}] : \A t \in Trips : f[t] \in Lines(t)}}

DatasetsReadable == \A t \in Trips : dataset[t].file # "torn"

(* The totals of the report.                                               *)
TotalSamples == MapThenSumSet(LAMBDA t : report[t].samples, Trips)

Summary ==
  LET In(state) == Cardinality({t \in Trips : report[t].state = state})
  IN [completed |-> In("completed"), skipped |-> In("skipped"), failed |-> In("failed"),
      missingDataset |-> Cardinality({t \in Trips : report[t].missingDataset}),
      zeroSamples |-> Cardinality({t \in Trips : report[t].samples = 0}),
      samples |-> TotalSamples]

WriteRunDatasetReports ==
  \/ DatasetsReadable /\ report' \in RunDatasetReports /\ UNCHANGED faults
  \/ ~DatasetsReadable /\ UNCHANGED <<report, faults>>
  \/ Fault /\ UNCHANGED report

EndRuns ==
  /\ batch.state = "reporting"
  /\ batch' = [batch EXCEPT !.state = "done"]
  /\ WriteRunDatasetReports
  /\ UNCHANGED <<given, runFile, status, images, dataset, task, counted, shared, crashes>>

-----------------------------------------------------------------------------
(* A process dies with its goroutines; the files stay as they are.         *)
Crash == crashes < limits.crashes /\ crashes' = crashes + 1

BackendDies ==
  /\ Crash
  /\ task' = [p \in Tasks |-> IF p \in Workers \/ task[p].pc \in AtRest THEN task[p]
                              ELSE [task[p] EXCEPT !.pc = "over"]]
  /\ UNCHANGED <<given, runFile, files, runs>>

BatchDies ==
  /\ Crash /\ batch.state \in {"running", "reporting"}
  /\ batch' = [batch EXCEPT !.state = "idle", !.todo = {}]
  /\ task' = [p \in Tasks |-> IF p \in Trips THEN task[p] ELSE Task(1, "idle", FALSE, FALSE)]
  /\ UNCHANGED <<given, runFile, files, counted, report, shared>>

Live(t) == CaptureStop(t) \/ ReadinessSeen(t) \/ ReadinessTimesOut(t)
Worker(w) == Take(w) \/ WorkerQueues(w) \/ WorkerReports(w)

TripNext ==
  \/ \E t \in Trips : Live(t) \/ RowBegins(t)
  \/ \E p \in Tasks : ProcessTrip(p)
  \/ \E w \in Workers : Worker(w)
  \/ RowEnds \/ StartBatch \/ EndBatch \/ EndRuns \/ BackendDies \/ BatchDies

TripSpec == TripInit /\ [][TripNext]_tripVars

(* Goroutines run, and the tools end.                                      *)
TripFairness ==
  /\ \A t \in Trips : WF_tripVars(ReadinessSeen(t) \/ ReadinessTimesOut(t))
  /\ \A p \in Tasks : WF_tripVars(ProcessTrip(p))
  /\ \A w \in Workers : WF_tripVars(Worker(w))
  /\ WF_tripVars(EndBatch) /\ WF_tripVars(EndRuns)

FairTripSpec == TripSpec /\ TripFairness

-----------------------------------------------------------------------------
(* The status "completed" stays true: its dataset was written to the end,  *)
(* and no image it names was removed since, whatever failed or died and    *)
(* was processed again, unless a worker had the trip together with the     *)
(* backend (Queue and ProcessTrip write another status before a file is    *)
(* touched, and the last one when they are done with the files).           *)
CompletedIsWhole ==
  \A t \in Trips \ shared :
    status[t] = "completed" => dataset[t].file = "whole" /\ dataset[t].current

(* What was made is made again only when forced, with one exception: each  *)
(* task looks for a dataset once and trusts what it saw, so the one that   *)
(* looked before another wrote it makes it again, whole or not; and that   *)
(* happens only to a trip that a worker took while the backend had it.     *)
(* All other steps leave a whole dataset and the images it names alone     *)
(* (Queue, ProcessTrip, shouldSkipTrip).                                   *)
OnlyForceRewrites ==
  [][\A t \in Trips :
       dataset[t].file = "whole" /\ (dataset'[t] # dataset[t] \/ images'[t] # images[t]) =>
         \E p \in Tasks :
           /\ ProcessTrip(p) /\ task[p].trip = t
           /\ task[p].force \/ (task[p].overtaken /\ t \in shared)]_tripVars

(* The processing that follows a recording never fails for want of the     *)
(* trip's row: once it has begun, the row can be read, although the game   *)
(* server is appending others (WaitForTripReadiness, loadRunTripRecord).   *)
LiveFindsItsRow ==
  \A t \in Trips : task[t].pc \in Processing => MetadataThere(t) /\ RecordFound(t)

(* What process-runs counts is what the report of the run says, and the    *)
(* samples of a completed trip are all there, unless the backend had the   *)
(* trip as well or a file failed (runProcessRuns, BuildRunDatasetReport).  *)
ReportAgrees ==
  batch.state = "done" /\ faults = 0 /\ shared = {} =>
    /\ \A t \in Trips :
         counted[t] = "completed" =>
           report[t].state = "completed"
           /\ report[t].samples = Len(Samples[recording[t]][dataset[t].from])
    /\ Summary.completed = Cardinality({t \in Trips : counted[t] = "completed"})
    /\ Summary.skipped = Cardinality({t \in Trips : counted[t] = "skipped"})
    /\ Summary.failed = Cardinality({t \in Trips : counted[t] = "failed"})

(* A call of process-runs ends with a result for every trip, whichever of  *)
(* them failed, unless it dies (ProcessTripDirsWithCallback).              *)
BatchEnds ==
  batch.state = "running" ~>
    \/ batch.state = "done" /\ \A t \in Trips : counted[t] # "none"
    \/ crashes > 0

-----------------------------------------------------------------------------
(* What holds of the samples of every dataset that was written.            *)
Written == {<<recording[t], dataset[t].from>> : t \in {t \in Trips : dataset[t].file = "whole"}}

Sound(r, extent) ==
  LET labels == LabelsOf(r)
      start == FramesOf(r, extent)[FlashOf(r, extent)].pts
      Ordered(rows) == \A k \in 1..Len(rows) - 1 : rows[k] < rows[k + 1]
  IN \A sample \in Range(Samples[r][extent]) :
       /\ \A k \in DOMAIN sample.frames : Recorded[r].video[sample.frames[k]].pts <= sample.pts
       /\ Offset(labels[sample.label].time, sample.pts - start) <= LabelTolerance
       /\ Ordered(sample.history) /\ Last(sample.history) = sample.label
       /\ Ordered(<<sample.label>> \o sample.future) /\ sample.target.horizon > 0

SoundRecordings == {pair \in Recordings \X Extents : Sound(pair[1], pair[2])}

(* A sample's inputs do not show what it is to predict: its images are not *)
(* from after its frame, its history ends at its own row, in order, and    *)
(* its future and its target are after that row; and that row is within    *)
(* the tolerance of the frame (buildDatasetSamplesWithStats).              *)
InputsArePast == Written \subseteq SoundRecordings

Findable(r) ==
  LET labels == LabelsOf(r)
      Fits(i, anchor, offset) ==
        LET off == Offset(labels[i].time, labels[anchor].time + offset * SampleInterval)
        IN off <= LabelTolerance /\ 2 * off < SampleInterval
  IN \A anchor \in DOMAIN labels :
       (\A offset \in TelemetryOffsets[1]..-1 : \E i \in 1..anchor - 1 : Fits(i, anchor, offset)) =>
         TelemetryHistory(labels, anchor) # <<>>

FindableRecordings == {r \in Recordings : Findable(r)}

(* No sample is lost for a choice made too early: rows that lie closer     *)
(* than half an interval to the times of a dense history are found, though *)
(* each is chosen for its own time only (buildTelemetryHistory).           *)
HistoryIsFound == \A written \in Written : written[1] \in FindableRecordings

Thinned(r, extent) ==
  LET labels == LabelsOf(r)
      all == AllSamples[r][extent]
      kept == {i \in DOMAIN all : all[i] \in Range(Samples[r][extent])}
      Stopped(i) == labels[all[i].label].stopped
      KeptOfRun(i) == {j \in kept : j < i /\ \A k \in j..i : Stopped(k)}
  IN StoppedBurst >= 1 /\ StoppedSpacing > 0 => \A i \in DOMAIN all :
       i \in kept <=>
         \/ ~Stopped(i) \/ Cardinality(KeptOfRun(i)) < StoppedBurst
         \/ labels[all[i].label].time - labels[all[Max(KeptOfRun(i))].label].time >= StoppedSpacing

ThinnedRecordings == {pair \in Recordings \X Extents : Thinned(pair[1], pair[2])}

(* Of the samples, those in motion are all kept, and of those at a         *)
(* standstill one only if few of its run were kept before it or the last   *)
(* of them is long ago (thinStoppedSamples).                               *)
StandstillIsThinned == Written \subseteq ThinnedRecordings

(* Together: a dataset that was written is made of samples that look at    *)
(* the past only, without a needless loss and without a standstill's bulk. *)
SamplesAreSound == InputsArePast /\ HistoryIsFound /\ StandstillIsThinned
=============================================================================
