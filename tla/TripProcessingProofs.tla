------------------------- MODULE TripProcessingProofs -------------------------
(***************************************************************************)
(* What becomes of the files of recorded trips, for any number of trips,   *)
(* workers, batches, failures and crashes: a dataset that is called        *)
(* completed is whole, none is made again without being forced, and what   *)
(* is counted is what is reported.  And what is in the datasets, for any   *)
(* recordings: inputs of the past, without a needless loss and without a   *)
(* standstill's bulk.                                                      *)
(***************************************************************************)
EXTENDS TripProcessing, SequenceTheorems, FiniteSetTheorems, WellFoundedInduction, TLAPS

-----------------------------------------------------------------------------
(* The inductive invariant, part by part.                                  *)

(* Rows are appended one after the other.                                  *)
FileFits == \A i \in 1..Len(runFile) - 1 : runFile[i].whole

(* Who has a trip: the backend from its recording on, a worker until it    *)
(* was counted.                                                            *)
Busy(p) == IF p \in Trips THEN task[p].pc \notin AtRest ELSE task[p].pc # "idle"

TasksFit ==
  /\ \A t \in Trips : task[t].trip = t /\ ~task[t].force /\ task[t].pc \notin {"idle", "queue"}
  /\ \A w \in Workers : task[w].pc \in {"idle", "queue", "done"} \cup Processing
  /\ \A w \in Workers : Busy(w) =>
       batch.state = "running" /\ task[w].trip \notin batch.todo /\ task[w].force = batch.force
  /\ batch.state # "running" => batch.todo = {}

(* A trip that is not shared is one task's at a time.                      *)
TripsAreHeldOnce ==
  \A p, q \in Tasks :
    Busy(p) /\ Busy(q) /\ task[p].trip = task[q].trip /\ task[p].trip \notin shared => p = q

(* From the first step on its files the status of a trip says "running",   *)
(* and who was not forced found no dataset and makes one.                  *)
Making == {"probe", "clear", "extract", "read", "write"}
Writing == Making \cup {"fill", "finish"}

Whole(t) == dataset[t].file = "whole" /\ dataset[t].current

FilesFit ==
  \A p \in Tasks :
    LET t == task[p].trip
    IN t \notin shared /\ task[p].pc \in Writing =>
         /\ status[t] = "running"
         /\ task[p].pc = "write" => task[p].intact
         /\ task[p].pc = "fill" => dataset[t].file = "cut" /\ dataset[t].current
         /\ task[p].pc = "finish" /\ task[p].ok => Whole(t)
         /\ ~task[p].force /\ task[p].pc \in Making => dataset[t].file = "none"

(* When no file fails, all statuses and datasets can be read, and a worker *)
(* leaves the trip with the status of its result.                          *)
ResultsFit ==
  faults = 0 =>
    /\ \A t \in Trips : status[t] # "torn" /\ dataset[t].file # "torn"
    /\ \A w \in Workers :
         task[w].pc = "done" /\ task[w].trip \notin shared =>
           /\ status[task[w].trip] \in {"completed", "skipped", "failed"}
           /\ status[task[w].trip] = "failed" => ~task[w].ok

(* A trip that the batch handed out is a worker's or counted as what its   *)
(* status says, and so it is reported.                                     *)
IsCounted(t) == counted[t] \in {"completed", "skipped", "failed"} /\ status[t] = counted[t]

CountsFit ==
  faults = 0 /\ shared = {} /\ batch.state # "idle" =>
    \A t \in Trips \ batch.todo :
      /\ task[t].pc \in AtRest
      /\ IsCounted(t) \/ \E w \in Workers : Busy(w) /\ task[w].trip = t

ReportFits ==
  faults = 0 /\ shared = {} /\ batch.state = "done" =>
    \A t \in Trips :
      /\ report[t].state = status[t]
      /\ status[t] = "completed" => report[t].samples = Len(Samples[recording[t]][dataset[t].from])

TripInv ==
  /\ TripTypeOK /\ FileFits /\ LiveFindsItsRow /\ TasksFit /\ TripsAreHeldOnce
  /\ FilesFit /\ CompletedIsWhole /\ ResultsFit /\ CountsFit /\ ReportFits
-----------------------------------------------------------------------------
(* The step of a task that has a trip.                                     *)
LEMMA TaskTypes ==
  ASSUME TripInv, NEW p \in Tasks
  PROVE  /\ task[p] \in TaskStates /\ task[p].trip \in Trips /\ task[p].pc \in Places
         /\ task[p].force \in BOOLEAN /\ task[p].ok \in BOOLEAN
         /\ status \in [Trips -> Statuses] /\ dataset \in [Trips -> Datasets]
         /\ task \in [Tasks -> TaskStates] /\ faults \in Nat /\ limits.faults \in Nat
BY TripAssumption DEF TripInv, TripTypeOK, TaskStates, Limits

LEMMA ProcessingIsBusy ==
  ASSUME TripInv, NEW p \in Tasks, task[p].pc \in Processing \cup {"capturing", "waiting", "queue"}
  PROVE  Busy(p)
BY DEF Busy, Processing, AtRest

(* What a step of p may do: to others only that their images are gone, and *)
(* to the files of no other trip than its own.                             *)
StaysWithTrip(p) ==
  /\ UNCHANGED <<given, runFile, runs, crashes>>
  /\ task' \in [Tasks -> TaskStates]
  /\ task'[p].trip = task[p].trip /\ task'[p].force = task[p].force
  /\ \A q \in Tasks \ {p} :
       /\ task'[q].trip = task[q].trip /\ task'[q].force = task[q].force
       /\ task'[q].pc = task[q].pc /\ task'[q].ok = task[q].ok
       /\ task'[q].intact = task[q].intact \/ task[q].trip = task[p].trip
  /\ status' \in [Trips -> Statuses] /\ dataset' \in [Trips -> Datasets]
  /\ images' \in [Trips -> {"none", "some", "all"}]
  /\ \A t \in Trips \ {task[p].trip} : status'[t] = status[t] /\ dataset'[t] = dataset[t]
  /\ faults' \in 0..limits.faults /\ faults' >= faults

(* What it must leave behind.                                              *)
LeavesTripFit(p) ==
  LET t == task[p].trip
  IN /\ status[t] = "completed" => Whole(t)
     /\ task[p].pc \in Writing =>
          /\ status[t] = "running"
          /\ task[p].pc = "write" => task[p].intact
          /\ task[p].pc = "fill" => dataset[t].file = "cut" /\ dataset[t].current
          /\ task[p].pc = "finish" /\ task[p].ok => Whole(t)
          /\ ~task[p].force /\ task[p].pc \in Making => dataset[t].file = "none"
     /\ faults = 0 /\ task[p].pc = "done" =>
          /\ status[t] \in {"completed", "skipped", "failed"}
          /\ status[t] = "failed" => ~task[p].ok

LEMMA TaskMoves ==
  ASSUME TripInv, NEW p \in Tasks, Busy(p), StaysWithTrip(p),
         p \in Trips => task'[p].pc \in AtRest \cup Processing \cup {"waiting"},
         p \in Workers => task'[p].pc \in Processing \cup {"queue", "done"},
         p \in Trips /\ task'[p].pc \in Processing => MetadataThere(p) /\ RecordFound(p),
         faults' = 0 => status'[task[p].trip] # "torn" /\ dataset'[task[p].trip].file # "torn",
         task[p].trip \notin shared => LeavesTripFit(p)'
  PROVE  TripInv'
<1> DEFINE t == task[p].trip
<1>1. /\ t \in Trips /\ t = task'[p].trip /\ Tasks = Trips \cup Workers /\ Trips \cap Workers = {}
      /\ UNCHANGED <<recording, limits, runFile, batch, counted, report, shared, crashes>>
      /\ faults \in Nat /\ faults' \in Nat
  BY TaskTypes, TripAssumption DEF StaysWithTrip, given, runs, Tasks
<1>2. faults' = 0 => faults = 0
  BY <1>1 DEF StaysWithTrip
<1>3. TripTypeOK'
  BY <1>1 DEF TripInv, TripTypeOK, StaysWithTrip
<1>4. FileFits' /\ LiveFindsItsRow'
  <2>1. \A s \in Trips : MetadataThere(s)' = MetadataThere(s) /\ RecordFound(s)' = RecordFound(s)
    BY <1>1 DEF MetadataThere, RecordFound
  <2> QED BY <1>1, <2>1 DEF TripInv, FileFits, LiveFindsItsRow, StaysWithTrip
<1>5. ASSUME NEW q \in Tasks, q # p PROVE Busy(q)' = Busy(q)
  BY <1>5 DEF Busy, StaysWithTrip
<1>6. TasksFit'
  <2>1. p \in Trips => task[p].trip = p /\ ~task[p].force
    BY DEF TripInv, TasksFit
  <2>2. p \in Workers => batch.state = "running" /\ task[p].trip \notin batch.todo /\ task[p].force = batch.force
    BY DEF TripInv, TasksFit
  <2>3. \A s \in Trips : task'[s].trip = s /\ ~task'[s].force /\ task'[s].pc \notin {"idle", "queue"}
    BY <1>1, <2>1 DEF TripInv, TasksFit, StaysWithTrip, AtRest, Processing
  <2>4. \A w \in Workers : task'[w].pc \in {"idle", "queue", "done"} \cup Processing
    BY <1>1 DEF TripInv, TasksFit, StaysWithTrip
  <2>5. \A w \in Workers : Busy(w)' =>
          batch.state = "running" /\ task'[w].trip \notin batch.todo /\ task'[w].force = batch.force
    BY <1>1, <1>5, <2>2 DEF TripInv, TasksFit, StaysWithTrip
  <2> QED BY <1>1, <2>3, <2>4, <2>5 DEF TripInv, TasksFit
<1>7. TripsAreHeldOnce'
  <2>1. ASSUME NEW q \in Tasks, Busy(q)' PROVE Busy(q) /\ task'[q].trip = task[q].trip
    BY <1>1, <1>5, <2>1 DEF StaysWithTrip
  <2> QED BY <1>1, <2>1 DEF TripInv, TripsAreHeldOnce
<1>8. ASSUME NEW q \in Tasks, q # p, task[q].trip = t, t \notin shared PROVE ~Busy(q)
  BY <1>8 DEF TripInv, TripsAreHeldOnce
<1>9. FilesFit'
  <2> SUFFICES ASSUME NEW q \in Tasks, task'[q].trip \notin shared, task'[q].pc \in Writing
               PROVE  /\ status'[task'[q].trip] = "running"
                      /\ task'[q].pc = "write" => task'[q].intact
                      /\ task'[q].pc = "fill" => dataset'[task'[q].trip].file = "cut" /\ dataset'[task'[q].trip].current
                      /\ task'[q].pc = "finish" /\ task'[q].ok => Whole(task[q].trip)'
                      /\ ~task'[q].force /\ task'[q].pc \in Making => dataset'[task'[q].trip].file = "none"
    BY <1>1 DEF FilesFit
  <2>1. CASE q = p
    BY <1>1, <2>1 DEF LeavesTripFit
  <2>2. CASE q # p
    <3>1. task'[q].pc = task[q].pc /\ task'[q].trip = task[q].trip
      BY <2>2 DEF StaysWithTrip
    <3>2. Busy(q)
      BY <3>1, ProcessingIsBusy DEF Writing, Making, Processing
    <3>3. task[q].trip # t
      BY <1>8, <2>2, <3>1, <3>2
    <3>4. task[q].trip \in Trips
      BY TaskTypes
    <3>5. status'[task[q].trip] = status[task[q].trip] /\ dataset'[task[q].trip] = dataset[task[q].trip]
      BY <3>3, <3>4 DEF StaysWithTrip
    <3> QED BY <2>2, <3>1, <3>3, <3>5 DEF TripInv, FilesFit, StaysWithTrip, Whole
  <2> QED BY <2>1, <2>2
<1>10. CompletedIsWhole'
  <2> SUFFICES ASSUME NEW s \in Trips \ shared, status'[s] = "completed"
               PROVE  dataset'[s].file = "whole" /\ dataset'[s].current
    BY <1>1 DEF CompletedIsWhole
  <2>1. CASE s = t
    BY <1>1, <2>1 DEF LeavesTripFit, Whole
  <2>2. CASE s # t
    BY <2>2 DEF StaysWithTrip, TripInv, CompletedIsWhole
  <2> QED BY <2>1, <2>2
<1>11. ResultsFit'
  <2> SUFFICES ASSUME faults' = 0
               PROVE  /\ \A s \in Trips : status'[s] # "torn" /\ dataset'[s].file # "torn"
                      /\ \A w \in Workers : task'[w].pc = "done" /\ task'[w].trip \notin shared =>
                           /\ status'[task'[w].trip] \in {"completed", "skipped", "failed"}
                           /\ status'[task'[w].trip] = "failed" => ~task'[w].ok
    BY <1>1 DEF ResultsFit
  <2>1. \A s \in Trips : status'[s] # "torn" /\ dataset'[s].file # "torn"
    BY <1>2 DEF StaysWithTrip, TripInv, ResultsFit
  <2>2. ASSUME NEW w \in Workers, task'[w].pc = "done", task'[w].trip \notin shared
        PROVE  /\ status'[task'[w].trip] \in {"completed", "skipped", "failed"}
               /\ status'[task'[w].trip] = "failed" => ~task'[w].ok
    <3>1. CASE w = p
      BY <1>1, <2>2, <3>1 DEF LeavesTripFit
    <3>2. CASE w # p
      <4>1. w \in Tasks /\ task'[w].pc = task[w].pc /\ task'[w].trip = task[w].trip /\ task'[w].ok = task[w].ok
        BY <1>1, <3>2 DEF StaysWithTrip
      <4>2. Busy(w)
        BY <1>1, <2>2, <4>1 DEF Busy
      <4>3. task[w].trip # t /\ task[w].trip \in Trips
        BY <1>8, <2>2, <3>2, <4>1, <4>2, TaskTypes
      <4> QED BY <1>2, <2>2, <4>1, <4>3 DEF StaysWithTrip, TripInv, ResultsFit
    <3> QED BY <3>1, <3>2
  <2> QED BY <2>1, <2>2
<1>12. CountsFit'
  <2> SUFFICES ASSUME faults' = 0, shared = {}, batch.state # "idle", NEW s \in Trips \ batch.todo
               PROVE  /\ task'[s].pc \in AtRest
                      /\ IsCounted(s)' \/ \E w \in Workers : Busy(w)' /\ task'[w].trip = s
    BY <1>1 DEF CountsFit
  <2>1. task[s].pc \in AtRest /\ (IsCounted(s) \/ \E w \in Workers : Busy(w) /\ task[w].trip = s)
    BY <1>2 DEF TripInv, CountsFit
  <2>2. p # s /\ s \in Tasks
    BY <1>1, <2>1 DEF Busy
  <2>3. task'[s].pc \in AtRest
    BY <2>1, <2>2 DEF StaysWithTrip
  <2>4. CASE s = t
    <3>1. p \in Workers
      BY <1>1, <2>2, <2>4 DEF TripInv, TasksFit
    <3>2. Busy(p)'
      BY <1>1, <3>1 DEF Busy, Processing
    <3> QED BY <1>1, <2>3, <2>4, <3>1, <3>2
  <2>5. CASE s # t
    <3>1. CASE IsCounted(s)
      BY <1>1, <2>3, <2>5, <3>1 DEF IsCounted, StaysWithTrip
    <3>2. ASSUME NEW w \in Workers, Busy(w), task[w].trip = s
          PROVE  Busy(w)' /\ task'[w].trip = s
      <4>1. w # p /\ w \in Tasks
        BY <1>1, <2>5, <3>2
      <4> QED BY <1>5, <3>2, <4>1 DEF StaysWithTrip
    <3> QED BY <2>1, <2>3, <3>1, <3>2
  <2> QED BY <2>4, <2>5
<1>13. ReportFits'
  <2> SUFFICES ASSUME faults' = 0, shared = {}, batch.state = "done", NEW s \in Trips
               PROVE  /\ report[s].state = status'[s]
                      /\ status'[s] = "completed" => report[s].samples = Len(Samples[recording[s]][dataset'[s].from])
    BY <1>1 DEF ReportFits
  <2>1. p \in Trips
    BY <1>1 DEF TripInv, TasksFit
  <2>2. batch.todo = {} /\ task[p].pc \in AtRest
    BY <1>2, <2>1 DEF TripInv, TasksFit, CountsFit
  <2> QED BY <2>1, <2>2 DEF Busy
<1> QED BY <1>3, <1>4, <1>6, <1>7, <1>9, <1>10, <1>11, <1>12, <1>13 DEF TripInv

(* A step that changes the place of p and maybe its result only.           *)
LEMMA Moved ==
  ASSUME TripInv, NEW p \in Tasks, NEW pc \in Places, NEW ok \in BOOLEAN,
         \/ task' = [task EXCEPT ![p].pc = pc] /\ ok = task[p].ok
         \/ task' = [task EXCEPT ![p].pc = pc, ![p].ok = ok]
  PROVE  /\ task' \in [Tasks -> TaskStates]
         /\ task'[p].trip = task[p].trip /\ task'[p].force = task[p].force
         /\ task'[p].intact = task[p].intact /\ task'[p].overtaken = task[p].overtaken
         /\ task'[p].pc = pc /\ task'[p].ok = ok
         /\ \A q \in Tasks \ {p} : task'[q] = task[q]
<1>1. task[p] \in TaskStates /\ task \in [Tasks -> TaskStates]
  BY TaskTypes
<1> DEFINE new == [task[p] EXCEPT !.pc = pc, !.ok = ok]
<1>2. /\ new \in TaskStates /\ new.trip = task[p].trip /\ new.force = task[p].force
      /\ new.intact = task[p].intact /\ new.overtaken = task[p].overtaken /\ new.pc = pc /\ new.ok = ok
  BY <1>1 DEF TaskStates
<1>3. task' = [task EXCEPT ![p] = new]
  <2>1. CASE task' = [task EXCEPT ![p].pc = pc] /\ ok = task[p].ok
    <3>1. [task[p] EXCEPT !.pc = pc] = new
      BY <1>1, <2>1 DEF TaskStates
    <3> HIDE DEF new
    <3> QED BY <2>1, <3>1
  <2>2. CASE task' = [task EXCEPT ![p].pc = pc, ![p].ok = ok]
    BY <1>1, <2>2 DEF TaskStates
  <2> QED BY <2>1, <2>2
<1> HIDE DEF new
<1> QED BY <1>1, <1>2, <1>3

LEMMA GotoMoves ==
  ASSUME TripInv, NEW p \in Tasks, NEW pc \in Places, Goto(p, pc)
  PROVE  /\ task' \in [Tasks -> TaskStates]
         /\ task'[p].trip = task[p].trip /\ task'[p].force = task[p].force
         /\ task'[p].intact = task[p].intact /\ task'[p].overtaken = task[p].overtaken
         /\ task'[p].pc = pc /\ task'[p].ok = task[p].ok
         /\ \A q \in Tasks \ {p} : task'[q] = task[q]
BY TaskTypes, Moved DEF Goto

LEMMA FailMoves ==
  ASSUME TripInv, NEW p \in Tasks, Fail(p)
  PROVE  /\ task' \in [Tasks -> TaskStates]
         /\ task'[p].trip = task[p].trip /\ task'[p].force = task[p].force
         /\ task'[p].intact = task[p].intact /\ task'[p].overtaken = task[p].overtaken
         /\ task'[p].pc = "finish" /\ ~task'[p].ok
         /\ \A q \in Tasks \ {p} : task'[q] = task[q]
BY Moved DEF Fail, Places, Processing

(* A write of the status.                                                  *)
LEMMA StatusChanges ==
  ASSUME TripInv, NEW t \in Trips, NEW state \in Statuses, WriteStatus(t, state) \/ WriteStatusFails(t)
  PROVE  /\ status' \in [Trips -> Statuses] /\ \A s \in Trips \ {t} : status'[s] = status[s]
         /\ faults' \in 0..limits.faults /\ faults' >= faults
         /\ WriteStatus(t, state) => status'[t] = state
         /\ WriteStatusFails(t) => faults' # 0 /\ status'[t] \in {status[t], "torn"}
<1>1. status \in [Trips -> Statuses] /\ faults \in 0..limits.faults /\ limits.faults \in Nat /\ faults \in Nat
  BY TripAssumption DEF TripInv, TripTypeOK, Limits
<1>2. CASE WriteStatus(t, state)
  BY <1>1, <1>2 DEF WriteStatus, WriteStatusFails, Fault
<1>3. CASE WriteStatusFails(t)
  <2>1. status' = status \/ status' = [status EXCEPT ![t] = "torn"]
    BY <1>3 DEF WriteStatusFails
  <2>2. faults' = faults + 1 /\ faults < limits.faults
    BY <1>3 DEF WriteStatusFails, Fault
  <2>3. "torn" \in Statuses
    BY DEF Statuses
  <2>4. status' \in [Trips -> Statuses] /\ status'[t] \in {status[t], "torn"}
        /\ \A s \in Trips \ {t} : status'[s] = status[s]
    BY <1>1, <2>1, <2>3
  <2>5. faults' # faults
    BY <1>1, <2>2
  <2> QED BY <1>1, <2>2, <2>4, <2>5 DEF WriteStatus
<1> QED BY <1>2, <1>3

(* What a task finds on its own files.                                     *)
LEMMA OwnFiles ==
  ASSUME TripInv, NEW p \in Tasks, task[p].pc \in Processing
  PROVE  /\ Busy(p)
         /\ p \in Trips => MetadataThere(p) /\ RecordFound(p)
         /\ faults = 0 => status[task[p].trip] # "torn" /\ dataset[task[p].trip].file # "torn"
         /\ task[p].trip \notin shared => LeavesTripFit(p)
<1>1. Busy(p) /\ task[p].trip \in Trips
  BY ProcessingIsBusy, TaskTypes
<1>2. task[p].pc # "done"
  BY DEF Processing
<1> QED BY <1>1, <1>2 DEF TripInv, LiveFindsItsRow, ResultsFit, FilesFit, CompletedIsWhole, LeavesTripFit, Whole

LEMMA SkipBeginKeepInv ==
  ASSUME TripInv, NEW p \in Tasks, Skip(p) \/ Begin(p)
  PROVE  TripInv'
<1> DEFINE t == task[p].trip
<1>1. /\ task[p].pc = "start" /\ UNCHANGED <<given, runFile, images, dataset, runs, crashes>>
      /\ \/ WriteStatus(t, "skipped") /\ Goto(p, "done")
         \/ /\ WriteStatus(t, "running") /\ Goto(p, "probe")
            /\ ~task[p].force => dataset[t].file = "none"
         \/ WriteStatusFails(t) /\ task' = [task EXCEPT ![p].pc = "done", ![p].ok = FALSE]
  BY DEF Skip, Begin, ShouldSkip
<1>2. /\ Busy(p) /\ t \in Trips /\ (p \in Trips => MetadataThere(p) /\ RecordFound(p))
      /\ faults = 0 => status[t] # "torn" /\ dataset[t].file # "torn"
      /\ t \notin shared => LeavesTripFit(p)
  BY <1>1, OwnFiles, TaskTypes DEF Processing
<1>3. /\ "skipped" \in Statuses /\ "running" \in Statuses /\ "done" \in Places /\ "probe" \in Places
  BY DEF Statuses, Places, AtRest, Processing
<1>4. /\ status' \in [Trips -> Statuses] /\ \A s \in Trips \ {t} : status'[s] = status[s]
      /\ faults' \in 0..limits.faults /\ faults' >= faults
  BY <1>1, <1>2, <1>3, StatusChanges
<1>5. /\ task' \in [Tasks -> TaskStates] /\ task'[p].trip = t /\ task'[p].force = task[p].force
      /\ \A q \in Tasks \ {p} : task'[q] = task[q]
      /\ \/ task'[p].pc = "done" /\ faults' # 0 /\ status'[t] \in {status[t], "torn"}
         \/ task'[p].pc = "done" /\ status'[t] = "skipped"
         \/ task'[p].pc = "probe" /\ status'[t] = "running" /\ (~task[p].force => dataset[t].file = "none")
  <2>1. CASE WriteStatus(t, "skipped") /\ Goto(p, "done")
    BY <1>2, <1>3, <2>1, GotoMoves, StatusChanges
  <2>2. CASE WriteStatus(t, "running") /\ Goto(p, "probe") /\ (~task[p].force => dataset[t].file = "none")
    BY <1>2, <1>3, <2>2, GotoMoves, StatusChanges
  <2>3. CASE WriteStatusFails(t) /\ task' = [task EXCEPT ![p].pc = "done", ![p].ok = FALSE]
    BY <1>2, <1>3, <2>3, Moved, StatusChanges
  <2> QED BY <1>1, <2>1, <2>2, <2>3
<1>6. StaysWithTrip(p)
  BY <1>1, <1>4, <1>5 DEF StaysWithTrip, TripInv, TripTypeOK, runs
<1>7. t \notin shared => LeavesTripFit(p)'
  BY <1>1, <1>2, <1>5 DEF LeavesTripFit, Writing, Making, Whole
<1>8. faults' = 0 => status'[t] # "torn" /\ dataset'[t].file # "torn"
  BY <1>1, <1>2, <1>4, <1>5, TaskTypes
<1>9. UNCHANGED runFile /\ task'[p].pc \in {"done", "probe"}
  BY <1>1, <1>5
<1> QED BY <1>2, <1>6, <1>7, <1>8, <1>9, TaskMoves DEF AtRest, Processing
(* A file operation or a tool that fails.                                  *)
LEMMA FaultCounts ==
  ASSUME TripInv, UNCHANGED faults \/ Fault
  PROVE  /\ faults' \in 0..limits.faults /\ faults' >= faults
         /\ Fault => faults' # 0
<1>1. faults \in 0..limits.faults /\ limits.faults \in Nat /\ faults \in Nat
  BY TripAssumption DEF TripInv, TripTypeOK, Limits
<1> QED BY <1>1 DEF Fault

(* A step of the making that leaves the status and the dataset alone.      *)
LEMMA MovesOn ==
  ASSUME TripInv, NEW p \in Tasks, task[p].pc \in Making,
         (\E pc \in Making \ {"write"} : Goto(p, pc)) \/ Fail(p),
         UNCHANGED <<given, runFile, status, dataset, runs, crashes>>,
         images' \in [Trips -> {"none", "some", "all"}], UNCHANGED faults \/ Fault
  PROVE  TripInv'
<1> DEFINE t == task[p].trip
<1>1. /\ Busy(p) /\ t \in Trips /\ (p \in Trips => MetadataThere(p) /\ RecordFound(p))
      /\ faults = 0 => status[t] # "torn" /\ dataset[t].file # "torn"
      /\ t \notin shared => LeavesTripFit(p)
  BY OwnFiles, TaskTypes DEF Making, Processing
<1>2. /\ task' \in [Tasks -> TaskStates] /\ task'[p].trip = t /\ task'[p].force = task[p].force
      /\ \A q \in Tasks \ {p} : task'[q] = task[q]
      /\ \/ task'[p].pc \in Making \ {"write"}
         \/ task'[p].pc = "finish" /\ ~task'[p].ok
  <2>1. ASSUME NEW pc \in Making \ {"write"}, Goto(p, pc) 
        PROVE  /\ task' \in [Tasks -> TaskStates] /\ task'[p].trip = t /\ task'[p].force = task[p].force
               /\ \A q \in Tasks \ {p} : task'[q] = task[q]
               /\ task'[p].pc = pc
    <3>1. pc \in Places
      BY DEF Making, Places, Processing
    <3> QED BY <2>1, <3>1, GotoMoves
  <2> QED BY <2>1, FailMoves
<1>3. StaysWithTrip(p)
  BY <1>2, FaultCounts DEF StaysWithTrip, TripInv, TripTypeOK, runs
<1>4. t \notin shared => LeavesTripFit(p)'
  BY <1>1, <1>2 DEF LeavesTripFit, Writing, Making, Whole
<1>5. faults' = 0 => status'[t] # "torn" /\ dataset'[t].file # "torn"
  BY <1>1, FaultCounts, TaskTypes
<1>6. task'[p].pc \in Processing
  BY <1>2 DEF Making, Processing
<1> QED BY <1>1, <1>3, <1>4, <1>5, <1>6, TaskMoves

LEMMA ProbeKeepsInv ==
  ASSUME TripInv, NEW p \in Tasks, Probe(p)
  PROVE  TripInv'
<1>1. task[p].pc \in Making /\ UNCHANGED <<given, runFile, status, dataset, runs, crashes, images>>
  BY DEF Probe, Making
<1>2. (\E pc \in Making \ {"write"} : Goto(p, pc)) \/ Fail(p)
  BY DEF Probe, Making
<1>3. UNCHANGED faults \/ Fault
  BY DEF Probe
<1>4. images' \in [Trips -> {"none", "some", "all"}]
  BY <1>1 DEF TripInv, TripTypeOK
<1> QED BY <1>1, <1>2, <1>3, <1>4, MovesOn

LEMMA ExtractEndsKeepsInv ==
  ASSUME TripInv, NEW p \in Tasks, ExtractEnds(p)
  PROVE  TripInv'
<1>1. task[p].pc \in Making /\ UNCHANGED <<given, runFile, status, dataset, runs, crashes>>
  BY DEF ExtractEnds, Making
<1>2. (\E pc \in Making \ {"write"} : Goto(p, pc)) \/ Fail(p)
  BY DEF ExtractEnds, Making
<1>3. UNCHANGED faults \/ Fault
  BY DEF ExtractEnds
<1>4. images' \in [Trips -> {"none", "some", "all"}]
  BY TaskTypes DEF ExtractEnds, TripInv, TripTypeOK
<1> QED BY <1>1, <1>2, <1>3, <1>4, MovesOn

(* A step that only adds rows or images: the images are in the type        *)
(* invariant only.                                                         *)
LEMMA RowsAndImagesGrow ==
  ASSUME TripInv, UNCHANGED <<given, status, dataset, faults, task, runs, crashes>>,
         images' \in [Trips -> {"none", "some", "all"}], runFile' \in Seq([trip : Trips, whole : BOOLEAN]),
         FileFits', \A t \in Trips : (MetadataThere(t) => MetadataThere(t)') /\ (RecordFound(t) => RecordFound(t)')
  PROVE  TripInv'
<1>1. UNCHANGED <<recording, limits, status, dataset, faults, task, batch, counted, report, shared, crashes>>
  BY DEF given, runs
<1>2. TripTypeOK'
  BY <1>1 DEF TripInv, TripTypeOK
<1>3. LiveFindsItsRow'
  BY <1>1 DEF TripInv, LiveFindsItsRow
<1>4. TasksFit' /\ TripsAreHeldOnce' /\ FilesFit' /\ CompletedIsWhole' /\ ResultsFit'
  BY <1>1 DEF TripInv, TasksFit, Busy, TripsAreHeldOnce, FilesFit, Whole, CompletedIsWhole, ResultsFit
<1>5. CountsFit'
  BY <1>1 DEF TripInv, CountsFit, IsCounted, Busy
<1>6. ReportFits'
  BY <1>1, Zenon DEF TripInv, ReportFits
<1> QED BY <1>2, <1>3, <1>4, <1>5, <1>6 DEF TripInv

LEMMA ExtractWritesKeepsInv ==
  ASSUME TripInv, NEW p \in Tasks, ExtractWrites(p)
  PROVE  TripInv'
<1>1. /\ UNCHANGED <<given, runFile, status, dataset, faults, task, runs, crashes>>
      /\ images' \in [Trips -> {"none", "some", "all"}]
  BY TaskTypes DEF ExtractWrites, TripInv, TripTypeOK
<1>2. FileFits' /\ \A t \in Trips : MetadataThere(t)' = MetadataThere(t) /\ RecordFound(t)' = RecordFound(t)
  BY <1>1 DEF TripInv, FileFits, MetadataThere, RecordFound
<1> QED BY <1>1, <1>2, RowsAndImagesGrow DEF TripInv, TripTypeOK

LEMMA ClearKeepsInv ==
  ASSUME TripInv, NEW p \in Tasks, Clear(p)
  PROVE  TripInv'
<1> DEFINE t == task[p].trip
<1>1. /\ Busy(p) /\ t \in Trips /\ (p \in Trips => MetadataThere(p) /\ RecordFound(p))
      /\ faults = 0 => status[t] # "torn" /\ dataset[t].file # "torn"
      /\ t \notin shared => LeavesTripFit(p)
      /\ task[p].pc \in Making
  BY OwnFiles, TaskTypes DEF Clear, Making, Processing
<1>2. PICK left \in {"none", "some", "all"}, pc \in {"extract", "finish"}, ok \in BOOLEAN :
        RemoveImages(p, left, pc, ok) /\ (pc = "extract" \/ ~ok)
  BY <1>1 DEF Clear, TripInv, TripTypeOK
<1>3. UNCHANGED <<given, runFile, status, runs, crashes>> /\ (UNCHANGED faults \/ Fault)
  BY DEF Clear
<1>4. /\ images' \in [Trips -> {"none", "some", "all"}]
      /\ dataset' \in [Trips -> Datasets] /\ \A s \in Trips \ {t} : dataset'[s] = dataset[s]
      /\ dataset'[t].file = dataset[t].file
  BY <1>1, <1>2, TaskTypes, ZenonT(40) DEF RemoveImages, TripInv, TripTypeOK, Datasets
<1>5. /\ task'[p].trip = t /\ task'[p].force = task[p].force /\ task'[p].pc = pc /\ task'[p].ok = ok
      /\ task'[p] \in TaskStates
  <2>1. task'[p] = [task[p] EXCEPT !.pc = pc, !.ok = ok]
    BY <1>2 DEF RemoveImages
  <2> QED BY <1>2, <2>1, TaskTypes DEF TaskStates, Places, Processing
<1>6. ASSUME NEW q \in Tasks \ {p}
      PROVE  /\ task'[q].trip = task[q].trip /\ task'[q].force = task[q].force
             /\ task'[q].pc = task[q].pc /\ task'[q].ok = task[q].ok
             /\ task'[q].intact = task[q].intact \/ task[q].trip = t
             /\ task'[q] \in TaskStates
  <2>1. task[q] \in TaskStates
    BY TaskTypes
  <2>2. \/ task'[q] = task[q]
        \/ task'[q] = [task[q] EXCEPT !.intact = FALSE] /\ task[q].trip = t
    BY <1>2 DEF RemoveImages
  <2> QED BY <2>1, <2>2 DEF TaskStates
<1>7. task' \in [Tasks -> TaskStates]
  <2>1. task' = [q \in Tasks |-> task'[q]]
    BY <1>2 DEF RemoveImages
  <2>2. \A q \in Tasks : task'[q] \in TaskStates
    BY <1>5, <1>6
  <2> QED BY <2>1, <2>2
<1>8. StaysWithTrip(p)
  BY <1>3, <1>4, <1>5, <1>6, <1>7, FaultCounts DEF StaysWithTrip, TripInv, TripTypeOK, runs
<1>9. t \notin shared => LeavesTripFit(p)'
  BY <1>1, <1>2, <1>3, <1>4, <1>5 DEF LeavesTripFit, Writing, Making, Whole
<1>10. faults' = 0 => status'[t] # "torn" /\ dataset'[t].file # "torn"
  BY <1>1, <1>3, <1>4, FaultCounts, TaskTypes
<1>11. task'[p].pc \in Processing
  BY <1>2, <1>5 DEF Processing
<1> QED BY <1>1, <1>3, <1>8, <1>9, <1>10, <1>11, TaskMoves

LEMMA ReadKeepsInv ==
  ASSUME TripInv, NEW p \in Tasks, Read(p)
  PROVE  TripInv'
<1> DEFINE t == task[p].trip
<1>1. /\ Busy(p) /\ t \in Trips /\ (p \in Trips => MetadataThere(p) /\ RecordFound(p))
      /\ faults = 0 => status[t] # "torn" /\ dataset[t].file # "torn"
      /\ t \notin shared => LeavesTripFit(p)
      /\ task[p].pc = "read" /\ UNCHANGED <<given, runFile, files, runs, crashes>>
  BY OwnFiles, TaskTypes DEF Read, Processing
<1>2. CASE Fail(p)
  BY <1>1, <1>2, MovesOn DEF files, Making, TripInv, TripTypeOK
<1>3. ASSUME task' = [task EXCEPT ![p].pc = "write", ![p].seen = images[t], ![p].intact = TRUE]
      PROVE  TripInv'
  <2>1. /\ task'[p].trip = t /\ task'[p].force = task[p].force /\ task'[p].pc = "write" /\ task'[p].intact
        /\ task' \in [Tasks -> TaskStates] /\ \A q \in Tasks \ {p} : task'[q] = task[q]
    <3> DEFINE new == [task[p] EXCEPT !.pc = "write", !.seen = images[t], !.intact = TRUE]
    <3>1. images[t] \in {"none", "some", "all"}
      BY <1>1 DEF TripInv, TripTypeOK
    <3>2. /\ new \in TaskStates /\ new.trip = t /\ new.force = task[p].force /\ new.pc = "write" /\ new.intact
      BY <3>1, TaskTypes DEF TaskStates, Places, Processing
    <3>3. task' = [task EXCEPT ![p] = new]
      BY <1>3, TaskTypes DEF TaskStates
    <3> HIDE DEF new
    <3> QED BY <3>2, <3>3, TaskTypes
  <2>2. StaysWithTrip(p)
    BY <1>1, <2>1, FaultCounts DEF StaysWithTrip, TripInv, TripTypeOK, runs, files
  <2>3. t \notin shared => LeavesTripFit(p)'
    BY <1>1, <2>1 DEF LeavesTripFit, Writing, Making, Whole, files
  <2>4. faults' = 0 => status'[t] # "torn" /\ dataset'[t].file # "torn"
    BY <1>1 DEF files
  <2> QED BY <1>1, <2>1, <2>2, <2>3, <2>4, TaskMoves DEF Processing
<1> QED BY <1>2, <1>3 DEF Read
(* A write of the dataset.                                                 *)
LEMMA DatasetWritten ==
  ASSUME TripInv, NEW p \in Tasks, task[p].pc \in {"write", "fill"}, task'[p].force = task[p].force,
         task' \in [Tasks -> TaskStates], task'[p].trip = task[p].trip,
         \A q \in Tasks \ {p} :
           /\ task'[q].trip = task[q].trip /\ task'[q].force = task[q].force
           /\ task'[q].pc = task[q].pc /\ task'[q].ok = task[q].ok /\ task'[q].intact = task[q].intact,
         UNCHANGED <<given, runFile, status, images, runs, crashes>>,
         NEW new \in Datasets, dataset' = [dataset EXCEPT ![task[p].trip] = new],
         UNCHANGED faults \/ Fault, new.file = "torn" => Fault,
         \/ task'[p].pc = "fill" /\ new.file = "cut" /\ new.current = task[p].intact /\ task[p].pc = "write"
         \/ task'[p].pc = "finish" /\ task'[p].ok /\ new.file = "whole" /\ new.current = dataset[task[p].trip].current /\ task[p].pc = "fill"
         \/ task'[p].pc = "finish" /\ ~task'[p].ok
  PROVE  TripInv'
<1> DEFINE t == task[p].trip
<1>1. /\ Busy(p) /\ t \in Trips /\ (p \in Trips => MetadataThere(p) /\ RecordFound(p))
      /\ faults = 0 => status[t] # "torn" /\ dataset[t].file # "torn"
      /\ t \notin shared => LeavesTripFit(p)
  BY OwnFiles, TaskTypes DEF Processing
<1>2. /\ dataset' \in [Trips -> Datasets] /\ \A s \in Trips \ {t} : dataset'[s] = dataset[s]
      /\ dataset'[t] = new
  BY <1>1, TaskTypes
<1>3. StaysWithTrip(p)
  BY <1>1, <1>2, FaultCounts DEF StaysWithTrip, TripInv, TripTypeOK, runs
<1>4. t \notin shared => LeavesTripFit(p)'
  BY <1>1, <1>2 DEF LeavesTripFit, Writing, Making, Whole
<1>5. faults' = 0 => status'[t] # "torn" /\ dataset'[t].file # "torn"
  BY <1>1, <1>2, FaultCounts, TaskTypes
<1>6. task'[p].pc \in Processing
  BY DEF Processing
<1> QED BY <1>1, <1>3, <1>4, <1>5, <1>6, TaskMoves

(* Who writes a dataset goes on, and the others learn that they were late. *)
LEMMA WriteMoves ==
  ASSUME TripInv, NEW p \in Tasks, Write(p), task'[p].pc # "finish"
  PROVE  /\ task' \in [Tasks -> TaskStates] /\ task'[p].pc = "fill" /\ task'[p].trip = task[p].trip
         /\ task'[p].force = task[p].force /\ task'[p].overtaken = task[p].overtaken
         /\ \A q \in Tasks \ {p} :
              /\ task'[q].trip = task[q].trip /\ task'[q].force = task[q].force
              /\ task'[q].pc = task[q].pc /\ task'[q].ok = task[q].ok /\ task'[q].intact = task[q].intact
              /\ task'[q].overtaken = (task[q].overtaken \/ Overtakes(p, q))
         /\ UNCHANGED faults
         /\ dataset' = [dataset EXCEPT ![task[p].trip] =
                          [file |-> "cut", from |-> task[p].seen, current |-> task[p].intact]]
<1>1. ~Fail(p)
  BY FailMoves
<1>2. task' = [q \in Tasks |->
                IF q = p THEN [task[q] EXCEPT !.pc = "fill"]
                ELSE IF Overtakes(p, q) THEN [task[q] EXCEPT !.overtaken = TRUE] ELSE task[q]]
  BY <1>1 DEF Write
<1>3. task'[p] = [task[p] EXCEPT !.pc = "fill"] /\ task[p] \in TaskStates
  BY <1>2, TaskTypes
<1>4. /\ task'[p] \in TaskStates /\ task'[p].pc = "fill" /\ task'[p].trip = task[p].trip
      /\ task'[p].force = task[p].force /\ task'[p].overtaken = task[p].overtaken
  BY <1>3 DEF TaskStates, Places, Processing
<1>5. ASSUME NEW q \in Tasks, q # p
      PROVE  /\ task'[q] \in TaskStates /\ task'[q].trip = task[q].trip /\ task'[q].force = task[q].force
             /\ task'[q].pc = task[q].pc /\ task'[q].ok = task[q].ok /\ task'[q].intact = task[q].intact
             /\ task'[q].overtaken = (task[q].overtaken \/ Overtakes(p, q))
  <2>1. task[q] \in TaskStates
    BY TaskTypes
  <2>2. CASE Overtakes(p, q)
    <3>1. task'[q] = [task[q] EXCEPT !.overtaken = TRUE]
      BY <1>2, <1>5, <2>2
    <3> QED BY <2>1, <2>2, <3>1 DEF TaskStates
  <2>3. CASE ~Overtakes(p, q)
    <3>1. task'[q] = task[q]
      BY <1>2, <1>5, <2>3
    <3>2. task[q].overtaken = (task[q].overtaken \/ Overtakes(p, q))
      <4>1. task[q].overtaken \in BOOLEAN
        BY <2>1 DEF TaskStates
      <4> QED BY <2>3, <4>1
    <3> QED BY <2>1, <3>1, <3>2
  <2> QED BY <2>2, <2>3
<1>6. task' \in [Tasks -> TaskStates]
  <2>1. \A q \in Tasks : task'[q] \in TaskStates
    BY <1>4, <1>5
  <2>2. task' = [q \in Tasks |-> task'[q]]
    BY <1>2
  <2> QED BY <2>1, <2>2
<1> QED BY <1>1, <1>4, <1>5, <1>6 DEF Write

LEMMA WriteKeepsInv ==
  ASSUME TripInv, NEW p \in Tasks, Write(p)
  PROVE  TripInv'
<1>1. task[p].pc = "write" /\ UNCHANGED <<given, runFile, status, images, runs, crashes>>
  BY DEF Write
<1>2. CASE Fault /\ Fail(p) /\ UNCHANGED dataset
  BY <1>1, <1>2, MovesOn DEF Making, TripInv, TripTypeOK
<1> DEFINE new == [file |-> "cut", from |-> task[p].seen, current |-> task[p].intact]
<1>3. CASE task'[p].pc # "finish"
  <2>1. new \in Datasets /\ new.file = "cut" /\ new.current = task[p].intact
    BY TaskTypes DEF Datasets, TaskStates
  <2>2. dataset' = [dataset EXCEPT ![task[p].trip] = new]
    BY <1>3, WriteMoves
  <2> HIDE DEF new
  <2> QED BY <1>1, <1>3, <2>1, <2>2, DatasetWritten, WriteMoves
<1>4. (Fault /\ Fail(p) /\ UNCHANGED dataset) \/ task'[p].pc # "finish"
  <2>1. task' = [q \in Tasks |->
                  IF q = p THEN [task[q] EXCEPT !.pc = "fill"]
                  ELSE IF Overtakes(p, q) THEN [task[q] EXCEPT !.overtaken = TRUE] ELSE task[q]]
        => task'[p].pc # "finish"
    BY TaskTypes DEF TaskStates
  <2> QED BY <2>1 DEF Write
<1> QED BY <1>2, <1>3, <1>4

LEMMA FillKeepsInv ==
  ASSUME TripInv, NEW p \in Tasks, Fill(p)
  PROVE  TripInv'
<1> DEFINE t == task[p].trip
           new(file) == [dataset[t] EXCEPT !.file = file]
<1>1. task[p].pc = "fill" /\ UNCHANGED <<given, runFile, status, images, runs, crashes>> /\ t \in Trips
  BY TaskTypes DEF Fill
<1>2. ASSUME NEW file \in {"whole", "cut", "torn"}, dataset' = [dataset EXCEPT ![t].file = file]
      PROVE  /\ dataset' = [dataset EXCEPT ![t] = new(file)] /\ new(file) \in Datasets
             /\ new(file).file = file /\ new(file).current = dataset[t].current
  BY <1>1, <1>2, TaskTypes DEF Datasets
<1> HIDE DEF new
<1>3. CASE dataset' = [dataset EXCEPT ![t].file = "whole"] /\ Goto(p, "finish") /\ UNCHANGED faults
  <2>1. "finish" \in Places
    BY DEF Places, Processing
  <2>2. CASE task[p].ok
    BY <1>1, <1>2, <1>3, <2>1, <2>2, DatasetWritten, GotoMoves
  <2>3. CASE ~task[p].ok
    BY <1>1, <1>2, <1>3, <2>1, <2>3, DatasetWritten, GotoMoves
  <2> QED BY <2>2, <2>3
<1>4. ASSUME Fault, Fail(p), NEW file \in {"cut", "torn"}, dataset' = [dataset EXCEPT ![t].file = file]
      PROVE  TripInv'
  BY <1>1, <1>2, <1>4, DatasetWritten, FailMoves
<1> QED BY <1>3, <1>4 DEF Fill

LEMMA FinishKeepsInv ==
  ASSUME TripInv, NEW p \in Tasks, Finish(p)
  PROVE  TripInv'
<1> DEFINE t == task[p].trip
           result == IF task[p].ok THEN "completed" ELSE "failed"
<1>1. /\ Busy(p) /\ t \in Trips /\ (p \in Trips => MetadataThere(p) /\ RecordFound(p))
      /\ faults = 0 => status[t] # "torn" /\ dataset[t].file # "torn"
      /\ t \notin shared => LeavesTripFit(p)
      /\ task[p].pc = "finish" /\ UNCHANGED <<given, runFile, images, dataset, runs, crashes>>
      /\ Goto(p, "done")
  BY OwnFiles, TaskTypes DEF Finish, Processing
<1>2. result \in Statuses /\ "done" \in Places
  BY DEF Statuses, Places, AtRest
<1>3. /\ task' \in [Tasks -> TaskStates] /\ task'[p].trip = t /\ task'[p].force = task[p].force
      /\ task'[p].pc = "done" /\ task'[p].ok = task[p].ok
      /\ \A q \in Tasks \ {p} : task'[q] = task[q]
  BY <1>1, <1>2, GotoMoves
<1>4. /\ status' \in [Trips -> Statuses] /\ \A s \in Trips \ {t} : status'[s] = status[s]
      /\ faults' \in 0..limits.faults /\ faults' >= faults
      /\ status'[t] = result \/ (faults' # 0 /\ status'[t] \in {status[t], "torn"})
  <2>1. WriteStatus(t, result) \/ WriteStatusFails(t)
    BY DEF Finish
  <2> HIDE DEF result
  <2> QED BY <1>1, <1>2, <2>1, StatusChanges
<1>5. StaysWithTrip(p)
  BY <1>1, <1>3, <1>4 DEF StaysWithTrip, TripInv, TripTypeOK, runs
<1>6. t \notin shared => LeavesTripFit(p)'
  BY <1>1, <1>3, <1>4 DEF LeavesTripFit, Writing, Making, Whole
<1>7. faults' = 0 => status'[t] # "torn" /\ dataset'[t].file # "torn"
  BY <1>1, <1>4, TaskTypes
<1> QED BY <1>1, <1>3, <1>5, <1>6, <1>7, TaskMoves DEF AtRest
LEMMA ProcessTripKeepsInv ==
  ASSUME TripInv, NEW p \in Tasks, ProcessTrip(p)
  PROVE  TripInv'
BY SkipBeginKeepInv, ProbeKeepsInv, ClearKeepsInv, ExtractWritesKeepsInv, ExtractEndsKeepsInv, ReadKeepsInv,
   WriteKeepsInv, FillKeepsInv, FinishKeepsInv DEF ProcessTrip

(* A step before the first on the files: of the backend after a recording, *)
(* and of a worker that was given the trip.                                *)
LEMMA Arrives ==
  ASSUME TripInv, NEW p \in Tasks, task[p].pc \in {"capturing", "waiting", "queue"},
         NEW pc \in {"waiting", "over", "late", "start"}, Goto(p, pc),
         UNCHANGED <<given, runFile, images, dataset, runs, crashes>>,
         \/ UNCHANGED <<status, faults>>
         \/ WriteStatus(task[p].trip, QueueState(p))
         \/ WriteStatusFails(task[p].trip) /\ pc = "over",
         p \in Trips /\ pc = "start" => Ready(p), p \in Workers => pc = "start"
  PROVE  TripInv'
<1> DEFINE t == task[p].trip
<1>1. Busy(p) /\ t \in Trips /\ (p \in Trips => t = p) /\ pc \in Places
  BY ProcessingIsBusy, TaskTypes DEF TripInv, TasksFit, Places, AtRest, Processing
<1>2. /\ task' \in [Tasks -> TaskStates] /\ task'[p].trip = t /\ task'[p].force = task[p].force
      /\ task'[p].pc = pc /\ \A q \in Tasks \ {p} : task'[q] = task[q]
  BY <1>1, GotoMoves
<1>3. /\ status' \in [Trips -> Statuses] /\ \A s \in Trips \ {t} : status'[s] = status[s]
      /\ faults' \in 0..limits.faults /\ faults' >= faults
      /\ status'[t] \in {status[t], "queued", "skipped"} \/ (faults' # 0 /\ status'[t] = "torn")
  <2>1. QueueState(p) \in {"queued", "skipped"} /\ QueueState(p) \in Statuses
    BY DEF QueueState, Statuses
  <2>2. CASE UNCHANGED <<status, faults>>
    BY <2>2, FaultCounts DEF TripInv, TripTypeOK
  <2>3. CASE WriteStatus(t, QueueState(p)) \/ WriteStatusFails(t)
    BY <1>1, <2>1, <2>3, StatusChanges
  <2> QED BY <2>2, <2>3
<1>4. StaysWithTrip(p)
  BY <1>2, <1>3 DEF StaysWithTrip, TripInv, TripTypeOK, runs
<1>5. t \notin shared => LeavesTripFit(p)'
  BY <1>1, <1>2, <1>3 DEF LeavesTripFit, Writing, Making, Whole, TripInv, CompletedIsWhole
<1>6. faults' = 0 => status'[t] # "torn" /\ dataset'[t].file # "torn"
  BY <1>1, <1>3, TaskTypes DEF TripInv, ResultsFit
<1>7. p \in Trips /\ pc = "start" => MetadataThere(p) /\ RecordFound(p)
  BY <1>1 DEF Ready
<1>8. Trips \cap Workers = {}
  BY TripAssumption
<1> QED BY <1>1, <1>2, <1>4, <1>5, <1>6, <1>7, <1>8, TaskMoves DEF AtRest, Processing

LEMMA LiveKeepsInv ==
  ASSUME TripInv, NEW t \in Trips, Live(t)
  PROVE  TripInv'
<1>1. t \in Tasks /\ task[t].trip = t /\ t \notin Workers
  BY TripAssumption DEF Tasks, TripInv, TasksFit
<1>2. CASE CaptureStop(t)
  BY <1>1, <1>2, Arrives DEF CaptureStop
<1>3. CASE ReadinessSeen(t)
  BY <1>1, <1>3, Arrives DEF ReadinessSeen, files
<1>4. CASE ReadinessTimesOut(t)
  BY <1>1, <1>4, Arrives DEF ReadinessTimesOut, files
<1> QED BY <1>2, <1>3, <1>4 DEF Live
(* A worker without a trip.                                                *)
LEMMA IdleTask ==
  Task(1, "idle", FALSE, FALSE) \in TaskStates /\ Task(1, "idle", FALSE, FALSE).pc = "idle"
BY TripAssumption DEF Task, TaskStates, Places, Trips

(* A worker is done with its trip, which has the status it is counted as   *)
(* unless a file failed.                                                   *)
LEMMA CountKeepsInv ==
  ASSUME TripInv, NEW w \in Workers, task[w].pc # "idle",
         NEW as \in {"completed", "skipped", "failed"}, Count(w, as),
         UNCHANGED <<given, runFile, images, dataset, batch, report, shared, crashes>>,
         status' \in [Trips -> Statuses], \A s \in Trips \ {task[w].trip} : status'[s] = status[s],
         faults' \in 0..limits.faults, faults' >= faults,
         \/ status' = status
         \/ faults' # 0 /\ status'[task[w].trip] \in {status[task[w].trip], "torn"},
         faults' = 0 /\ task[w].trip \notin shared => status[task[w].trip] = as
  PROVE  TripInv'
<1> DEFINE t == task[w].trip
           idle == Task(1, "idle", FALSE, FALSE)
<1>1. /\ w \in Tasks /\ w \notin Trips /\ t \in Trips /\ Tasks = Trips \cup Workers /\ Trips \cap Workers = {}
      /\ UNCHANGED <<recording, limits, runFile, images, dataset, batch, report, shared, crashes>>
      /\ faults \in Nat /\ faults' \in Nat
  BY TaskTypes, TripAssumption DEF given, Tasks
<1>2. faults' = 0 => faults = 0
  BY <1>1
<1>3. idle \in TaskStates /\ idle.pc = "idle"
  BY IdleTask
<1> HIDE DEF idle
<1>4. /\ counted' = [counted EXCEPT ![t] = as] /\ counted \in [Trips -> {"none", "completed", "skipped", "failed"}]
      /\ task' \in [Tasks -> TaskStates] /\ task'[w] = idle /\ \A q \in Tasks \ {w} : task'[q] = task[q]
  BY <1>1, <1>3, TaskTypes DEF Count, idle, TripInv, TripTypeOK
<1>5. TripTypeOK'
  BY <1>1, <1>4 DEF TripInv, TripTypeOK
<1>6. Busy(w) /\ ~Busy(w)' /\ \A q \in Tasks \ {w} : Busy(q)' = Busy(q)
  BY <1>1, <1>3, <1>4 DEF Busy
<1>7. FileFits' /\ LiveFindsItsRow'
  <2>1. \A s \in Trips : MetadataThere(s)' = MetadataThere(s) /\ RecordFound(s)' = RecordFound(s)
    BY <1>1 DEF MetadataThere, RecordFound
  <2> QED BY <1>1, <1>4, <2>1 DEF TripInv, FileFits, LiveFindsItsRow
<1>8. TasksFit'
  <2>1. \A s \in Trips : task'[s] = task[s]
    BY <1>1, <1>4
  <2>2. \A v \in Workers : task'[v].pc \in {"idle", "queue", "done"} \cup Processing
    BY <1>1, <1>3, <1>4 DEF TripInv, TasksFit
  <2>3. \A v \in Workers : Busy(v)' =>
          batch.state = "running" /\ task'[v].trip \notin batch.todo /\ task'[v].force = batch.force
    BY <1>1, <1>4, <1>6 DEF TripInv, TasksFit
  <2> QED BY <1>1, <2>1, <2>2, <2>3 DEF TripInv, TasksFit
<1>9. TripsAreHeldOnce'
  <2>1. ASSUME NEW q \in Tasks, Busy(q)' PROVE q # w /\ Busy(q) /\ task'[q] = task[q]
    BY <1>4, <1>6, <2>1
  <2> QED BY <1>1, <2>1 DEF TripInv, TripsAreHeldOnce
<1>10. ASSUME NEW q \in Tasks, q # w, task[q].trip = t, t \notin shared PROVE ~Busy(q)
  BY <1>1, <1>6, <1>10 DEF TripInv, TripsAreHeldOnce
<1>11. FilesFit'
  <2> SUFFICES ASSUME NEW q \in Tasks, task'[q].trip \notin shared, task'[q].pc \in Writing
               PROVE  /\ status'[task'[q].trip] = "running"
                      /\ task'[q].pc = "write" => task'[q].intact
                      /\ task'[q].pc = "fill" => dataset'[task'[q].trip].file = "cut" /\ dataset'[task'[q].trip].current
                      /\ task'[q].pc = "finish" /\ task'[q].ok => Whole(task[q].trip)'
                      /\ ~task'[q].force /\ task'[q].pc \in Making => dataset'[task'[q].trip].file = "none"
    <3>1. \A q \in Tasks : task'[q].pc \in Writing => task'[q] = task[q]
      BY <1>3, <1>4 DEF Writing, Making
    <3> QED BY <1>1, <3>1 DEF FilesFit, Whole
  <2>1. q # w /\ task'[q] = task[q]
    BY <1>3, <1>4 DEF Writing, Making
  <2>2. Busy(q)
    BY <2>1, ProcessingIsBusy DEF Writing, Making, Processing
  <2>3. task[q].trip # t /\ task[q].trip \in Trips
    BY <1>1, <1>10, <2>1, <2>2, TaskTypes
  <2>4. status'[task[q].trip] = status[task[q].trip]
    BY <2>3
  <2> QED BY <1>1, <2>1, <2>4 DEF TripInv, FilesFit, Whole
<1>12. CompletedIsWhole'
  BY <1>1 DEF TripInv, CompletedIsWhole
<1>13. ResultsFit'
  <2> SUFFICES ASSUME faults' = 0 PROVE ResultsFit'
    BY DEF ResultsFit
  <2>1. status' = status
    BY <1>2
  <2>2. \A v \in Workers : task'[v].pc = "done" => v # w /\ task'[v] = task[v]
    BY <1>1, <1>3, <1>4
  <2> QED BY <1>1, <1>2, <2>1, <2>2 DEF TripInv, ResultsFit
<1>14. CountsFit'
  <2> SUFFICES ASSUME faults' = 0, shared = {}, batch.state # "idle", NEW s \in Trips \ batch.todo
               PROVE  /\ task'[s].pc \in AtRest
                      /\ IsCounted(s)' \/ \E v \in Workers : Busy(v)' /\ task'[v].trip = s
    BY <1>1 DEF CountsFit
  <2>1. task[s].pc \in AtRest /\ (IsCounted(s) \/ \E v \in Workers : Busy(v) /\ task[v].trip = s)
    BY <1>2 DEF TripInv, CountsFit
  <2>2. task'[s].pc \in AtRest /\ status' = status
    BY <1>1, <1>2, <1>4, <2>1
  <2>3. CASE s = t
    <3>1. counted'[s] = as /\ status'[s] = as
      BY <1>1, <1>4, <2>2, <2>3
    <3> QED BY <2>2, <3>1 DEF IsCounted
  <2>4. CASE s # t /\ IsCounted(s)
    <3>1. counted'[s] = counted[s]
      BY <1>1, <1>4, <2>4
    <3> QED BY <2>2, <2>4, <3>1 DEF IsCounted
  <2>5. ASSUME s # t, NEW v \in Workers, Busy(v), task[v].trip = s PROVE Busy(v)' /\ task'[v].trip = s
    BY <1>1, <1>4, <1>6, <2>5
  <2> QED BY <2>1, <2>2, <2>3, <2>4, <2>5
<1>15. ReportFits'
  BY <1>1, <1>6, Zenon DEF TripInv, TasksFit, ReportFits
<1> QED BY <1>5, <1>7, <1>8, <1>9, <1>11, <1>12, <1>13, <1>14, <1>15 DEF TripInv

LEMMA WorkerReportsKeepsInv ==
  ASSUME TripInv, NEW w \in Workers, WorkerReports(w)
  PROVE  TripInv'
<1> DEFINE state == status[task[w].trip]
           as == IF state \in {"completed", "skipped"} THEN state
                 ELSE IF task[w].ok THEN "completed" ELSE "failed"
<1>1. /\ as \in {"completed", "skipped", "failed"} /\ Count(w, as) /\ task[w].pc = "done"
      /\ UNCHANGED <<given, runFile, files, batch, report, shared, crashes>>
  BY DEF WorkerReports
<1>2. /\ status \in [Trips -> Statuses] /\ faults \in 0..limits.faults /\ UNCHANGED <<status, images, dataset, faults>>
      /\ faults \in Nat
  BY <1>1, TripAssumption DEF TripInv, TripTypeOK, files, Limits
<1>3. faults' = 0 /\ task[w].trip \notin shared => state = as
  BY <1>1, <1>2 DEF TripInv, ResultsFit
<1>4. /\ faults' \in 0..limits.faults /\ faults' >= faults /\ task[w].pc # "idle"
      /\ status' = status /\ \A s \in Trips \ {task[w].trip} : status'[s] = status[s]
  BY <1>1, <1>2
<1>5. faults' = 0 /\ task[w].trip \notin shared => status[task[w].trip] = as
  BY <1>3
<1>6. UNCHANGED <<given, runFile, images, dataset, batch, report, shared, crashes>>
  BY <1>1, <1>2
<1> HIDE DEF as, state
<1> QED BY <1>1, <1>2, <1>4, <1>5, <1>6, CountKeepsInv

LEMMA WorkerQueuesKeepsInv ==
  ASSUME TripInv, NEW w \in Workers, WorkerQueues(w)
  PROVE  TripInv'
<1>1. /\ task[w].pc = "queue" /\ w \in Tasks /\ w \notin Trips /\ task[w].trip \in Trips
      /\ UNCHANGED <<given, runFile, images, dataset, batch, report, shared, crashes>>
  BY TaskTypes, TripAssumption DEF WorkerQueues, Tasks
<1>2. CASE WriteStatus(task[w].trip, QueueState(w)) /\ Goto(w, "start") /\ UNCHANGED counted
  BY <1>1, <1>2, Arrives DEF runs
<1>3. CASE WriteStatusFails(task[w].trip) /\ Count(w, "failed")
  <2>1. "failed" \in Statuses
    BY DEF Statuses
  <2> QED BY <1>1, <1>3, <2>1, StatusChanges, CountKeepsInv
<1> QED BY <1>2, <1>3 DEF WorkerQueues

(* Min, of a set of numbers.                                               *)
LEMMA LeastOf ==
  ASSUME NEW S \in SUBSET Nat, S # {}
  PROVE  Min(S) \in S /\ \A n \in S : Min(S) <= n
<1>1. PICK m \in S : \A n \in S : ~(<<n, m>> \in OpToRel(<, Nat))
  BY NatLessThanWellFounded, WFMin
<1>2. ASSUME NEW n \in S PROVE m <= n
  <2> SUFFICES ASSUME n < m PROVE FALSE
    OBVIOUS
  <2>1. <<n, m>> \in OpToRel(<, Nat)
    BY DEF OpToRel
  <2> QED BY <1>1, <2>1
<1> QED BY <1>2 DEF Min

(* A worker takes a trip; the trip is shared if the backend still has it.  *)
LEMMA TakeKeepsInv ==
  ASSUME TripInv, NEW w \in Workers, Take(w)
  PROVE  TripInv'
<1> DEFINE t == Min(batch.todo)
           given_to == Task(t, "queue", batch.force, batch.only)
<1>1. /\ w \in Tasks /\ w \notin Trips /\ Tasks = Trips \cup Workers /\ Trips \cap Workers = {}
      /\ batch \in Batches /\ batch.todo \in SUBSET Trips /\ task \in [Tasks -> TaskStates]
  BY TaskTypes, TripAssumption DEF Tasks, TripInv, TripTypeOK, Batches
<1>2. /\ batch.state = "running" /\ task[w].pc = "idle" /\ batch.todo # {}
      /\ batch' = [batch EXCEPT !.todo = @ \ {t}]
      /\ task' = [task EXCEPT ![w] = given_to]
      /\ shared' = IF task[t].pc \in AtRest THEN shared ELSE shared \cup {t}
      /\ UNCHANGED <<recording, limits, runFile, status, images, dataset, faults, counted, report, crashes>>
  BY DEF Take, given, files
<1>3. t \in batch.todo /\ t \in Trips
  <2>1. batch.todo \in SUBSET Nat
    BY <1>1, TripAssumption DEF Trips
  <2> HIDE DEF t
  <2>2. t \in batch.todo
    BY <1>2, <2>1, LeastOf DEF t
  <2> QED BY <1>1, <2>2
<1> HIDE DEF t
<1>4. /\ given_to \in TaskStates /\ given_to.trip = t /\ given_to.pc = "queue" /\ given_to.force = batch.force
  BY <1>1, <1>3 DEF Task, TaskStates, Places, Batches
<1> HIDE DEF given_to
<1>5. /\ task' \in [Tasks -> TaskStates] /\ task'[w] = given_to /\ \A q \in Tasks \ {w} : task'[q] = task[q]
  BY <1>1, <1>2, <1>4
<1>6. /\ batch' \in Batches /\ batch'.state = "running" /\ batch'.force = batch.force
      /\ batch'.todo = batch.todo \ {t}
  BY <1>1, <1>2 DEF Batches
<1>7. shared \subseteq shared' /\ shared' \subseteq Trips /\ (task[t].pc \notin AtRest => t \in shared')
  BY <1>2, <1>3 DEF TripInv, TripTypeOK
<1>8. TripTypeOK'
  BY <1>2, <1>5, <1>6, <1>7 DEF TripInv, TripTypeOK
<1>9. ~Busy(w) /\ Busy(w)' /\ \A q \in Tasks \ {w} : Busy(q)' = Busy(q)
  BY <1>1, <1>2, <1>4, <1>5 DEF Busy
<1>10. FileFits' /\ LiveFindsItsRow'
  <2>1. \A s \in Trips : MetadataThere(s)' = MetadataThere(s) /\ RecordFound(s)' = RecordFound(s)
    BY <1>2 DEF MetadataThere, RecordFound
  <2> QED BY <1>1, <1>2, <1>5, <2>1 DEF TripInv, FileFits, LiveFindsItsRow
<1>11. TasksFit'
  <2>1. \A s \in Trips : task'[s] = task[s]
    BY <1>1, <1>5
  <2>2. \A v \in Workers : task'[v].pc \in {"idle", "queue", "done"} \cup Processing
    BY <1>1, <1>4, <1>5 DEF TripInv, TasksFit
  <2>3. \A v \in Workers : Busy(v)' =>
          batch'.state = "running" /\ task'[v].trip \notin batch'.todo /\ task'[v].force = batch'.force
    BY <1>1, <1>4, <1>5, <1>6, <1>9 DEF TripInv, TasksFit
  <2> QED BY <1>6, <2>1, <2>2, <2>3 DEF TripInv, TasksFit
<1>12. ASSUME NEW q \in Tasks, q # w, task[q].trip = t, Busy(q) PROVE t \in shared'
  <2>1. q \in Trips
    BY <1>1, <1>3, <1>12 DEF TripInv, TasksFit
  <2>2. q = t
    BY <1>12, <2>1 DEF TripInv, TasksFit
  <2> QED BY <1>7, <1>12, <2>1, <2>2 DEF Busy
<1>13. TripsAreHeldOnce'
  <2> SUFFICES ASSUME NEW p \in Tasks, NEW q \in Tasks, Busy(p)', Busy(q)', task'[p].trip = task'[q].trip,
                      task'[p].trip \notin shared'
               PROVE  p = q
    BY DEF TripsAreHeldOnce
  <2>1. CASE p = w \/ q = w
    BY <1>4, <1>5, <1>9, <1>12, <2>1
  <2>2. CASE p # w /\ q # w
    BY <1>5, <1>7, <1>9, <2>2 DEF TripInv, TripsAreHeldOnce
  <2> QED BY <2>1, <2>2
<1>14. FilesFit'
  <2>1. \A q \in Tasks : task'[q].pc \in Writing => q # w /\ task'[q] = task[q]
    BY <1>4, <1>5 DEF Writing, Making
  <2> QED BY <1>2, <1>7, <2>1 DEF TripInv, FilesFit, Whole
<1>15. CompletedIsWhole'
  BY <1>2, <1>7 DEF TripInv, CompletedIsWhole
<1>16. ResultsFit'
  <2>1. \A v \in Workers : task'[v].pc = "done" => task'[v] = task[v]
    BY <1>1, <1>4, <1>5
  <2> QED BY <1>2, <1>7, <2>1 DEF TripInv, ResultsFit
<1>17. CountsFit'
  <2> SUFFICES ASSUME faults = 0, shared' = {}, NEW s \in Trips \ batch'.todo
               PROVE  /\ task'[s].pc \in AtRest
                      /\ IsCounted(s)' \/ \E v \in Workers : Busy(v)' /\ task'[v].trip = s
    BY <1>2 DEF CountsFit
  <2>1. shared = {}
    BY <1>7
  <2>2. CASE s = t
    BY <1>1, <1>3, <1>4, <1>5, <1>7, <1>9, <2>2
  <2>3. CASE s # t
    <3>1. task[s].pc \in AtRest /\ (IsCounted(s) \/ \E v \in Workers : Busy(v) /\ task[v].trip = s)
      BY <1>2, <1>6, <2>1, <2>3 DEF TripInv, CountsFit
    <3>2. task'[s].pc \in AtRest
      BY <1>1, <1>5, <3>1
    <3>3. IsCounted(s)' = IsCounted(s)
      BY <1>2 DEF IsCounted
    <3>4. ASSUME NEW v \in Workers, Busy(v) PROVE Busy(v)' /\ task'[v] = task[v]
      BY <1>1, <1>5, <1>9, <3>4
    <3> QED BY <3>1, <3>2, <3>3, <3>4
  <2> QED BY <2>2, <2>3
<1>18. ReportFits'
  BY <1>6, Zenon DEF ReportFits
<1> QED BY <1>8, <1>10, <1>11, <1>13, <1>14, <1>15, <1>16, <1>17, <1>18 DEF TripInv
(* A row begins when those before it are whole, and the last one ends.     *)
LEMMA RowBeginsKeepsInv ==
  ASSUME TripInv, NEW t \in Trips, RowBegins(t)
  PROVE  TripInv'
<1> DEFINE row == [trip |-> t, whole |-> FALSE]
           Rows == [trip : Trips, whole : BOOLEAN]
<1>1. /\ runFile \in Seq(Rows) /\ row \in Rows /\ \A i \in DOMAIN runFile : runFile[i].whole
      /\ runFile' = Append(runFile, row)
      /\ UNCHANGED <<given, files, task, runs, crashes>>
  BY DEF TripInv, TripTypeOK, RowBegins
<1> HIDE DEF row, Rows
<1>2. /\ runFile' \in Seq(Rows) /\ Len(runFile') = Len(runFile) + 1 /\ Len(runFile) \in Nat
      /\ DOMAIN runFile = 1..Len(runFile) /\ DOMAIN runFile' = 1..Len(runFile) + 1
      /\ \A i \in 1..Len(runFile) : runFile'[i] = runFile[i]
  BY <1>1
<1>3. FileFits'
  BY <1>1, <1>2 DEF FileFits
<1>4. ASSUME NEW s \in Trips PROVE (MetadataThere(s) => MetadataThere(s)') /\ (RecordFound(s) => RecordFound(s)')
  <2>1. \A i \in DOMAIN runFile : i \in DOMAIN runFile' /\ runFile'[i] = runFile[i]
    BY <1>2
  <2>2. \A i \in DOMAIN runFile : \A j \in 1..i : j \in DOMAIN runFile
    BY <1>2
  <2> QED BY <2>1, <2>2 DEF MetadataThere, RecordFound
<1> QED BY <1>1, <1>2, <1>3, <1>4, RowsAndImagesGrow DEF files, TripInv, TripTypeOK, Rows

LEMMA RowEndsKeepsInv ==
  ASSUME TripInv, RowEnds
  PROVE  TripInv'
<1> DEFINE n == Len(runFile)
           row == [runFile[n] EXCEPT !.whole = TRUE]
           Rows == [trip : Trips, whole : BOOLEAN]
<1>1. /\ runFile \in Seq(Rows) /\ runFile # <<>> /\ runFile' = [runFile EXCEPT ![Len(runFile)].whole = TRUE]
      /\ UNCHANGED <<given, files, task, runs, crashes>>
  BY DEF TripInv, TripTypeOK, RowEnds
<1>2. n \in Nat \ {0} /\ DOMAIN runFile = 1..n /\ n \in 1..n
  <2> HIDE DEF Rows
  <2>1. n \in Nat \ {0}
    BY <1>1, EmptySeq
  <2>2. DOMAIN runFile = 1..n
    BY <1>1, LenProperties
  <2> QED BY <2>1, <2>2
<1>3. runFile[n] \in Rows
  <2> HIDE DEF Rows
  <2> QED BY <1>1, <1>2, LenProperties
<1>4. row \in Rows /\ row.trip = runFile[n].trip /\ row.whole /\ runFile' = [runFile EXCEPT ![n] = row]
  BY <1>1, <1>3
<1> HIDE DEF row, Rows
<1>5. /\ runFile' \in Seq(Rows) /\ Len(runFile') = n /\ DOMAIN runFile' = 1..n
      /\ runFile'[n] = row /\ \A i \in 1..n : i # n => runFile'[i] = runFile[i]
  <2> DEFINE new == [runFile EXCEPT ![n] = row]
  <2>1. /\ new \in Seq(Rows) /\ Len(new) = Len(runFile)
        /\ \A i \in 1..Len(runFile) : new[i] = IF i = n THEN row ELSE runFile[i]
    BY <1>1, <1>2, <1>4, ExceptSeq
  <2> HIDE DEF new
  <2>2. DOMAIN new = 1..Len(new)
    BY <2>1, LenProperties
  <2>3. runFile' = new
    BY <1>4 DEF new
  <2> QED BY <1>2, <2>1, <2>2, <2>3
<1>6. FileFits'
  <2> DEFINE m == Len(runFile')
  <2>1. m = n /\ \A i \in 1..n - 1 : runFile[i].whole
    BY <1>5 DEF TripInv, FileFits
  <2> HIDE DEF m, n
  <2>2. \A i \in 1..m - 1 : runFile'[i].whole
    BY <1>2, <1>5, <2>1
  <2> QED BY <2>2 DEF FileFits, m
<1>7. ASSUME NEW s \in Trips PROVE (MetadataThere(s) => MetadataThere(s)') /\ (RecordFound(s) => RecordFound(s)')
  <2>1. \A i \in DOMAIN runFile : /\ i \in DOMAIN runFile' /\ runFile'[i].trip = runFile[i].trip
                                  /\ runFile[i].whole => runFile'[i].whole
    BY <1>2, <1>4, <1>5
  <2>2. \A i \in DOMAIN runFile : \A j \in 1..i : j \in DOMAIN runFile
    BY <1>2
  <2> HIDE DEF n
  <2> QED BY <2>1, <2>2 DEF MetadataThere, RecordFound
<1> QED BY <1>1, <1>5, <1>6, <1>7, RowsAndImagesGrow DEF files, TripInv, TripTypeOK, Rows

(* A step of process-runs while no worker has a trip.                      *)
LEMMA BatchChanges ==
  ASSUME TripInv, \A w \in Workers : ~Busy(w),
         UNCHANGED <<given, runFile, status, images, dataset, task, shared, crashes>>,
         faults' \in 0..limits.faults, faults' >= faults, batch' \in Batches,
         counted' \in [Trips -> {"none", "completed", "skipped", "failed"}],
         batch'.state # "running" => batch'.todo = {}, CountsFit', ReportFits'
  PROVE  TripInv'
<1>1. UNCHANGED <<recording, limits, runFile, status, images, dataset, task, shared, crashes>>
  BY DEF given
<1>2. faults' = 0 => faults = 0
  BY TripAssumption DEF TripInv, TripTypeOK, Limits
<1>3. TripTypeOK'
  BY <1>1 DEF TripInv, TripTypeOK
<1>4. TasksFit'
  BY <1>1 DEF TripInv, TasksFit, Busy
<1>5. FileFits' /\ LiveFindsItsRow' /\ TripsAreHeldOnce' /\ FilesFit' /\ CompletedIsWhole'
  BY <1>1 DEF TripInv, FileFits, LiveFindsItsRow, MetadataThere, RecordFound, Busy, TripsAreHeldOnce, FilesFit,
              Whole, CompletedIsWhole
<1>6. ResultsFit'
  BY <1>1, <1>2 DEF TripInv, ResultsFit
<1> QED BY <1>3, <1>4, <1>5, <1>6 DEF TripInv

LEMMA StartBatchKeepsInv ==
  ASSUME TripInv, StartBatch
  PROVE  TripInv'
<1>1. PICK force \in BOOLEAN, only \in BOOLEAN :
        batch' = [state |-> "running", force |-> force, only |-> only, todo |-> Trips, number |-> batch.number + 1]
  BY DEF StartBatch
<1>2. /\ batch.state \in {"idle", "done"} /\ batch.number < limits.batches /\ counted' = [t \in Trips |-> "none"]
      /\ UNCHANGED <<given, runFile, files, task, report, shared, crashes>>
  BY DEF StartBatch
<1>3. batch' \in Batches /\ batch'.state = "running" /\ batch'.todo = Trips
  BY <1>1, <1>2, TripAssumption DEF TripInv, TripTypeOK, Batches, Limits
<1>4. CountsFit'
  BY <1>3 DEF CountsFit
<1>5. ReportFits'
  BY <1>3, Zenon DEF ReportFits
<1>6. \A w \in Workers : ~Busy(w)
  BY <1>2 DEF TripInv, TasksFit
<1> QED BY <1>2, <1>3, <1>4, <1>5, <1>6, BatchChanges, FaultCounts DEF files

LEMMA EndBatchKeepsInv ==
  ASSUME TripInv, EndBatch
  PROVE  TripInv'
<1>1. /\ batch.state = "running" /\ batch.todo = {} /\ \A w \in Workers : task[w].pc = "idle"
      /\ batch' = [batch EXCEPT !.state = "reporting"]
      /\ UNCHANGED <<given, runFile, files, task, counted, report, shared, crashes>>
  BY DEF EndBatch
<1>2. batch' \in Batches /\ batch'.state = "reporting" /\ batch'.todo = {}
  BY <1>1 DEF TripInv, TripTypeOK, Batches
<1>3. CountsFit'
  BY <1>1, <1>2 DEF TripInv, CountsFit, IsCounted, Busy, files
<1>4. ReportFits'
  BY <1>2, Zenon DEF ReportFits
<1>5. \A w \in Workers : ~Busy(w)
  BY <1>1, TripAssumption DEF Busy
<1> QED BY <1>1, <1>2, <1>3, <1>4, <1>5, BatchChanges, FaultCounts DEF files, TripInv, TripTypeOK
(* All trips are counted when the reports are written, and when nothing    *)
(* failed every dataset can be read.                                       *)
LEMMA EndRunsKeepsInv ==
  ASSUME TripInv, EndRuns
  PROVE  TripInv'
<1>1. /\ batch.state = "reporting" /\ batch' = [batch EXCEPT !.state = "done"]
      /\ WriteRunDatasetReports
      /\ UNCHANGED <<given, runFile, status, images, dataset, task, counted, shared, crashes>>
  BY DEF EndRuns
<1>2. batch' \in Batches /\ batch'.state = "done" /\ batch.todo = {} /\ batch'.todo = {}
  BY <1>1 DEF TripInv, TripTypeOK, Batches, TasksFit
<1>3. \A w \in Workers : ~Busy(w)
  BY <1>1 DEF TripInv, TasksFit
<1>4. UNCHANGED faults \/ Fault
  BY <1>1 DEF WriteRunDatasetReports
<1>5. faults' = 0 => faults = 0 /\ ~Fault
  BY <1>4, FaultCounts, TaskTypes, TripAssumption DEF TripInv, TripTypeOK, Limits
<1>6. CountsFit'
  <2> SUFFICES ASSUME faults' = 0, shared = {}, NEW s \in Trips
               PROVE  /\ task[s].pc \in AtRest
                      /\ IsCounted(s)' \/ \E w \in Workers : Busy(w)' /\ task'[w].trip = s
    BY <1>1 DEF CountsFit
  <2>1. task[s].pc \in AtRest /\ IsCounted(s)
    BY <1>1, <1>2, <1>3, <1>5 DEF TripInv, CountsFit
  <2>2. IsCounted(s)'
    BY <1>1, <2>1 DEF IsCounted
  <2> QED BY <2>1, <2>2
<1>7. ReportFits'
  <2> SUFFICES ASSUME faults' = 0, shared = {}, NEW s \in Trips
               PROVE  /\ report'[s].state = status[s]
                      /\ status[s] = "completed" => report'[s].samples = Len(Samples[recording[s]][dataset[s].from])
    BY <1>1, Zenon DEF ReportFits, given
  <2>1. IsCounted(s)
    BY <1>1, <1>2, <1>3, <1>5 DEF TripInv, CountsFit
  <2>2. report' \in RunDatasetReports
    BY <1>1, <1>5 DEF WriteRunDatasetReports, TripInv, ResultsFit, DatasetsReadable
  <2>3. PICK f : (\A t \in Trips : f[t] \in Lines(t)) /\ report' = [t \in Trips |-> TripDatasetReport(t, f[t])]
    BY <2>2 DEF RunDatasetReports
  <2>4. report'[s] = TripDatasetReport(s, f[s]) /\ f[s] \in Lines(s)
    BY <2>3
  <2>5. report'[s].state = status[s] /\ report'[s].samples = f[s]
    BY <2>1, <2>4 DEF TripDatasetReport, IsCounted
  <2>6. status[s] = "completed" => f[s] = Len(Samples[recording[s]][dataset[s].from])
    BY <2>4, Zenon DEF Lines, TripInv, CompletedIsWhole
  <2> QED BY <2>5, <2>6, Zenon
<1> QED BY <1>1, <1>2, <1>3, <1>4, <1>6, <1>7, BatchChanges, FaultCounts DEF TripInv, TripTypeOK

(* Its tasks are over, wherever they were.                                 *)
LEMMA BackendDiesKeepsInv ==
  ASSUME TripInv, BackendDies
  PROVE  TripInv'
<1>1. /\ Crash /\ Tasks = Trips \cup Workers /\ Trips \cap Workers = {}
      /\ task' = [p \in Tasks |-> IF p \in Workers \/ task[p].pc \in AtRest THEN task[p]
                                  ELSE [task[p] EXCEPT !.pc = "over"]]
      /\ UNCHANGED <<recording, limits, runFile, status, images, dataset, faults, batch, counted, report, shared>>
  BY TripAssumption DEF BackendDies, given, files, runs, Tasks
<1>2. ASSUME NEW p \in Tasks
      PROVE  /\ task'[p] \in TaskStates /\ task'[p].trip = task[p].trip /\ task'[p].force = task[p].force
             /\ p \in Workers => task'[p] = task[p]
             /\ p \in Trips => task'[p].pc \in AtRest
  <2>1. task[p] \in TaskStates
    BY TaskTypes
  <2>2. task'[p] = IF p \in Workers \/ task[p].pc \in AtRest THEN task[p] ELSE [task[p] EXCEPT !.pc = "over"]
    BY <1>1
  <2>3. "over" \in Places /\ "over" \in AtRest
    BY DEF Places, AtRest
  <2>4. CASE p \in Workers \/ task[p].pc \in AtRest
    BY <1>1, <2>1, <2>2, <2>4
  <2>5. CASE ~(p \in Workers \/ task[p].pc \in AtRest)
    BY <1>1, <2>1, <2>2, <2>3, <2>5 DEF TaskStates
  <2> QED BY <2>4, <2>5
<1>3. /\ task' \in [Tasks -> TaskStates] /\ \A w \in Workers : task'[w] = task[w] /\ Busy(w)' = Busy(w)
      /\ \A t \in Trips : task'[t].pc \in AtRest /\ ~Busy(t)' /\ task'[t].trip = task[t].trip /\ task'[t].force = task[t].force
  <2>1. task' = [p \in Tasks |-> task'[p]]
    BY <1>1
  <2>2. task' \in [Tasks -> TaskStates]
    BY <1>2, <2>1
  <2> QED BY <1>1, <1>2, <2>2 DEF Busy
<1>4. TripTypeOK'
  BY <1>1, <1>3, TripAssumption DEF TripInv, TripTypeOK, Crash, Limits
<1>5. FileFits' /\ LiveFindsItsRow'
  BY <1>1, <1>3 DEF TripInv, FileFits, LiveFindsItsRow, AtRest, Processing
<1>6. TasksFit'
  BY <1>1, <1>3 DEF TripInv, TasksFit, AtRest
<1>7. TripsAreHeldOnce'
  BY <1>1, <1>3 DEF TripInv, TripsAreHeldOnce
<1>8. FilesFit'
  <2>1. \A q \in Tasks : task'[q].pc \in Writing => task'[q] = task[q]
    BY <1>1, <1>3 DEF AtRest, Writing, Making
  <2>2. \A t \in Trips : Whole(t)' = Whole(t) /\ status'[t] = status[t] /\ dataset'[t] = dataset[t]
    BY <1>1 DEF Whole
  <2>3. UNCHANGED shared /\ \A q \in Tasks : task[q].trip \in Trips
    BY <1>1, TaskTypes
  <2> QED BY <2>1, <2>2, <2>3 DEF TripInv, FilesFit
<1>9. CompletedIsWhole' /\ ResultsFit'
  BY <1>1, <1>3 DEF TripInv, CompletedIsWhole, ResultsFit
<1>10. CountsFit'
  BY <1>1, <1>3 DEF TripInv, CountsFit, IsCounted
<1>11. ReportFits'
  BY <1>1, Zenon DEF TripInv, ReportFits
<1> QED BY <1>4, <1>5, <1>6, <1>7, <1>8, <1>9, <1>10, <1>11 DEF TripInv

LEMMA BatchDiesKeepsInv ==
  ASSUME TripInv, BatchDies
  PROVE  TripInv'
<1> DEFINE idle == Task(1, "idle", FALSE, FALSE)
<1>1. /\ Crash /\ Tasks = Trips \cup Workers /\ Trips \cap Workers = {}
      /\ batch' = [batch EXCEPT !.state = "idle", !.todo = {}]
      /\ task' = [p \in Tasks |-> IF p \in Trips THEN task[p] ELSE idle]
      /\ UNCHANGED <<recording, limits, runFile, status, images, dataset, faults, counted, report, shared>>
  BY TripAssumption DEF BatchDies, given, files, Tasks
<1>2. idle \in TaskStates /\ idle.pc = "idle"
  BY IdleTask
<1> HIDE DEF idle
<1>3. /\ task' \in [Tasks -> TaskStates] /\ \A w \in Workers : task'[w].pc = "idle" /\ ~Busy(w)'
      /\ \A t \in Trips : task'[t] = task[t] /\ Busy(t)' = Busy(t)
  BY <1>1, <1>2, TaskTypes DEF Busy, TripInv, TripTypeOK
<1>4. batch' \in Batches /\ batch'.state = "idle" /\ batch'.todo = {}
  BY <1>1 DEF TripInv, TripTypeOK, Batches
<1>5. TripTypeOK'
  BY <1>1, <1>3, <1>4, TripAssumption DEF TripInv, TripTypeOK, Crash, Limits
<1>6. FileFits' /\ LiveFindsItsRow'
  <2>1. \A s \in Trips : MetadataThere(s)' = MetadataThere(s) /\ RecordFound(s)' = RecordFound(s)
    BY <1>1 DEF MetadataThere, RecordFound
  <2> QED BY <1>1, <1>3, <2>1 DEF TripInv, FileFits, LiveFindsItsRow
<1>7. TasksFit'
  BY <1>3, <1>4 DEF TripInv, TasksFit
<1>8. TripsAreHeldOnce'
  BY <1>1, <1>3 DEF TripInv, TripsAreHeldOnce
<1>9. FilesFit'
  <2>1. \A q \in Tasks : task'[q].pc \in Writing => task'[q] = task[q]
    BY <1>1, <1>3 DEF Writing, Making
  <2>2. \A t \in Trips : Whole(t)' = Whole(t) /\ status'[t] = status[t] /\ dataset'[t] = dataset[t]
    BY <1>1 DEF Whole
  <2>3. UNCHANGED shared /\ \A q \in Tasks : task[q].trip \in Trips
    BY <1>1, TaskTypes
  <2> QED BY <2>1, <2>2, <2>3 DEF TripInv, FilesFit
<1>10. CompletedIsWhole' /\ ResultsFit'
  BY <1>1, <1>3 DEF TripInv, CompletedIsWhole, ResultsFit
<1>11. CountsFit'
  BY <1>4 DEF CountsFit
<1>12. ReportFits'
  BY <1>4, Zenon DEF ReportFits
<1> QED BY <1>5, <1>6, <1>7, <1>8, <1>9, <1>10, <1>11, <1>12 DEF TripInv

LEMMA TripStutterKeepsInv ==
  ASSUME TripInv, UNCHANGED tripVars
  PROVE  TripInv'
<1>1. UNCHANGED <<given, runFile, status, images, dataset, faults, task, runs, crashes>>
  BY DEF tripVars, files
<1>2. FileFits' /\ \A t \in Trips : MetadataThere(t)' = MetadataThere(t) /\ RecordFound(t)' = RecordFound(t)
  BY <1>1 DEF TripInv, FileFits, MetadataThere, RecordFound
<1> QED BY <1>1, <1>2, RowsAndImagesGrow DEF TripInv, TripTypeOK

LEMMA TripStepKeepsInv ==
  ASSUME TripInv, [TripNext]_tripVars
  PROVE  TripInv'
BY LiveKeepsInv, RowBeginsKeepsInv, ProcessTripKeepsInv, TakeKeepsInv, WorkerQueuesKeepsInv, WorkerReportsKeepsInv,
   RowEndsKeepsInv, StartBatchKeepsInv, EndBatchKeepsInv, EndRunsKeepsInv, BackendDiesKeepsInv, BatchDiesKeepsInv,
   TripStutterKeepsInv DEF TripNext, Worker
LEMMA TripInitMakesInv ==
  ASSUME TripInit
  PROVE  TripInv
<1>1. PICK recorded \in [Trips -> Recordings] :
        StartWith(recorded, Trips, <<>>, [workers |-> Workers, batches |-> MaxBatches, faults |-> MaxFaults, crashes |-> MaxCrashes])
  BY DEF TripInit
<1>2. /\ recording \in [Trips -> Recordings] /\ limits \in Limits /\ runFile = <<>>
      /\ status = [t \in Trips |-> "none"] /\ images = [t \in Trips |-> "none"]
      /\ dataset = [t \in Trips |-> [file |-> "none", from |-> "none", current |-> TRUE]]
      /\ batch = [state |-> "idle", force |-> FALSE, only |-> FALSE, todo |-> {}, number |-> 0]
      /\ counted = [t \in Trips |-> "none"] /\ shared = {} /\ faults = 0 /\ crashes = 0
  BY <1>1, TripAssumption DEF StartWith, Limits
<1>3. /\ task = [p \in Tasks |-> IF p \in Workers THEN Task(1, "idle", FALSE, FALSE)
                                 ELSE Task(p, "capturing", FALSE, FALSE)]
      /\ Tasks = Trips \cup Workers /\ Trips \cap Workers = {}
  BY <1>1, TripAssumption DEF StartWith, Tasks
<1>4. ASSUME NEW t \in Trips
      PROVE  /\ task[t] = Task(t, "capturing", FALSE, FALSE) /\ task[t] \in TaskStates
             /\ task[t].trip = t /\ ~task[t].force /\ task[t].pc = "capturing"
  BY <1>3, <1>4 DEF Task, TaskStates, Places
<1>5. ASSUME NEW w \in Workers PROVE task[w] \in TaskStates /\ task[w].pc = "idle" /\ ~Busy(w)
  <2>1. task[w] = Task(1, "idle", FALSE, FALSE)
    BY <1>3, <1>5
  <2> QED BY <1>3, <1>5, <2>1, IdleTask DEF Busy
<1>6. TripTypeOK
  <2>1. task \in [Tasks -> TaskStates]
    <3>1. \A p \in Tasks : task[p] \in TaskStates
      BY <1>3, <1>4, <1>5
    <3> QED BY <1>3, <3>1
  <2>2. batch \in Batches /\ dataset \in [Trips -> Datasets] /\ status \in [Trips -> Statuses]
    BY <1>2, TripAssumption DEF Batches, Datasets, Statuses
  <2>3. faults \in 0..limits.faults /\ crashes \in 0..limits.crashes
    BY <1>2, TripAssumption DEF Limits
  <2>4. runFile \in Seq([trip : Trips, whole : BOOLEAN])
    BY <1>2
  <2> QED BY <1>2, <2>1, <2>2, <2>3, <2>4 DEF TripTypeOK
<1>7. FileFits /\ LiveFindsItsRow
  <2>1. Len(runFile) = 0
    BY <1>2
  <2> DEFINE m == Len(runFile)
  <2> HIDE DEF m
  <2>2. 1..m - 1 = {}
    BY <2>1 DEF m
  <2>3. FileFits
    BY <2>2 DEF FileFits, m
  <2>4. \A t \in Trips : task[t].pc \notin Processing
    BY <1>4 DEF Processing
  <2> QED BY <2>3, <2>4 DEF LiveFindsItsRow
<1>8. TasksFit /\ TripsAreHeldOnce
  <2>1. TasksFit
    BY <1>2, <1>4, <1>5 DEF TasksFit
  <2>2. \A p \in Tasks : Busy(p) => p \in Trips /\ task[p].trip = p
    BY <1>3, <1>4, <1>5
  <2> QED BY <2>1, <2>2 DEF TripsAreHeldOnce
<1>9. FilesFit /\ CompletedIsWhole
  BY <1>2, <1>3, <1>4, <1>5, ZenonT(40) DEF FilesFit, CompletedIsWhole, Writing, Making
<1>10. ResultsFit /\ CountsFit
  BY <1>2, <1>5 DEF ResultsFit, CountsFit
<1>11. ReportFits
  BY <1>2, Zenon DEF ReportFits
<1> QED BY <1>6, <1>7, <1>8, <1>9, <1>10, <1>11 DEF TripInv

-----------------------------------------------------------------------------
(* What was shown of the steps holds in every state.                       *)
THEOREM TripInvariant == TripSpec => []TripInv
<1>1. TripInit => TripInv
  BY TripInitMakesInv
<1>2. TripInv /\ [TripNext]_tripVars => TripInv'
  BY TripStepKeepsInv
<1> QED BY <1>1, <1>2, PTL DEF TripSpec

(* Every variable keeps its type, the counters stay within their bounds.   *)
THEOREM TripTypes == TripSpec => []TripTypeOK
<1>1. TripInv => TripTypeOK
  BY DEF TripInv
<1> QED BY <1>1, TripInvariant, PTL

(* A trip whose status is "completed" has a whole dataset of the images    *)
(* that are there, whatever failed or died in between (ProcessTrip).       *)
THEOREM CompletedDatasetsAreWhole == TripSpec => []CompletedIsWhole
<1>1. TripInv => CompletedIsWhole
  BY DEF TripInv
<1> QED BY <1>1, TripInvariant, PTL

(* The processing after a recording does not begin before the row of the   *)
(* trip can be read, and it can be read from then on                       *)
(* (WaitForTripReadiness, loadRunTripRecord).                              *)
THEOREM RowsAreFound == TripSpec => []LiveFindsItsRow
<1>1. TripInv => LiveFindsItsRow
  BY DEF TripInv
<1> QED BY <1>1, TripInvariant, PTL

-----------------------------------------------------------------------------
(* Who may have looked too early.  A task that was neither forced nor      *)
(* overtaken found no dataset, and there is none until it makes one; only  *)
(* the tasks of a shared trip can be overtaken.                            *)
LookFits ==
  \A p \in Tasks :
    LET t == task[p].trip
    IN /\ task[p].overtaken => t \in shared
       /\ task[p].pc = "fill" => dataset[t].file # "none"
       /\ ~task[p].force /\ ~task[p].overtaken =>
            /\ task[p].pc \in Making => dataset[t].file = "none"
            /\ task[p].pc = "fill" =>
                 /\ dataset[t].file = "cut"
                 /\ \A q \in Tasks \ {p} : task[q].trip = t => task[q].pc # "fill"

(* A task that stops making its dataset, or goes on, or begins because it  *)
(* was forced or found none.                                               *)
LooksOn(p) ==
  LET t == task[p].trip
  IN \/ /\ task'[p].pc \notin Making \cup {"fill"}
        /\ task'[p].overtaken => task'[p].trip \in shared'
     \/ /\ task'[p].trip = t /\ task'[p].force = task[p].force /\ task'[p].overtaken = task[p].overtaken
        /\ \/ task'[p].pc = task[p].pc
           \/ task'[p].pc \in Making /\ (task[p].pc \in Making \/ task[p].force \/ dataset[t].file = "none")

LEMMA LookKept ==
  ASSUME TripInv, LookFits, shared \subseteq shared', \A p \in Tasks : LooksOn(p),
         \A t \in Trips : dataset'[t].file = dataset[t].file
  PROVE  LookFits'
<1>1. ASSUME NEW q \in Tasks, task'[q].pc = "fill"
      PROVE  /\ task[q].pc = "fill" /\ task'[q].trip = task[q].trip
             /\ task'[q].force = task[q].force /\ task'[q].overtaken = task[q].overtaken
  BY <1>1 DEF LooksOn, Making
<1>2. ASSUME NEW p \in Tasks
      PROVE  LET t == task'[p].trip
             IN /\ task'[p].overtaken => t \in shared'
                /\ task'[p].pc = "fill" => dataset'[t].file # "none"
                /\ ~task'[p].force /\ ~task'[p].overtaken =>
                     /\ task'[p].pc \in Making => dataset'[t].file = "none"
                     /\ task'[p].pc = "fill" =>
                          /\ dataset'[t].file = "cut"
                          /\ \A q \in Tasks \ {p} : task'[q].trip = t => task'[q].pc # "fill"
  <2> DEFINE t == task[p].trip
  <2>1. t \in Trips /\ dataset'[t].file = dataset[t].file
    BY TaskTypes
  <2>2. CASE task'[p].pc \notin Making \cup {"fill"} /\ (task'[p].overtaken => task'[p].trip \in shared')
    BY <2>2
  <2>3. CASE /\ task'[p].trip = t /\ task'[p].force = task[p].force /\ task'[p].overtaken = task[p].overtaken
             /\ \/ task'[p].pc = task[p].pc
                \/ task'[p].pc \in Making /\ (task[p].pc \in Making \/ task[p].force \/ dataset[t].file = "none")
    <3>1. task'[p].overtaken => t \in shared'
      BY <2>3 DEF LookFits
    <3>2. task'[p].pc = "fill" => dataset'[t].file # "none"
      BY <1>1, <2>1 DEF LookFits
    <3>3. ~task'[p].force /\ ~task'[p].overtaken /\ task'[p].pc \in Making => dataset'[t].file = "none"
      BY <2>1, <2>3 DEF LookFits
    <3>4. ASSUME ~task'[p].force, ~task'[p].overtaken, task'[p].pc = "fill"
          PROVE  dataset'[t].file = "cut" /\ \A q \in Tasks \ {p} : task'[q].trip = t => task'[q].pc # "fill"
      <4>1. task[p].pc = "fill" /\ ~task[p].force /\ ~task[p].overtaken
        BY <1>1, <2>3, <3>4
      <4> QED BY <1>1, <2>1, <4>1 DEF LookFits
    <3> QED BY <2>3, <3>1, <3>2, <3>3, <3>4
  <2> QED BY <2>2, <2>3 DEF LooksOn
<1> QED BY <1>2 DEF LookFits

(* A step of one task that leaves the datasets.                            *)
LEMMA OneLooksOn ==
  ASSUME TripInv, LookFits, UNCHANGED shared, NEW p \in Tasks, LooksOn(p),
         \A q \in Tasks \ {p} : task'[q] = task[q], \A t \in Trips : dataset'[t].file = dataset[t].file
  PROVE  LookFits'
<1>1. \A q \in Tasks \ {p} : LooksOn(q)
  BY DEF LooksOn
<1> QED BY <1>1, LookKept

LEMMA MovesKeepLook ==
  ASSUME TripInv, LookFits, UNCHANGED shared, NEW p \in Tasks, NEW pc \in Places, NEW ok \in BOOLEAN,
         \/ task' = [task EXCEPT ![p].pc = pc] /\ ok = task[p].ok
         \/ task' = [task EXCEPT ![p].pc = pc, ![p].ok = ok],
         \/ pc \notin Making \cup {"fill"}
         \/ pc \in Making /\ (task[p].pc \in Making \/ task[p].force \/ dataset[task[p].trip].file = "none"),
         \A t \in Trips : dataset'[t].file = dataset[t].file
  PROVE  LookFits'
<1>1. /\ task'[p].trip = task[p].trip /\ task'[p].force = task[p].force /\ task'[p].overtaken = task[p].overtaken
      /\ task'[p].pc = pc /\ \A q \in Tasks \ {p} : task'[q] = task[q]
  BY Moved
<1>2. LooksOn(p)
  BY <1>1 DEF LooksOn, LookFits
<1> QED BY <1>1, <1>2, OneLooksOn

LEMMA GotoKeepsLook ==
  ASSUME TripInv, LookFits, UNCHANGED shared, NEW p \in Tasks, NEW pc \in Places, Goto(p, pc) \/ Fail(p),
         \/ pc \notin Making \cup {"fill"}
         \/ pc \in Making /\ (task[p].pc \in Making \/ task[p].force \/ dataset[task[p].trip].file = "none"),
         \A t \in Trips : dataset'[t].file = dataset[t].file
  PROVE  LookFits'
<1>1. CASE Goto(p, pc)
  BY <1>1, TaskTypes, MovesKeepLook DEF Goto
<1>2. CASE Fail(p)
  <2>1. "finish" \in Places /\ "finish" \notin Making \cup {"fill"}
    BY DEF Places, Processing, Making
  <2> QED BY <1>2, <2>1, MovesKeepLook DEF Fail
<1> QED BY <1>1, <1>2

LEMMA WriteKeepsLook ==
  ASSUME TripInv, LookFits, NEW p \in Tasks, Write(p)
  PROVE  LookFits'
<1> DEFINE t == task[p].trip
<1>1. /\ task[p].pc = "write" /\ t \in Trips /\ UNCHANGED shared /\ "finish" \in Places
      /\ "finish" \notin Making \cup {"fill"}
  BY TaskTypes DEF Write, runs, Places, Processing, Making
<1>2. CASE Fail(p) /\ UNCHANGED dataset
  BY <1>1, <1>2, GotoKeepsLook
<1>3. CASE task'[p].pc # "finish"
  <2>1. /\ task'[p].pc = "fill" /\ task'[p].trip = t
        /\ task'[p].force = task[p].force /\ task'[p].overtaken = task[p].overtaken
        /\ \A q \in Tasks \ {p} :
             /\ task'[q].trip = task[q].trip /\ task'[q].force = task[q].force /\ task'[q].pc = task[q].pc
             /\ task'[q].overtaken = (task[q].overtaken \/ Overtakes(p, q))
    BY <1>3, WriteMoves
  <2>2. dataset'[t].file = "cut" /\ \A s \in Trips \ {t} : dataset'[s] = dataset[s]
    <3> DEFINE new == [file |-> "cut", from |-> task[p].seen, current |-> task[p].intact]
    <3>1. new.file = "cut"
      OBVIOUS
    <3>2. dataset' = [dataset EXCEPT ![t] = new]
      BY <1>3, WriteMoves
    <3>3. dataset \in [Trips -> Datasets]
      BY TaskTypes
    <3> HIDE DEF new
    <3> QED BY <1>1, <3>1, <3>2, <3>3
  <2>3. ASSUME NEW q \in Tasks, q # p, task[q].trip = t, task[q].pc \in Making \cup {"fill"}
        PROVE  Overtakes(p, q)
    BY <2>3 DEF Overtakes, Making, Processing
  <2>4. ASSUME NEW q \in Tasks, Overtakes(p, q) PROVE task[q].trip \in shared
    <3>1. Busy(p) /\ Busy(q)
      BY <1>1, <2>4, ProcessingIsBusy DEF Overtakes, Processing
    <3> QED BY <2>4, <3>1 DEF Overtakes, TripInv, TripsAreHeldOnce
  <2>5. /\ task'[p].overtaken => t \in shared
        /\ dataset'[t].file # "none" /\ task'[p].pc \notin Making
        /\ ~task'[p].force /\ ~task'[p].overtaken => \A q \in Tasks \ {p} : task'[q].trip = t => task'[q].pc # "fill"
    <3>1. ~task[p].force /\ ~task[p].overtaken => dataset[t].file = "none"
      BY <1>1 DEF LookFits, Making
    <3>2. \A q \in Tasks \ {p} : task[q].trip = t /\ task[q].pc = "fill" => dataset[t].file # "none"
      BY DEF LookFits
    <3>3. task[p].overtaken => t \in shared
      BY DEF LookFits
    <3> QED BY <2>1, <2>2, <3>1, <3>2, <3>3 DEF Making
  <2>6. ASSUME NEW q \in Tasks, q # p
        PROVE  LET s == task'[q].trip
               IN /\ task'[q].overtaken => s \in shared
                  /\ task'[q].pc = "fill" => dataset'[s].file # "none"
                  /\ ~task'[q].force /\ ~task'[q].overtaken =>
                       /\ task'[q].pc \in Making => dataset'[s].file = "none"
                       /\ task'[q].pc = "fill" =>
                            /\ dataset'[s].file = "cut"
                            /\ \A r \in Tasks \ {q} : task'[r].trip = s => task'[r].pc # "fill"
    <3>1. /\ task'[q].trip = task[q].trip /\ task'[q].force = task[q].force /\ task'[q].pc = task[q].pc
          /\ task'[q].overtaken = (task[q].overtaken \/ Overtakes(p, q)) /\ task[q].trip \in Trips
      BY <2>1, <2>6, TaskTypes
    <3>2. task'[q].overtaken => task[q].trip \in shared
      BY <2>4, <3>1 DEF LookFits
    <3>3. CASE task[q].trip = t
      <4>1. task'[q].pc \in Making \cup {"fill"} => task'[q].overtaken
        BY <2>3, <2>6, <3>1, <3>3
      <4> QED BY <2>2, <3>1, <3>2, <3>3, <4>1
    <3>4. CASE task[q].trip # t
      <4>1. dataset'[task[q].trip] = dataset[task[q].trip]
        BY <2>2, <3>1, <3>4
      <4>2. task'[q].overtaken = task[q].overtaken
        BY <3>1, <3>4, TaskTypes DEF Overtakes, TaskStates
      <4>3. \A r \in Tasks \ {q} : task'[r].trip = task[q].trip => task'[r].pc = task[r].pc /\ task[r].trip = task[q].trip
        BY <2>1, <3>4
      <4> QED BY <3>1, <3>2, <4>1, <4>2, <4>3 DEF LookFits
    <3> QED BY <3>3, <3>4
  <2> QED BY <1>1, <2>1, <2>2, <2>5, <2>6 DEF LookFits
<1>4. (Fail(p) /\ UNCHANGED dataset) \/ task'[p].pc # "finish"
  <2>1. task' = [q \in Tasks |->
                  IF q = p THEN [task[q] EXCEPT !.pc = "fill"]
                  ELSE IF Overtakes(p, q) THEN [task[q] EXCEPT !.overtaken = TRUE] ELSE task[q]]
        => task'[p].pc # "finish"
    BY TaskTypes DEF TaskStates
  <2> QED BY <2>1 DEF Write
<1> QED BY <1>2, <1>3, <1>4

LEMMA FillKeepsLook ==
  ASSUME TripInv, LookFits, NEW p \in Tasks, Fill(p)
  PROVE  LookFits'
<1> DEFINE t == task[p].trip
<1>1. /\ task[p].pc = "fill" /\ t \in Trips /\ UNCHANGED shared
      /\ "finish" \in Places
  BY TaskTypes DEF Fill, runs, Places, Processing
<1>2. /\ task'[p].trip = t /\ task'[p].force = task[p].force /\ task'[p].overtaken = task[p].overtaken
      /\ task'[p].pc = "finish" /\ \A q \in Tasks \ {p} : task'[q] = task[q]
  BY <1>1, GotoMoves, FailMoves DEF Fill
<1>3. dataset'[t].file # "none" /\ \A s \in Trips \ {t} : dataset'[s] = dataset[s]
  BY <1>1, TaskTypes DEF Fill, Datasets
<1>4. ASSUME NEW q \in Tasks, q # p, task[q].trip = t, ~task[q].force, ~task[q].overtaken
      PROVE  task[q].pc \notin Making \cup {"fill"}
  <2>1. dataset[t].file # "none"
    BY <1>1 DEF LookFits
  <2> QED BY <1>1, <1>4, <2>1 DEF LookFits
<1>5. ASSUME NEW q \in Tasks
      PROVE  LET s == task'[q].trip
             IN /\ task'[q].overtaken => s \in shared
                /\ task'[q].pc = "fill" => dataset'[s].file # "none"
                /\ ~task'[q].force /\ ~task'[q].overtaken =>
                     /\ task'[q].pc \in Making => dataset'[s].file = "none"
                     /\ task'[q].pc = "fill" =>
                          /\ dataset'[s].file = "cut"
                          /\ \A r \in Tasks \ {q} : task'[r].trip = s => task'[r].pc # "fill"
  <2>1. CASE q = p
    BY <1>2, <2>1 DEF LookFits, Making
  <2>2. CASE q # p /\ task[q].trip = t
    BY <1>2, <1>3, <1>4, <2>2 DEF LookFits
  <2>3. CASE q # p /\ task[q].trip # t
    <3>1. task'[q] = task[q] /\ dataset'[task[q].trip] = dataset[task[q].trip]
      BY <1>2, <1>3, <2>3, TaskTypes
    <3>2. \A r \in Tasks \ {q} : task'[r].trip = task[q].trip => task'[r] = task[r]
      BY <1>2, <2>3
    <3> QED BY <2>3, <3>1, <3>2 DEF LookFits
  <2> QED BY <2>1, <2>2, <2>3
<1> QED BY <1>1, <1>5 DEF LookFits

LEMMA ProcessTripKeepsLook ==
  ASSUME TripInv, LookFits, NEW p \in Tasks, ProcessTrip(p)
  PROVE  LookFits'
<1> DEFINE t == task[p].trip
           SameFiles == \A s \in Trips : dataset'[s].file = dataset[s].file
<1>1. /\ {"done", "finish"} \cup Making \subseteq Places /\ "done" \notin Making \cup {"fill"}
      /\ "finish" \notin Making \cup {"fill"}
  BY DEF Places, AtRest, Processing, Making
<1>2. CASE Skip(p)
  <2>1. UNCHANGED <<shared, dataset>> /\ (Goto(p, "done") \/ task' = [task EXCEPT ![p].pc = "done", ![p].ok = FALSE])
    BY <1>2 DEF Skip, runs
  <2> QED BY <1>1, <2>1, GotoKeepsLook, MovesKeepLook
<1>3. CASE Begin(p)
  <2>1. /\ UNCHANGED <<shared, dataset>> /\ (task[p].force \/ dataset[t].file = "none")
        /\ Goto(p, "probe") \/ task' = [task EXCEPT ![p].pc = "done", ![p].ok = FALSE]
    BY <1>3 DEF Begin, ShouldSkip, runs
  <2>2. "probe" \in Making
    BY DEF Making
  <2> QED BY <1>1, <2>1, <2>2, GotoKeepsLook, MovesKeepLook
<1>4. CASE Probe(p) \/ ExtractEnds(p)
  <2>1. UNCHANGED <<shared, dataset>> /\ task[p].pc \in Making
    BY <1>4 DEF Probe, ExtractEnds, runs, Making
  <2>2. \E pc \in Making : Goto(p, pc) \/ Fail(p)
    BY <1>4 DEF Probe, ExtractEnds, Making
  <2> QED BY <1>1, <2>1, <2>2, GotoKeepsLook
<1>5. CASE Clear(p)
  <2>1. UNCHANGED shared /\ task[p].pc \in Making
    BY <1>5 DEF Clear, runs, Making
  <2>2. PICK left \in Extents \cup {images[t]}, pc \in {"extract", "finish"}, ok \in BOOLEAN : RemoveImages(p, left, pc, ok)
    BY <1>5 DEF Clear, Extents
  <2>3. SameFiles
    BY <2>2, TaskTypes, ZenonT(40) DEF RemoveImages, TripInv, TripTypeOK, Datasets
  <2>4. ASSUME NEW q \in Tasks, q # p
        PROVE  /\ task'[q].trip = task[q].trip /\ task'[q].force = task[q].force
               /\ task'[q].pc = task[q].pc /\ task'[q].overtaken = task[q].overtaken
    <3>1. task[q] \in TaskStates
      BY TaskTypes
    <3>2. task'[q] = task[q] \/ task'[q] = [task[q] EXCEPT !.intact = FALSE]
      BY <2>2, <2>4 DEF RemoveImages
    <3> QED BY <3>1, <3>2 DEF TaskStates
  <2>5. /\ task'[p].trip = t /\ task'[p].force = task[p].force /\ task'[p].overtaken = task[p].overtaken
        /\ task'[p].pc = pc
    <3>1. task'[p] = [task[p] EXCEPT !.pc = pc, !.ok = ok] /\ task[p] \in TaskStates
      BY <2>2, TaskTypes DEF RemoveImages
    <3> QED BY <3>1 DEF TaskStates
  <2>6. \A q \in Tasks : LooksOn(q)
    BY <2>1, <2>4, <2>5 DEF LooksOn, LookFits, Making
  <2> QED BY <2>1, <2>3, <2>6, LookKept
<1>6. CASE ExtractWrites(p)
  <2>1. UNCHANGED <<shared, dataset, task>>
    BY <1>6 DEF ExtractWrites, runs
  <2>2. \A q \in Tasks : LooksOn(q)
    BY <2>1 DEF LooksOn
  <2> QED BY <2>1, <2>2, LookKept
<1>7. CASE Read(p)
  <2>1. UNCHANGED <<shared, dataset>> /\ task[p].pc \in Making
    BY <1>7 DEF Read, runs, files, Making
  <2>2. CASE Fail(p)
    BY <1>1, <2>1, <2>2, GotoKeepsLook
  <2>3. CASE task' = [task EXCEPT ![p].pc = "write", ![p].seen = images[t], ![p].intact = TRUE]
    <3> DEFINE new == [task[p] EXCEPT !.pc = "write", !.seen = images[t], !.intact = TRUE]
    <3>1. /\ new.trip = t /\ new.force = task[p].force /\ new.overtaken = task[p].overtaken /\ new.pc = "write"
      BY TaskTypes DEF TaskStates
    <3>2. task' = [task EXCEPT ![p] = new]
      BY <2>3, TaskTypes DEF TaskStates
    <3> HIDE DEF new
    <3>3. task'[p] = new /\ \A q \in Tasks \ {p} : task'[q] = task[q]
      BY <3>2, TaskTypes
    <3>4. LooksOn(p)
      BY <2>1, <3>1, <3>3 DEF LooksOn, Making
    <3> QED BY <2>1, <3>3, <3>4, OneLooksOn
  <2> QED BY <1>7, <2>2, <2>3 DEF Read
<1>8. CASE Finish(p)
  <2>1. UNCHANGED <<shared, dataset>> /\ Goto(p, "done")
    BY <1>8 DEF Finish, runs
  <2> QED BY <1>1, <2>1, GotoKeepsLook
<1>9. CASE Write(p) \/ Fill(p)
  BY <1>9, WriteKeepsLook, FillKeepsLook
<1> QED BY <1>2, <1>3, <1>4, <1>5, <1>6, <1>7, <1>8, <1>9 DEF ProcessTrip

LEMMA LiveKeepsLook ==
  ASSUME TripInv, LookFits, NEW t \in Trips, Live(t)
  PROVE  LookFits'
<1>1. t \in Tasks /\ UNCHANGED <<shared, dataset>>
  BY DEF Tasks, Live, CaptureStop, ReadinessSeen, ReadinessTimesOut, runs, files
<1>2. {"waiting", "over", "late", "start"} \subseteq Places \ (Making \cup {"fill"})
  BY DEF Places, AtRest, Processing, Making
<1>3. \E pc \in {"waiting", "over", "late", "start"} : Goto(t, pc)
  BY DEF Live, CaptureStop, ReadinessSeen, ReadinessTimesOut
<1> QED BY <1>1, <1>2, <1>3, GotoKeepsLook

LEMMA WorkerKeepsLook ==
  ASSUME TripInv, LookFits, NEW w \in Workers, Worker(w)
  PROVE  LookFits'
<1>1. w \in Tasks /\ UNCHANGED dataset /\ task \in [Tasks -> TaskStates] /\ "start" \in Places \ (Making \cup {"fill"})
  BY TaskTypes DEF Tasks, Worker, Take, WorkerQueues, WorkerReports, files, Places, Processing, Making
<1>2. CASE WorkerQueues(w) /\ Goto(w, "start")
  BY <1>1, <1>2, GotoKeepsLook DEF WorkerQueues
<1>3. ASSUME shared \subseteq shared', NEW new, task' = [task EXCEPT ![w] = new], ~new.overtaken, new.pc \in {"queue", "idle"}
      PROVE  LookFits'
  <2>1. task'[w] = new /\ \A q \in Tasks \ {w} : task'[q] = task[q]
    BY <1>1, <1>3
  <2>2. \A q \in Tasks : LooksOn(q)
    BY <1>3, <2>1 DEF LooksOn, Making
  <2> QED BY <1>1, <1>3, <2>2, LookKept
<1>4. ~Task(1, "idle", FALSE, FALSE).overtaken /\ Task(1, "idle", FALSE, FALSE).pc = "idle"
  BY DEF Task
<1>5. ASSUME NEW as, Count(w, as), UNCHANGED shared PROVE LookFits'
  BY <1>3, <1>4, <1>5 DEF Count
<1>6. CASE Take(w)
  <2> DEFINE new == Task(Min(batch.todo), "queue", batch.force, batch.only)
  <2>1. task' = [task EXCEPT ![w] = new] /\ shared \subseteq shared'
    BY <1>6 DEF Take
  <2>2. ~new.overtaken /\ new.pc = "queue"
    BY DEF Task
  <2> HIDE DEF new
  <2> QED BY <1>3, <2>1, <2>2
<1>7. CASE WorkerQueues(w)
  BY <1>2, <1>5, <1>7 DEF WorkerQueues
<1>8. CASE WorkerReports(w)
  BY <1>5, <1>8 DEF WorkerReports
<1> QED BY <1>6, <1>7, <1>8 DEF Worker

LEMMA DiesKeepsLook ==
  ASSUME TripInv, LookFits, BackendDies \/ BatchDies
  PROVE  LookFits'
<1>1. UNCHANGED <<shared, dataset>>
  BY DEF BackendDies, BatchDies, files, runs
<1>2. ASSUME NEW p \in Tasks PROVE LooksOn(p)
  <2>1. task[p] \in TaskStates
    BY TaskTypes
  <2>2. \/ task'[p] = task[p] \/ task'[p] = [task[p] EXCEPT !.pc = "over"]
        \/ task'[p] = Task(1, "idle", FALSE, FALSE)
    BY DEF BackendDies, BatchDies
  <2>3. \/ task'[p] = task[p]
        \/ task'[p].pc = "over" /\ task'[p].trip = task[p].trip /\ task'[p].overtaken = task[p].overtaken
        \/ task'[p].pc = "idle" /\ ~task'[p].overtaken
    BY <2>1, <2>2 DEF TaskStates, Task
  <2> QED BY <1>1, <2>3 DEF LooksOn, LookFits, Making
<1> QED BY <1>1, <1>2, LookKept

LEMMA StepKeepsLook ==
  ASSUME TripInv, LookFits, [TripNext]_tripVars
  PROVE  LookFits'
<1>1. ASSUME UNCHANGED <<shared, dataset, task>> PROVE LookFits'
  <2>1. \A q \in Tasks : LooksOn(q)
    BY <1>1 DEF LooksOn
  <2> QED BY <1>1, <2>1, LookKept
<1>2. CASE UNCHANGED tripVars
  BY <1>1, <1>2 DEF tripVars, files, runs
<1>3. CASE \/ \E t \in Trips : RowBegins(t)
           \/ RowEnds \/ StartBatch \/ EndBatch \/ EndRuns
  BY <1>1, <1>3 DEF RowBegins, RowEnds, StartBatch, EndBatch, EndRuns, files, runs
<1> QED BY <1>2, <1>3, ProcessTripKeepsLook, LiveKeepsLook, WorkerKeepsLook, DiesKeepsLook DEF TripNext

LEMMA InitMakesLook ==
  ASSUME TripInit
  PROVE  LookFits
<1>1. ASSUME NEW p \in Tasks PROVE ~task[p].overtaken /\ task[p].pc \notin Making \cup {"fill"}
  <2>1. PICK recorded \in [Trips -> Recordings] :
          StartWith(recorded, Trips, <<>>, [workers |-> Workers, batches |-> MaxBatches,
                                           faults |-> MaxFaults, crashes |-> MaxCrashes])
    BY DEF TripInit
  <2>2. \/ task[p] = Task(1, "idle", FALSE, FALSE) \/ task[p] = Task(p, "capturing", FALSE, FALSE)
        \/ task[p] = Task(p, "over", FALSE, FALSE)
    BY <2>1 DEF StartWith
  <2> QED BY <2>2 DEF Task, Making
<1> QED BY <1>1 DEF LookFits

(* What makes a change to the files of a trip.                             *)
LEMMA WhoChangesFiles ==
  ASSUME TripInv, TripNext, NEW t \in Trips, dataset'[t] # dataset[t] \/ images'[t] # images[t]
  PROVE  \E p \in Tasks : /\ ProcessTrip(p) /\ task[p].trip = t
                          /\ task[p].pc \in {"clear", "extract", "write", "fill"}
<1>1. dataset \in [Trips -> Datasets] /\ images \in [Trips -> {"none", "some", "all"}]
  BY DEF TripInv, TripTypeOK
<1>2. ASSUME NEW p \in Tasks, ProcessTrip(p) PROVE task[p].trip = t /\ task[p].pc \in {"clear", "extract", "write", "fill"}
  <2>1. CASE Skip(p) \/ Begin(p) \/ Probe(p) \/ Read(p) \/ Finish(p)
    BY <2>1 DEF Skip, Begin, Probe, Read, Finish, files
  <2>2. CASE Clear(p)
    BY <1>1, <2>2 DEF Clear, RemoveImages
  <2>3. CASE ExtractWrites(p) \/ ExtractEnds(p)
    BY <1>1, <2>3 DEF ExtractWrites, ExtractEnds
  <2>4. CASE Write(p) \/ Fill(p)
    BY <1>1, <2>4 DEF Write, Fill
  <2> QED BY <1>2, <2>1, <2>2, <2>3, <2>4 DEF ProcessTrip
<1>3. CASE \E s \in Trips : Live(s) \/ RowBegins(s)
  BY <1>3 DEF Live, CaptureStop, ReadinessSeen, ReadinessTimesOut, RowBegins, files
<1>4. CASE \E w \in Workers : Worker(w)
  BY <1>4 DEF Worker, Take, WorkerQueues, WorkerReports, files
<1>5. CASE RowEnds \/ StartBatch \/ EndBatch \/ EndRuns \/ BackendDies \/ BatchDies
  BY <1>5 DEF RowEnds, StartBatch, EndBatch, EndRuns, BackendDies, BatchDies, files
<1> QED BY <1>2, <1>3, <1>4, <1>5 DEF TripNext

(* A whole dataset and its images are changed by a task that was forced,   *)
(* or that looked for the dataset before another task wrote it, of all     *)
(* trips; the latter happens to a trip that a worker took while the        *)
(* backend had it only (Queue, ProcessTrip, shouldSkipTrip).               *)
THEOREM OnlyForcedRewrites == TripSpec => OnlyForceRewrites
<1> DEFINE Step ==
      \A t \in Trips :
        dataset[t].file = "whole" /\ (dataset'[t] # dataset[t] \/ images'[t] # images[t]) =>
          \E p \in Tasks :
            /\ ProcessTrip(p) /\ task[p].trip = t
            /\ task[p].force \/ (task[p].overtaken /\ t \in shared)
<1>1. ASSUME TripInv, LookFits, TripNext PROVE Step
  <2> SUFFICES ASSUME NEW t \in Trips, dataset[t].file = "whole", dataset'[t] # dataset[t] \/ images'[t] # images[t]
               PROVE  \E p \in Tasks :
                        /\ ProcessTrip(p) /\ task[p].trip = t
                        /\ task[p].force \/ (task[p].overtaken /\ t \in shared)
    OBVIOUS
  <2>1. PICK p \in Tasks : /\ ProcessTrip(p) /\ task[p].trip = t
                           /\ task[p].pc \in {"clear", "extract", "write", "fill"}
    BY <1>1, WhoChangesFiles
  <2>2. task[p].force \/ (task[p].overtaken /\ t \in shared)
    BY <1>1, <2>1 DEF LookFits, Making
  <2> QED BY <2>1, <2>2
<1>2. TripInv /\ LookFits /\ [TripNext]_tripVars => [Step]_tripVars
  BY <1>1
<1>3. TripInit => LookFits
  BY InitMakesLook
<1>4. TripInv /\ LookFits /\ [TripNext]_tripVars => LookFits'
  BY StepKeepsLook
<1>5. TripSpec => [][Step]_tripVars
  BY <1>2, <1>3, <1>4, TripInvariant, PTL DEF TripSpec
<1> QED BY <1>5 DEF OnlyForceRewrites

(* The counts of process-runs are those of its report, and a trip counted  *)
(* as completed is reported with all its samples, when no file failed and  *)
(* the backend had none of the trips (runProcessRuns,                      *)
(* BuildRunDatasetReport).                                                 *)
THEOREM CountsAreReported == TripSpec => []ReportAgrees
<1>1. ASSUME TripInv PROVE ReportAgrees
  <2> SUFFICES ASSUME batch.state = "done", faults = 0, shared = {}
               PROVE  /\ \A t \in Trips :
                           counted[t] = "completed" =>
                             report[t].state = "completed"
                             /\ report[t].samples = Len(Samples[recording[t]][dataset[t].from])
                      /\ Summary.completed = Cardinality({t \in Trips : counted[t] = "completed"})
                      /\ Summary.skipped = Cardinality({t \in Trips : counted[t] = "skipped"})
                      /\ Summary.failed = Cardinality({t \in Trips : counted[t] = "failed"})
    BY Zenon DEF ReportAgrees
  <2>1. batch.todo = {} /\ \A w \in Workers : ~Busy(w)
    BY <1>1 DEF TripInv, TasksFit
  <2>2. \A t \in Trips : IsCounted(t)
    BY <1>1, <2>1 DEF TripInv, CountsFit
  <2>3. \A t \in Trips :
          /\ report[t].state = status[t]
          /\ status[t] = "completed" => report[t].samples = Len(Samples[recording[t]][dataset[t].from])
    BY <1>1, Zenon DEF TripInv, ReportFits
  <2>4. \A t \in Trips : report[t].state = counted[t]
    BY <2>2, <2>3, Zenon DEF IsCounted
  <2>5. \A state : {t \in Trips : report[t].state = state} = {t \in Trips : counted[t] = state}
    BY <2>4
  <2>6. /\ Summary.completed = Cardinality({t \in Trips : counted[t] = "completed"})
        /\ Summary.skipped = Cardinality({t \in Trips : counted[t] = "skipped"})
        /\ Summary.failed = Cardinality({t \in Trips : counted[t] = "failed"})
    BY <2>5 DEF Summary
  <2> QED BY <2>2, <2>3, <2>6, Zenon DEF IsCounted
<1> QED BY <1>1, TripInvariant, PTL

-----------------------------------------------------------------------------
(* The samples of a recording (DatasetSamples).                            *)

(* Times are numbers, and rows are in their order.                         *)
InTime(labels) ==
  /\ Len(labels) \in Nat
  /\ \A i \in 1..Len(labels) : labels[i].time \in Int
  /\ \A i, j \in 1..Len(labels) : i < j => labels[i].time <= labels[j].time

(* The row nearest to a time, or none is within the tolerance.             *)
IsNearest(labels, target, tolerance, first, last, row) ==
  LET Off(i) == Offset(labels[i].time, target)
  IN IF \E i \in first..last : Off(i) <= tolerance
     THEN row \in first..last /\ Off(row) <= tolerance /\ \A i \in first..last : Off(row) <= Off(i)
     ELSE row = 0

(* The search around the first row that is not earlier finds the nearest.  *)
LEMMA NearestFinds ==
  ASSUME NEW labels, InTime(labels), NEW target \in Int, NEW tolerance \in Nat,
         NEW first \in Nat \ {0}, NEW last \in Nat, last <= Len(labels)
  PROVE  IsNearest(labels, target, tolerance, first, last, Nearest(labels, target, tolerance, first, last))
<1> DEFINE Off(i) == Offset(labels[i].time, target)
           later == {i \in first..last : labels[i].time >= target}
           index == IF later = {} THEN last + 1 ELSE Min(later)
           candidates == {index - 1, index} \cap (first..last)
           IsBest(i) == \A j \in candidates \ {i} : IF j < i THEN Off(i) <= Off(j) ELSE Off(i) < Off(j)
           best == CHOOSE i \in candidates : IsBest(i)
<1>1. /\ \A i \in first..last : i \in Nat /\ labels[i].time \in Int
      /\ \A i, j \in first..last : i < j => labels[i].time <= labels[j].time
  BY DEF InTime
<1>2. \A i \in first..last : Off(i) \in Nat
  BY <1>1 DEF Offset
<1>3. /\ index \in Nat /\ index <= last + 1 /\ (first <= last => first <= index)
      /\ \A i \in first..last : IF i < index THEN labels[i].time < target ELSE labels[i].time >= target
  <2>1. CASE later = {}
    BY <1>1, <2>1
  <2>2. CASE later # {}
    <3>1. later \subseteq Nat
      BY <1>1
    <3>2. index \in later /\ \A i \in later : index <= i
      BY <2>2, <3>1, LeastOf
    <3> HIDE DEF index
    <3>3. ASSUME NEW i \in first..last, i < index PROVE labels[i].time < target
      BY <1>1, <3>2, <3>3
    <3>4. ASSUME NEW i \in first..last, ~(i < index) PROVE labels[i].time >= target
      <4>1. index \in first..last /\ labels[index].time >= target
        BY <3>2
      <4> QED BY <1>1, <3>4, <4>1
    <3> QED BY <3>2, <3>3, <3>4
  <2> QED BY <2>1, <2>2
<1>4. Nearest(labels, target, tolerance, first, last) =
        IF candidates = {} THEN 0 ELSE IF Off(best) > tolerance THEN 0 ELSE best
  BY DEF Nearest
<1>5. candidates = {} => first..last = {}
  <2> HIDE DEF index
  <2>1. first <= last => index - 1 \in first..last \/ index \in first..last
    BY <1>3
  <2> QED BY <2>1
<1>6. ASSUME candidates # {} PROVE best \in candidates /\ IsBest(best)
  <2> SUFFICES \E i \in candidates : IsBest(i)
    OBVIOUS
  <2> HIDE DEF index
  <2>0. \A i \in candidates : Off(i) \in Nat /\ i \in Int
    BY <1>2
  <2> HIDE DEF Off
  <2>1. CASE index - 1 \notin candidates \/ index \notin candidates
    <3>1. PICK i \in candidates : candidates \subseteq {i}
      BY <1>6, <2>1
    <3> QED BY <3>1
  <2>2. CASE index - 1 \in candidates /\ index \in candidates
    <3>1. CASE Off(index) <= Off(index - 1)
      <4>1. \A j \in candidates \ {index} : j = index - 1
        OBVIOUS
      <4> QED BY <1>3, <2>2, <3>1, <4>1
    <3>2. CASE Off(index - 1) < Off(index)
      <4>1. \A j \in candidates \ {index - 1} : j = index
        OBVIOUS
      <4> QED BY <1>3, <2>2, <3>2, <4>1
    <3> QED BY <2>0, <2>2, <3>1, <3>2
  <2> QED BY <2>1, <2>2
<1>7. ASSUME candidates # {}, NEW i \in first..last PROVE Off(best) <= Off(i)
  <2>1. best \in first..last /\ Off(best) \in Nat
    BY <1>2, <1>6, <1>7
  <2>2. \A j \in candidates : Off(best) <= Off(j)
    <3> HIDE DEF best, index
    <3>1. \A j \in candidates : Off(j) \in Nat
      BY <1>2
    <3> HIDE DEF Off, candidates
    <3> QED BY <1>6, <1>7, <2>1, <3>1
  <2>3. \E j \in candidates : Off(j) <= Off(i)
    <3> HIDE DEF best, index
    <3>1. CASE i < index
      <4>1. index - 1 \in candidates
        BY <1>3, <3>1
      <4>2. labels[i].time <= labels[index - 1].time /\ labels[index - 1].time < target
        BY <1>1, <1>3, <3>1, <4>1
      <4> QED BY <1>1, <4>1, <4>2 DEF Offset
    <3>2. CASE ~(i < index)
      <4>1. index \in candidates
        BY <1>3, <3>2
      <4>2. labels[index].time <= labels[i].time /\ labels[index].time >= target
        BY <1>1, <1>3, <3>2, <4>1
      <4> QED BY <1>1, <4>1, <4>2 DEF Offset
    <3> QED BY <3>1, <3>2
  <2>4. PICK j \in candidates : Off(j) <= Off(i)
    BY <2>3
  <2> HIDE DEF Off, best, candidates
  <2>5. Off(j) \in Nat /\ Off(i) \in Nat
    BY <1>2, <2>4 DEF candidates
  <2> QED BY <2>1, <2>2, <2>4, <2>5
<1>8. CASE candidates = {}
  BY <1>4, <1>5, <1>8 DEF IsNearest
<1>9. CASE candidates # {}
  <2>1. best \in first..last
    BY <1>6, <1>9
  <2>2. \A i \in first..last : Off(best) <= Off(i)
    BY <1>7, <1>9
  <2>3. ASSUME Off(best) <= tolerance PROVE IsNearest(labels, target, tolerance, first, last, best)
    <3> HIDE DEF best, later, index, candidates, IsBest
    <3> QED BY <2>1, <2>2, <2>3 DEF IsNearest
  <2> HIDE DEF best, candidates
  <2>4. CASE Off(best) <= tolerance
    BY <1>2, <1>4, <1>9, <2>1, <2>3, <2>4 DEF Off
  <2>5. CASE Off(best) > tolerance
    <3>1. \A i \in first..last : ~(Off(i) <= tolerance)
      BY <1>2, <2>1, <2>2, <2>5
    <3> QED BY <1>4, <1>9, <2>5, <3>1 DEF IsNearest
  <2> QED BY <1>2, <2>1, <2>4, <2>5
<1> QED BY <1>8, <1>9

(* Where the offsets begin and end.                                        *)
LEMMA OffsetsEnd ==
  /\ TelemetryOffsets[1] \in Int /\ TelemetryOffsets[1] <= 0
  /\ Last(FutureOffsets) \in Nat \ {0}
<1>1. /\ TelemetryOffsets \in Seq(Int) /\ Len(TelemetryOffsets) \in Nat \ {0}
      /\ FutureOffsets \in Seq(Int) /\ Len(FutureOffsets) \in Nat \ {0}
  BY SamplingAssumption, EmptySeq, LenProperties
<1>2. ASSUME NEW s \in Seq(Int), Len(s) \in Nat \ {0}, \A i \in 1..Len(s) - 1 : s[i] < s[i + 1]
      PROVE  s[1] \in Int /\ Last(s) \in Int /\ s[1] <= Last(s)
  <2> DEFINE Below == {k \in 1..Len(s) : s[k] < s[1]}
  <2>1. \A i \in 1..Len(s) : s[i] \in Int
    BY <1>2, ElementOfSeq
  <2>2. Below = {}
    <3> SUFFICES ASSUME Below # {} PROVE FALSE
      OBVIOUS
    <3> DEFINE k == Min(Below)
    <3>1. Below \subseteq Nat
      BY <1>2
    <3>2. k \in Below /\ \A n \in Below : k <= n
      BY <3>1, LeastOf
    <3> HIDE DEF k
    <3>3. k \in 1..Len(s) /\ k # 1 /\ s[k] < s[1]
      BY <1>2, <2>1, <3>2
    <3>4. k - 1 \in 1..Len(s) - 1
      BY <1>2, <3>3
    <3>5. s[k - 1] < s[k - 1 + 1] /\ k - 1 + 1 = k
      BY <1>2, <3>3, <3>4
    <3>6. k - 1 \notin Below
      BY <1>2, <3>2, <3>3
    <3> QED BY <1>2, <2>1, <3>3, <3>4, <3>5, <3>6
  <2>3. ~(s[Len(s)] < s[1])
    BY <1>2, <2>2
  <2> QED BY <1>2, <2>1, <2>3 DEF Last
<1> QED BY <1>1, <1>2, SamplingAssumption

LEMMA ToleranceOfRows ==
  /\ AlignmentTolerance \in Nat /\ AlignmentTolerance <= LabelTolerance
  /\ AlignmentTolerance <= SampleInterval \div 2
  /\ AlignmentTolerance = LabelTolerance \/ AlignmentTolerance = SampleInterval \div 2
<1>1. LabelTolerance \in Nat /\ SampleInterval \in Nat \ {0} /\ SampleInterval \div 2 \in Nat
  BY SamplingAssumption
<1>2. {LabelTolerance, SampleInterval \div 2} \subseteq Nat
  BY <1>1
<1> QED BY <1>2, LeastOf DEF AlignmentTolerance

(* The rows of a history are found one after the other.                    *)
HistoryRow(labels, anchor, offset, previous) ==
  IF offset # TelemetryOffsets[1] /\ previous = 0 THEN 0
  ELSE IF offset = 0 THEN anchor
  ELSE Nearest(labels, labels[anchor].time + offset * SampleInterval, AlignmentTolerance,
               previous + 1, anchor - 1)

IsHistory(labels, anchor, row) ==
  row = [offset \in TelemetryOffsets[1]..0 |->
           HistoryRow(labels, anchor, offset, IF offset = TelemetryOffsets[1] THEN 0 ELSE row[offset - 1])]

LEMMA HistoryRowsExist ==
  ASSUME NEW labels, NEW anchor
  PROVE  \E row : IsHistory(labels, anchor, row)
<1> DEFINE first == TelemetryOffsets[1]
           Row(offset, previous) == HistoryRow(labels, anchor, offset, previous)
           Upto(n, row) ==
             row = [offset \in first..first + n - 1 |->
                      Row(offset, IF offset = first THEN 0 ELSE row[offset - 1])]
           Missing == {n \in Nat : ~\E row : Upto(n, row)}
<1>1. first \in Int /\ first <= 0
  BY OffsetsEnd
<1> HIDE DEF first, Row
<1>2. Missing = {}
  <2> SUFFICES ASSUME Missing # {} PROVE FALSE
    OBVIOUS
  <2> DEFINE n == Min(Missing)
  <2>1. n \in Missing /\ \A m \in Missing : n <= m
    BY LeastOf
  <2> HIDE DEF n
  <2>2. n # 0
    <3>1. first..first + 0 - 1 = {}
      BY <1>1
    <3> DEFINE row == [offset \in {} |-> 0]
    <3>2. Upto(0, row)
      BY <3>1
    <3> QED BY <2>1, <3>2
  <2>3. PICK row : Upto(n - 1, row)
    BY <2>1, <2>2
  <2> DEFINE last == first + n - 1
             longer == [offset \in first..last |->
                          IF offset < last THEN row[offset]
                          ELSE Row(offset, IF offset = first THEN 0 ELSE row[offset - 1])]
  <2>4. ASSUME NEW offset \in first..last
        PROVE  longer[offset] = Row(offset, IF offset = first THEN 0 ELSE longer[offset - 1])
    <3>1. offset # first => longer[offset - 1] = row[offset - 1]
      BY <1>1, <2>1, <2>4
    <3>2. CASE offset < last
      <4>1. offset \in first..first + (n - 1) - 1
        BY <1>1, <2>1, <2>4, <3>2
      <4>2. row[offset] = Row(offset, IF offset = first THEN 0 ELSE row[offset - 1])
        BY <2>3, <4>1
      <4> QED BY <3>1, <3>2, <4>2
    <3>3. CASE ~(offset < last)
      BY <3>1, <3>3
    <3> QED BY <3>2, <3>3
  <2>5. Upto(n, longer)
    BY <2>4
  <2> QED BY <2>1, <2>5
<1>3. PICK row : Upto(1 - first, row)
  <2>1. 1 - first \in Nat
    BY <1>1
  <2> QED BY <1>2, <2>1
<1>4. first + (1 - first) - 1 = 0
  BY <1>1
<1> QED BY <1>3, <1>4 DEF IsHistory, first, Row

(* What buildTelemetryHistory makes of them.                               *)
LEMMA HistoryIsOfRows ==
  ASSUME NEW labels, NEW anchor
  PROVE  \E row : /\ IsHistory(labels, anchor, row)
                  /\ TelemetryHistory(labels, anchor) =
                       IF row[0] = 0 THEN <<>>
                       ELSE [k \in 1..1 - TelemetryOffsets[1] |-> row[TelemetryOffsets[1] + k - 1]]
<1> DEFINE row == CHOOSE row : IsHistory(labels, anchor, row)
<1>1. IsHistory(labels, anchor, row)
  BY HistoryRowsExist
<1>2. TelemetryHistory(labels, anchor) =
        IF row[0] = 0 THEN <<>>
        ELSE [k \in 1..1 - TelemetryOffsets[1] |-> row[TelemetryOffsets[1] + k - 1]]
  BY DEF TelemetryHistory, IsHistory, HistoryRow
<1> QED BY <1>1, <1>2

(* Each row of a history is the nearest to its time among those after the  *)
(* row before it, or there is none from there on.                          *)
LEMMA NearestIsBefore ==
  ASSUME NEW labels, InTime(labels), NEW anchor \in 1..Len(labels), NEW target \in Int,
         NEW previous \in Nat, NEW row,
         IsNearest(labels, target, AlignmentTolerance, previous + 1, anchor - 1, row)
  PROVE  row \in Nat /\ row < anchor
BY DEF IsNearest, InTime

LEMMA HistoryRowsAreNearest ==
  ASSUME NEW labels, InTime(labels), NEW anchor \in 1..Len(labels),
         NEW row, IsHistory(labels, anchor, row), NEW offset \in TelemetryOffsets[1]..0
  PROVE  LET previous == IF offset = TelemetryOffsets[1] THEN 0 ELSE row[offset - 1]
         IN /\ row[offset] \in Nat /\ previous \in Nat /\ previous < anchor
            /\ offset < 0 => row[offset] < anchor
            /\ IF offset # TelemetryOffsets[1] /\ previous = 0 THEN row[offset] = 0
               ELSE IF offset = 0 THEN row[offset] = anchor
               ELSE IsNearest(labels, labels[anchor].time + offset * SampleInterval,
                              AlignmentTolerance, previous + 1, anchor - 1, row[offset])
<1> DEFINE first == TelemetryOffsets[1]
           Previous(o) == IF o = first THEN 0 ELSE row[o - 1]
           Target(o) == labels[anchor].time + o * SampleInterval
           Fitting(o) == Previous(o) \in Nat /\ Previous(o) < anchor
           Wrong == {n \in Nat : first + n <= 0 /\ ~Fitting(first + n)}
<1>1. /\ first \in Int /\ first <= 0 /\ anchor \in Nat \ {0} /\ anchor <= Len(labels)
      /\ Len(labels) \in Nat /\ AlignmentTolerance \in Nat
      /\ \A o \in Int : Target(o) \in Int
  <2>1. labels[anchor].time \in Int /\ SampleInterval \in Int
    BY SamplingAssumption DEF InTime
  <2> QED BY SMTT(30), <2>1, OffsetsEnd, ToleranceOfRows DEF InTime
<1>2. \A o \in first..0 : row[o] = HistoryRow(labels, anchor, o, Previous(o))
  BY DEF IsHistory
<1>3. ASSUME NEW o \in first..0, Fitting(o)
      PROVE  /\ row[o] \in Nat /\ (o < 0 => row[o] < anchor)
             /\ IF o # first /\ Previous(o) = 0 THEN row[o] = 0
                ELSE IF o = 0 THEN row[o] = anchor
                ELSE IsNearest(labels, Target(o), AlignmentTolerance, Previous(o) + 1, anchor - 1, row[o])
  <2> DEFINE previous == Previous(o)
  <2>1. row[o] = IF o # first /\ previous = 0 THEN 0 ELSE IF o = 0 THEN anchor
                 ELSE Nearest(labels, Target(o), AlignmentTolerance, previous + 1, anchor - 1)
    BY <1>2 DEF HistoryRow
  <2>2. previous \in Nat /\ previous < anchor
    BY <1>3
  <2>3. o \in Int /\ o <= 0
    BY <1>1
  <2> SUFFICES /\ row[o] \in Nat /\ (o < 0 => row[o] < anchor)
               /\ IF o # first /\ previous = 0 THEN row[o] = 0
                  ELSE IF o = 0 THEN row[o] = anchor
                  ELSE IsNearest(labels, Target(o), AlignmentTolerance, previous + 1, anchor - 1, row[o])
    OBVIOUS
  <2> HIDE DEF previous, Target, first
  <2>4. previous + 1 \in Nat \ {0} /\ anchor - 1 \in Nat /\ anchor - 1 <= Len(labels) /\ Target(o) \in Int
    <3>1. previous + 1 \in Nat \ {0}
      BY <2>2
    <3>2. anchor - 1 \in Nat /\ anchor - 1 <= Len(labels)
      BY <1>1
    <3>3. Target(o) \in Int
      BY <1>1, <2>3
    <3> QED BY <3>1, <3>2, <3>3
  <2>5. IsNearest(labels, Target(o), AlignmentTolerance, previous + 1, anchor - 1,
                  Nearest(labels, Target(o), AlignmentTolerance, previous + 1, anchor - 1))
    BY <1>1, <2>4, NearestFinds
  <2>6. CASE o # first /\ previous = 0
    BY <1>1, <2>1, <2>6
  <2>7. CASE ~(o # first /\ previous = 0) /\ o = 0
    BY <1>1, <2>1, <2>7
  <2>8. CASE ~(o # first /\ previous = 0) /\ o # 0
    <3>1. IsNearest(labels, Target(o), AlignmentTolerance, previous + 1, anchor - 1, row[o])
      BY <2>1, <2>5, <2>8
    <3>2. row[o] \in Nat /\ row[o] < anchor
      BY <2>2, <2>4, <3>1, NearestIsBefore
    <3> QED BY <2>8, <3>1, <3>2
  <2> QED BY <2>6, <2>7, <2>8
<1>4. offset \in first..0
  OBVIOUS
<1> HIDE DEF first
<1>5. Wrong = {}
  <2> SUFFICES ASSUME Wrong # {} PROVE FALSE
    OBVIOUS
  <2> DEFINE n == Min(Wrong)
             o == first + (n - 1)
  <2>1. n \in Wrong /\ \A m \in Wrong : n <= m
    BY LeastOf
  <2> HIDE DEF n
  <2>2. n # 0
    BY <1>1, <2>1
  <2>3. n - 1 \in Nat /\ o \in first..0 /\ o < 0 /\ first + n # first /\ (first + n) - 1 = o
    BY <1>1, <2>1, <2>2
  <2>4. Fitting(o)
    <3>1. n - 1 \notin Wrong
      BY <2>1, <2>3
    <3> HIDE DEF Fitting
    <3> QED BY <1>1, <2>3, <3>1
  <2>5. row[o] \in Nat /\ row[o] < anchor
    <3> HIDE DEF o, Fitting
    <3> QED BY <1>3, <2>3, <2>4
  <2>6. Previous(first + n) = row[(first + n) - 1]
    BY <2>3
  <2>7. Fitting(first + n)
    <3> HIDE DEF o, Previous
    <3> QED BY <2>3, <2>5, <2>6
  <2> QED BY <2>1, <2>7
<1>6. Fitting(offset)
  <2>1. offset - first \in Nat /\ first + (offset - first) = offset /\ offset <= 0
    BY <1>1, <1>4
  <2> HIDE DEF Fitting
  <2>2. Fitting(first + (offset - first))
    BY <1>5, <2>1
  <2> QED BY <2>1, <2>2
<1> QED BY <1>3, <1>4, <1>6 DEF first

(* A history is dense and in order, ends at its row, and each of its rows  *)
(* is within the tolerance of its time.                                    *)
HistoryFits(labels, anchor, history) ==
  LET length == 1 - TelemetryOffsets[1]
  IN /\ history \in [1..length -> 1..anchor] /\ history[length] = anchor
     /\ \A k \in 1..length - 1 : history[k] < history[k + 1]
     /\ \A k \in 1..length :
          Offset(labels[history[k]].time, labels[anchor].time + (k - length) * SampleInterval)
            <= AlignmentTolerance

THEOREM HistoryIsDense ==
  ASSUME NEW labels, InTime(labels), NEW anchor \in 1..Len(labels)
  PROVE  \/ TelemetryHistory(labels, anchor) = <<>>
         \/ HistoryFits(labels, anchor, TelemetryHistory(labels, anchor))
<1> DEFINE first == TelemetryOffsets[1]
           length == 1 - first
           history == TelemetryHistory(labels, anchor)
<1>1. PICK row : /\ IsHistory(labels, anchor, row)
                 /\ history = IF row[0] = 0 THEN <<>> ELSE [k \in 1..length |-> row[first + k - 1]]
  BY HistoryIsOfRows
<1> HIDE DEF history
<1> SUFFICES ASSUME row[0] # 0 PROVE HistoryFits(labels, anchor, history)
  BY <1>1 DEF history
<1>2. first \in Int /\ first <= 0 /\ anchor \in Nat \ {0} /\ AlignmentTolerance \in Nat
  BY OffsetsEnd, ToleranceOfRows DEF InTime
<1>3. ASSUME NEW o \in first..0
      PROVE  /\ row[o] \in Nat /\ row[o] <= anchor
             /\ o # first => /\ row[o - 1] = 0 => row[o] = 0
                             /\ row[o] # 0 => row[o - 1] < row[o]
             /\ o = 0 /\ row[o] # 0 => row[o] = anchor
             /\ o # 0 /\ row[o] # 0 =>
                  Offset(labels[row[o]].time, labels[anchor].time + o * SampleInterval) <= AlignmentTolerance
  <2> DEFINE previous == IF o = first THEN 0 ELSE row[o - 1]
  <2>1. /\ row[o] \in Nat /\ previous \in Nat /\ previous < anchor
        /\ o < 0 => row[o] < anchor
        /\ IF o # first /\ previous = 0 THEN row[o] = 0
           ELSE IF o = 0 THEN row[o] = anchor
           ELSE IsNearest(labels, labels[anchor].time + o * SampleInterval,
                          AlignmentTolerance, previous + 1, anchor - 1, row[o])
    BY <1>1, HistoryRowsAreNearest
  <2>2. o # first => row[o - 1] = previous
    OBVIOUS
  <2> HIDE DEF previous
  <2> QED BY <1>2, <2>1, <2>2 DEF IsNearest
<1>4. \A o \in first..0 : row[o] # 0
  <2> DEFINE Missing == {n \in Nat : first <= -n /\ row[-n] = 0}
  <2>1. Missing = {}
    <3> SUFFICES ASSUME Missing # {} PROVE FALSE
      OBVIOUS
    <3> DEFINE n == Min(Missing)
    <3>1. n \in Missing /\ \A m \in Missing : n <= m
      BY LeastOf
    <3> HIDE DEF n
    <3>2. n # 0
      BY <3>1
    <3>3. -(n - 1) \in first..0 /\ -(n - 1) # first /\ -(n - 1) - 1 = -n /\ n - 1 \in Nat
      BY <1>2, <3>1, <3>2
    <3>4. row[-(n - 1)] = 0
      BY <1>3, <3>1, <3>3
    <3> QED BY <1>2, <3>1, <3>3, <3>4
  <2>2. ASSUME NEW o \in first..0 PROVE row[o] # 0
    <3>1. -o \in Nat /\ first <= -(-o) /\ -(-o) = o
      BY <1>2
    <3> QED BY <2>1, <3>1
  <2> QED BY <2>2
<1>5. ASSUME NEW k \in 1..length
      PROVE  /\ first + k - 1 \in first..0 /\ history[k] = row[first + k - 1] /\ k - length = first + k - 1
             /\ k # length <=> first + k - 1 # 0
             /\ k # length => first + (k + 1) - 1 \in first..0 /\ history[k + 1] = row[first + (k + 1) - 1]
                              /\ first + (k + 1) - 1 # first /\ (first + (k + 1) - 1) - 1 = first + k - 1
  BY SMTT(30), <1>1, <1>2
<1>6. history \in [1..length -> 1..anchor] /\ history[length] = anchor
  <2>1. ASSUME NEW k \in 1..length PROVE history[k] \in 1..anchor
    <3>1. \A o \in first..0 : row[o] \in 1..anchor
      BY <1>2, <1>3, <1>4
    <3> HIDE DEF first
    <3> QED BY <1>5, <3>1
  <2>2. length \in 1..length
    BY <1>2
  <2> QED BY <1>1, <1>3, <1>4, <1>5, <2>1, <2>2
<1>7. \A k \in 1..length - 1 : history[k] < history[k + 1]
  <2> TAKE k \in 1..length - 1
  <2>1. k \in 1..length /\ k # length
    BY <1>2
  <2>2. /\ first + (k + 1) - 1 \in first..0 /\ first + (k + 1) - 1 # first
        /\ history[k] = row[(first + (k + 1) - 1) - 1] /\ history[k + 1] = row[first + (k + 1) - 1]
    BY <1>5, <2>1
  <2>3. \A o \in first..0 : o # first => row[o - 1] < row[o]
    BY <1>3, <1>4
  <2> HIDE DEF first
  <2>4. row[(first + (k + 1) - 1) - 1] < row[first + (k + 1) - 1]
    BY <2>2, <2>3
  <2> QED BY <2>2, <2>4
<1>8. ASSUME NEW k \in 1..length
      PROVE  Offset(labels[history[k]].time, labels[anchor].time + (k - length) * SampleInterval) <= AlignmentTolerance
  <2> DEFINE o == k - length
  <2>1. o \in first..0 /\ history[k] = row[o] /\ row[o] # 0
    BY <1>4, <1>5
  <2>2. CASE o = 0
    <3>1. labels[anchor].time \in Int /\ SampleInterval \in Int
      BY SamplingAssumption DEF InTime
    <3>2. row[o] = anchor
      BY <1>3, <2>1, <2>2
    <3>3. labels[anchor].time + o * SampleInterval = labels[anchor].time
      BY <2>2, <3>1
    <3> QED BY <1>2, <2>1, <3>1, <3>2, <3>3 DEF Offset
  <2>3. CASE o # 0
    BY <1>3, <2>1, <2>3
  <2> QED BY <2>2, <2>3
<1> QED BY <1>6, <1>7, <1>8 DEF HistoryFits

(* A choice for one time is never too early for another: a history is      *)
(* found if each of its times has a row nearer than half an interval.      *)
THEOREM HistoryIsFoundIfDense ==
  ASSUME NEW labels, InTime(labels), NEW anchor \in 1..Len(labels),
         \A offset \in TelemetryOffsets[1]..-1 : \E i \in 1..anchor - 1 :
           LET off == Offset(labels[i].time, labels[anchor].time + offset * SampleInterval)
           IN off <= LabelTolerance /\ 2 * off < SampleInterval
  PROVE  TelemetryHistory(labels, anchor) # <<>>
<1> DEFINE first == TelemetryOffsets[1]
           Off(i, o) == Offset(labels[i].time, labels[anchor].time + o * SampleInterval)
           Fits(i, o) == i \in 1..anchor - 1 /\ Off(i, o) <= LabelTolerance /\ 2 * Off(i, o) < SampleInterval
           history == TelemetryHistory(labels, anchor)
<1>1. PICK row : /\ IsHistory(labels, anchor, row)
                 /\ history = IF row[0] = 0 THEN <<>> ELSE [k \in 1..1 - first |-> row[first + k - 1]]
  BY HistoryIsOfRows
<1>2. /\ first \in Int /\ first <= 0 /\ anchor \in Nat \ {0} /\ anchor <= Len(labels)
      /\ SampleInterval \in Nat \ {0} /\ LabelTolerance \in Nat
      /\ \A i \in 1..anchor : labels[i].time \in Int
      /\ \A i, j \in 1..anchor : i < j => labels[i].time <= labels[j].time
  <2>1. anchor \in Nat \ {0} /\ anchor <= Len(labels) /\ 1..anchor \subseteq 1..Len(labels)
    BY DEF InTime
  <2>2. /\ \A i \in 1..anchor : labels[i].time \in Int
        /\ \A i, j \in 1..anchor : i < j => labels[i].time <= labels[j].time
    BY <2>1 DEF InTime
  <2> QED BY <2>1, <2>2, OffsetsEnd, SamplingAssumption
<1>3. ASSUME NEW o \in first..0
      PROVE  LET previous == IF o = first THEN 0 ELSE row[o - 1]
             IN /\ previous \in Nat /\ previous < anchor
                /\ IF o # first /\ previous = 0 THEN row[o] = 0
                   ELSE IF o = 0 THEN row[o] = anchor
                   ELSE IsNearest(labels, labels[anchor].time + o * SampleInterval,
                                  AlignmentTolerance, previous + 1, anchor - 1, row[o])
  BY <1>1, HistoryRowsAreNearest
<1>4. ASSUME NEW o \in first..-1, o = first \/ Fits(row[o - 1], o - 1)
      PROVE  Fits(row[o], o)
  <2> DEFINE previous == IF o = first THEN 0 ELSE row[o - 1]
             target == labels[anchor].time + o * SampleInterval
             Near(i) == Offset(labels[i].time, target)
  <2>1. PICK i \in 1..anchor - 1 : Near(i) <= LabelTolerance /\ 2 * Near(i) < SampleInterval
    OBVIOUS
  <2>2. o \in first..0 /\ o \in Int /\ o < 0
    BY <1>2
  <2>3. previous \in Nat /\ previous < anchor
    BY <1>3, <2>2
  <2>4. /\ labels[i].time \in Int /\ target \in Int /\ labels[anchor].time \in Int
        /\ o * SampleInterval \in Int /\ (o - 1) * SampleInterval = o * SampleInterval - SampleInterval
    <3>1. o * SampleInterval \in Int /\ (o - 1) * SampleInterval = o * SampleInterval - SampleInterval
      BY <1>2, <2>2
    <3>2. i \in 1..anchor /\ anchor \in 1..anchor
      BY <1>2
    <3>3. labels[i].time \in Int /\ labels[anchor].time \in Int
      BY <1>2, <3>2
    <3> QED BY <3>1, <3>3
  <2>5. ASSUME o # first PROVE previous < i
    <3> SUFFICES ASSUME i <= previous PROVE FALSE
      BY <2>3
    <3>1. previous = row[o - 1] /\ Fits(previous, o - 1)
      BY <1>4, <2>5
    <3> HIDE DEF previous
    <3>2. previous \in 1..anchor /\ labels[previous].time \in Int /\ labels[i].time <= labels[previous].time
      <4>1. i \in 1..anchor /\ previous \in 1..anchor /\ (i < previous \/ i = previous)
        BY <1>2, <2>3
      <4>2. labels[previous].time \in Int
        BY <1>2, <4>1
      <4>3. CASE i < previous
        BY <1>2, <4>1, <4>2, <4>3
      <4>4. CASE i = previous
        BY <4>2, <4>4
      <4> QED BY <4>1, <4>2, <4>3, <4>4
    <3>3. 2 * Offset(labels[previous].time, labels[anchor].time + (o - 1) * SampleInterval) < SampleInterval
      BY <3>1
    <3> DEFINE step == o * SampleInterval
               before == labels[previous].time
               at == labels[i].time
               zero == labels[anchor].time
    <3>4. 2 * Offset(before, zero + (step - SampleInterval)) < SampleInterval /\ 2 * Offset(at, zero + step) < SampleInterval
      BY <2>1, <2>4, <3>3
    <3>5. before \in Int /\ at \in Int /\ zero \in Int /\ step \in Int /\ at <= before
      BY <2>4, <3>2
    <3> HIDE DEF step, before, at, zero
    <3> QED BY <1>2, <3>4, <3>5 DEF Offset
  <2>6. i \in previous + 1..anchor - 1
    BY SMTT(30), <1>2, <2>1, <2>3, <2>5
  <2>7. Near(i) \in Nat /\ Near(i) <= AlignmentTolerance
    <3>1. Near(i) \in Nat
      BY SMTT(30), <2>4 DEF Offset
    <3> HIDE DEF Near
    <3> QED BY <1>2, <2>1, <3>1, ToleranceOfRows
  <2>8. IsNearest(labels, target, AlignmentTolerance, previous + 1, anchor - 1, row[o])
    <3>1. ~(o # first /\ previous = 0)
      BY <1>2, <1>4, <2>3
    <3> QED BY <1>3, <2>2, <3>1
  <2> HIDE DEF previous, target
  <2>9. row[o] \in previous + 1..anchor - 1 /\ Near(row[o]) <= Near(i)
    BY <2>6, <2>7, <2>8 DEF IsNearest
  <2>10. row[o] \in 1..anchor - 1
    BY <1>2, <2>3, <2>9
  <2>11. Near(row[o]) \in Nat
    BY SMTT(30), <1>2, <2>4, <2>10 DEF Offset
  <2>12. Off(row[o], o) = Near(row[o])
    BY DEF target
  <2> HIDE DEF Near, Off
  <2> QED BY SMTT(30), <1>2, <2>1, <2>7, <2>9, <2>10, <2>11, <2>12
<1> HIDE DEF Fits
<1>5. \A o \in first..-1 : Fits(row[o], o)
  <2> DEFINE Lost == {n \in Nat : first + n < 0 /\ ~Fits(row[first + n], first + n)}
  <2> HIDE DEF first
  <2>1. Lost = {}
    <3> SUFFICES ASSUME Lost # {} PROVE FALSE
      OBVIOUS
    <3> DEFINE n == Min(Lost)
               o == first + n
    <3>1. n \in Lost /\ \A m \in Lost : n <= m
      BY LeastOf
    <3> HIDE DEF n
    <3>2. o \in first..-1 /\ ~Fits(row[o], o)
      BY <1>2, <3>1
    <3>3. n # 0 => n - 1 \in Nat /\ first + (n - 1) < 0 /\ first + (n - 1) = o - 1
      BY <1>2, <3>1
    <3>4. n # 0 => Fits(row[first + (n - 1)], first + (n - 1))
      <4>1. n - 1 \in Lost => n <= n - 1
        BY <3>1
      <4>2. n \in Nat
        BY <3>1
      <4> HIDE DEF Lost
      <4>3. n # 0 => n - 1 \notin Lost
        BY <4>1, <4>2
      <4> USE DEF Lost
      <4> QED BY <3>3, <4>3
    <3>5. n = 0 => o = first
      BY <1>2
    <3> HIDE DEF o
    <3>6. o = first \/ Fits(row[o - 1], o - 1)
      BY <3>3, <3>4, <3>5
    <3> QED BY <1>4, <3>2, <3>6
  <2> TAKE o \in first..-1
  <2>2. o - first \in Nat /\ first + (o - first) = o /\ o < 0
    BY <1>2
  <2> QED BY <2>1, <2>2
<1>6. row[0] = anchor
  <2>1. first # 0 => Fits(row[0 - 1], 0 - 1)
    BY <1>2, <1>5
  <2>2. first # 0 => row[0 - 1] # 0
    BY <2>1 DEF Fits
  <2> QED BY <1>2, <1>3, <2>2
<1>7. row[0] # 0 /\ 1 \in 1..1 - first
  BY <1>2, <1>6
<1>8. [k \in 1..1 - first |-> row[first + k - 1]] # <<>>
  <2>1. DOMAIN [k \in 1..1 - first |-> row[first + k - 1]] # {}
    BY <1>7
  <2> QED BY <2>1, EmptySeq
<1> QED BY <1>1, <1>7, <1>8

(* The rows of a future are found in the same way.                         *)
IsFuture(labels, anchor, row) ==
  row = [offset \in 0..Last(FutureOffsets) |->
           IF offset = 0 THEN anchor
           ELSE IF row[offset - 1] = 0 THEN 0
           ELSE Nearest(labels, labels[anchor].time + offset * SampleInterval,
                        AlignmentTolerance, row[offset - 1] + 1, Len(labels))]

LEMMA FutureRowsExist ==
  ASSUME NEW labels, NEW anchor
  PROVE  \E row : IsFuture(labels, anchor, row)
<1> DEFINE Row(offset, previous) ==
             IF offset = 0 THEN anchor
             ELSE IF previous = 0 THEN 0
             ELSE Nearest(labels, labels[anchor].time + offset * SampleInterval,
                          AlignmentTolerance, previous + 1, Len(labels))
           Upto(n, row) == row = [offset \in 0..n |-> Row(offset, row[offset - 1])]
           Missing == {n \in Nat : ~\E row : Upto(n, row)}
<1>1. Missing = {}
  <2> SUFFICES ASSUME Missing # {} PROVE FALSE
    OBVIOUS
  <2> DEFINE n == Min(Missing)
  <2>1. n \in Missing /\ \A m \in Missing : n <= m
    BY LeastOf
  <2> HIDE DEF n
  <2>2. n # 0
    <3> DEFINE row == [offset \in 0..0 |-> anchor]
    <3>1. Upto(0, row)
      OBVIOUS
    <3> QED BY <2>1, <3>1
  <2>3. PICK row : Upto(n - 1, row)
    BY <2>1, <2>2
  <2> DEFINE longer == [offset \in 0..n |-> IF offset < n THEN row[offset] ELSE Row(offset, row[offset - 1])]
  <2> HIDE DEF Row
  <2>4. ASSUME NEW offset \in 0..n PROVE longer[offset] = Row(offset, longer[offset - 1])
    <3>1. offset # 0 => longer[offset - 1] = row[offset - 1]
      BY <2>1, <2>4
    <3>2. CASE offset < n
      <4>1. offset \in 0..n - 1
        BY <2>1, <2>4, <3>2
      <4>2. row[offset] = Row(offset, row[offset - 1])
        BY <2>3, <4>1
      <4>3. CASE offset = 0
        BY <3>2, <4>2, <4>3 DEF Row
      <4>4. CASE offset # 0
        BY <3>1, <3>2, <4>2, <4>4
      <4> QED BY <4>3, <4>4
    <3>3. CASE ~(offset < n)
      <4>1. offset # 0
        BY <2>1, <2>2, <3>3
      <4> QED BY <3>1, <3>3, <4>1
    <3> QED BY <3>2, <3>3
  <2>5. Upto(n, longer)
    BY <2>4
  <2> QED BY <2>1, <2>5
<1>2. PICK row : Upto(Last(FutureOffsets), row)
  BY <1>1, OffsetsEnd
<1> QED BY <1>2 DEF IsFuture

LEMMA FutureIsOfRows ==
  ASSUME NEW labels, NEW anchor
  PROVE  \E row : /\ IsFuture(labels, anchor, row)
                  /\ TelemetryFuture(labels, anchor) =
                       IF row[Last(FutureOffsets)] = 0 THEN <<>>
                       ELSE [k \in 1..Last(FutureOffsets) |-> row[k]]
<1> DEFINE row == CHOOSE row : IsFuture(labels, anchor, row)
<1>1. IsFuture(labels, anchor, row)
  BY FutureRowsExist
<1>2. TelemetryFuture(labels, anchor) =
        IF row[Last(FutureOffsets)] = 0 THEN <<>> ELSE [k \in 1..Last(FutureOffsets) |-> row[k]]
  BY DEF TelemetryFuture, IsFuture
<1> QED BY <1>1, <1>2

(* A future is dense, in order and after its row, and each of its rows is  *)
(* within the tolerance of its time.                                       *)
FutureFits(labels, anchor, future) ==
  LET horizon == Last(FutureOffsets)
  IN /\ future \in [1..horizon -> anchor + 1..Len(labels)]
     /\ \A k \in 1..horizon - 1 : future[k] < future[k + 1]
     /\ \A k \in 1..horizon :
          Offset(labels[future[k]].time, labels[anchor].time + k * SampleInterval) <= AlignmentTolerance

THEOREM FutureIsDense ==
  ASSUME NEW labels, InTime(labels), NEW anchor \in 1..Len(labels)
  PROVE  \/ TelemetryFuture(labels, anchor) = <<>>
         \/ FutureFits(labels, anchor, TelemetryFuture(labels, anchor))
<1> DEFINE horizon == Last(FutureOffsets)
           future == TelemetryFuture(labels, anchor)
<1>1. PICK row : /\ IsFuture(labels, anchor, row)
                 /\ future = IF row[horizon] = 0 THEN <<>> ELSE [k \in 1..horizon |-> row[k]]
  BY FutureIsOfRows
<1> HIDE DEF future
<1> SUFFICES ASSUME row[horizon] # 0 PROVE FutureFits(labels, anchor, future)
  BY <1>1 DEF future
<1>2. /\ horizon \in Nat \ {0} /\ anchor \in Nat \ {0} /\ anchor <= Len(labels) /\ Len(labels) \in Nat
      /\ AlignmentTolerance \in Nat /\ SampleInterval \in Int /\ labels[anchor].time \in Int
  BY OffsetsEnd, ToleranceOfRows, SamplingAssumption DEF InTime
<1> HIDE DEF horizon
<1>3. row[0] = anchor
  BY <1>1, <1>2 DEF IsFuture, horizon
<1>4. ASSUME NEW o \in 1..horizon, row[o - 1] \in Nat, row[o - 1] # 0
      PROVE  IsNearest(labels, labels[anchor].time + o * SampleInterval, AlignmentTolerance,
                       row[o - 1] + 1, Len(labels), row[o])
  <2> DEFINE target == labels[anchor].time + o * SampleInterval
             first == row[o - 1] + 1
  <2>1. o \in 0..horizon /\ o # 0 /\ target \in Int /\ first \in Nat \ {0}
    BY <1>2, <1>4
  <2>2. row[o] = Nearest(labels, target, AlignmentTolerance, first, Len(labels))
    BY <1>1, <1>4, <2>1 DEF IsFuture, horizon
  <2> HIDE DEF target, first
  <2>3. IsNearest(labels, target, AlignmentTolerance, first, Len(labels),
                  Nearest(labels, target, AlignmentTolerance, first, Len(labels)))
    BY <1>2, <2>1, NearestFinds
  <2> QED BY <2>2, <2>3 DEF target, first
<1>5. ASSUME NEW o \in 1..horizon PROVE row[o - 1] = 0 => row[o] = 0
  <2>1. o \in 0..horizon /\ o # 0
    BY <1>2
  <2> QED BY <1>1, <2>1 DEF IsFuture, horizon
<1>6. \A o \in 0..horizon : row[o] # 0
  <2> DEFINE Missing == {n \in Nat : n <= horizon /\ row[horizon - n] = 0}
  <2>1. Missing = {}
    <3> SUFFICES ASSUME Missing # {} PROVE FALSE
      OBVIOUS
    <3> DEFINE n == Min(Missing)
               o == horizon - (n - 1)
    <3>1. n \in Missing /\ \A m \in Missing : n <= m
      BY LeastOf
    <3> HIDE DEF n
    <3>2. n # 0
      BY <1>2, <3>1
    <3>3. o \in 1..horizon /\ o - 1 = horizon - n /\ n - 1 \in Nat /\ n - 1 <= horizon /\ ~(n <= n - 1)
      BY <1>2, <3>1, <3>2
    <3>4. row[o - 1] = 0
      BY <3>1, <3>3
    <3>5. row[o] # 0
      BY <3>1, <3>3
    <3> HIDE DEF o
    <3> QED BY <1>5, <3>3, <3>4, <3>5
  <2> TAKE o \in 0..horizon
  <2>2. horizon - o \in Nat /\ horizon - o <= horizon /\ horizon - (horizon - o) = o
    BY <1>2
  <2> QED BY <2>1, <2>2
<1>7. \A o \in 0..horizon : row[o] \in Nat /\ row[o] <= Len(labels) /\ (o # 0 => row[o] > anchor)
  <2> DEFINE Fitting(o) == row[o] \in Nat /\ row[o] <= Len(labels) /\ (IF o = 0 THEN row[o] = anchor ELSE row[o] > anchor)
             Wrong == {n \in Nat : n <= horizon /\ ~Fitting(n)}
  <2>1. Wrong = {}
    <3> SUFFICES ASSUME Wrong # {} PROVE FALSE
      OBVIOUS
    <3> DEFINE n == Min(Wrong)
    <3>1. n \in Wrong /\ \A m \in Wrong : n <= m
      BY LeastOf
    <3> HIDE DEF n
    <3>2. n # 0
      BY <1>2, <1>3, <3>1
    <3>3. n \in 1..horizon /\ n - 1 \in 0..horizon /\ n - 1 \in Nat /\ n - 1 <= horizon /\ ~(n <= n - 1)
      BY <1>2, <3>1, <3>2
    <3>4. Fitting(n - 1)
      BY <3>1, <3>3
    <3>5. row[n - 1] \in Nat /\ row[n - 1] # 0 /\ row[n - 1] >= anchor
      <4>1. row[n - 1] # 0
        BY <1>6, <3>3
      <4> QED BY <1>2, <3>4, <4>1
    <3>6. row[n] # 0
      BY <1>6, <3>3
    <3>7. row[n] \in row[n - 1] + 1..Len(labels)
      BY <1>4, <3>3, <3>5, <3>6 DEF IsNearest
    <3>8. row[n] \in Nat /\ row[n] <= Len(labels) /\ row[n] > anchor
      BY <1>2, <3>5, <3>7
    <3> QED BY <3>1, <3>2, <3>8
  <2> TAKE o \in 0..horizon
  <2>2. Fitting(o)
    <3>1. o \in Nat /\ o <= horizon
      BY <1>2
    <3> HIDE DEF Fitting
    <3> QED BY <2>1, <3>1
  <2> QED BY <2>2
<1>8. ASSUME NEW o \in 1..horizon
      PROVE  /\ row[o] \in anchor + 1..Len(labels) /\ row[o - 1] < row[o]
             /\ Offset(labels[row[o]].time, labels[anchor].time + o * SampleInterval) <= AlignmentTolerance
  <2>1. o \in 0..horizon /\ o - 1 \in 0..horizon /\ o # 0
    BY <1>2
  <2>2. row[o] \in Nat /\ row[o] # 0 /\ row[o - 1] \in Nat /\ row[o - 1] # 0 /\ row[o] <= Len(labels) /\ row[o] > anchor
    BY <1>6, <1>7, <2>1
  <2>3. /\ row[o] \in row[o - 1] + 1..Len(labels)
        /\ Offset(labels[row[o]].time, labels[anchor].time + o * SampleInterval) <= AlignmentTolerance
    BY <1>4, <2>2 DEF IsNearest
  <2> QED BY <1>2, <2>2, <2>3
<1>9. future = [k \in 1..horizon |-> row[k]]
  BY <1>1
<1>10. ASSUME NEW k \in 1..horizon - 1 PROVE future[k] < future[k + 1]
  <2>1. k \in 1..horizon /\ k + 1 \in 1..horizon /\ (k + 1) - 1 = k
    BY <1>2
  <2>2. row[(k + 1) - 1] < row[k + 1]
    BY <1>8, <2>1
  <2> QED BY <1>9, <2>1, <2>2
<1> QED BY <1>8, <1>9, <1>10 DEF FutureFits, horizon

(* What a sample shows and is to predict, of the frame it is taken at: its *)
(* row is the nearest, images and history are of the past, future and      *)
(* target are not.                                                         *)
SampleFits(frames, labels, flash, anchor, sample) ==
  /\ sample.pts = frames[anchor].pts /\ sample.label \in 1..Len(labels)
  /\ IsNearest(labels, sample.pts - frames[flash].pts, LabelTolerance, 1, Len(labels), sample.label)
  /\ sample.frames \in [1..WindowSize -> {frames[i].image : i \in 1..anchor}]
  /\ sample.frames[WindowSize] = frames[anchor].image
  /\ HistoryFits(labels, sample.label, sample.history) /\ FutureFits(labels, sample.label, sample.future)
  /\ sample.target.horizon > 0

(* The window of a frame ends at it.                                       *)
LEMMA WindowIsPast ==
  ASSUME NEW frames, NEW anchor \in Nat, FrameWindow(frames, anchor) # <<>>
  PROVE  /\ FrameWindow(frames, anchor) \in [1..WindowSize -> {frames[i].image : i \in 1..anchor}]
         /\ FrameWindow(frames, anchor)[WindowSize] = frames[anchor].image
<1> DEFINE earliest == anchor - (WindowSize - 1) * FrameStride
           Index(slot) == earliest + (slot - 1) * FrameStride
<1>1. WindowSize \in Nat \ {0} /\ FrameStride \in Nat \ {0}
  BY SamplingAssumption
<1>2. earliest \in Int /\ earliest >= 1 /\ FrameWindow(frames, anchor) = [slot \in 1..WindowSize |-> frames[Index(slot)].image]
  <2>1. earliest \in Int
    BY <1>1
  <2>2. ~(earliest < 1) /\ FrameWindow(frames, anchor) = [slot \in 1..WindowSize |-> frames[Index(slot)].image]
    BY DEF FrameWindow
  <2> HIDE DEF earliest
  <2> QED BY <2>1, <2>2
<1>3. ASSUME NEW slot \in 1..WindowSize PROVE Index(slot) \in 1..anchor
  <2>1. /\ (slot - 1) * FrameStride \in Nat /\ (WindowSize - slot) * FrameStride \in Nat
        /\ (WindowSize - 1) * FrameStride = (slot - 1) * FrameStride + (WindowSize - slot) * FrameStride
    BY <1>1
  <2>2. Index(slot) = anchor - (WindowSize - slot) * FrameStride
    BY <1>1, <2>1
  <2>3. Index(slot) >= earliest
    <3> HIDE DEF earliest
    <3> QED BY <1>2, <2>1
  <2> HIDE DEF Index, earliest
  <2> QED BY <1>2, <2>1, <2>2, <2>3
<1>4. Index(WindowSize) = anchor
  BY <1>1
<1> HIDE DEF Index, earliest
<1>5. WindowSize \in 1..WindowSize
  BY <1>1
<1> QED BY <1>2, <1>3, <1>4, <1>5

THEOREM SamplesLookBack ==
  ASSUME NEW frames, NEW labels, InTime(labels),
         \A i \in 1..Len(frames) : frames[i].pts \in Int, NEW flash \in 1..Len(frames),
         NEW anchor \in 1..Len(frames), Len(frames) \in Nat,
         NEW sample \in SampleAt(frames, labels, flash, anchor)
  PROVE  SampleFits(frames, labels, flash, anchor, sample)
<1> DEFINE target == frames[anchor].pts - frames[flash].pts
           now == Nearest(labels, target, LabelTolerance, 1, Len(labels))
           future == anchor + SampleStride
           then == Nearest(labels, frames[future].pts - frames[flash].pts, LabelTolerance, 1, Len(labels))
           window == FrameWindow(frames, anchor)
           history == TelemetryHistory(labels, now)
           next == TelemetryFuture(labels, now)
<1>1. /\ window # <<>> /\ now # 0 /\ history # <<>> /\ next # <<>> /\ future <= Len(frames) /\ then # 0
      /\ labels[then].time > labels[now].time
      /\ \E goal \in TrainingLabel(labels, now, then) :
           sample = [pts |-> frames[anchor].pts, label |-> now, frames |-> window,
                     history |-> history, future |-> next, target |-> goal]
  <2>1. ~(future > Len(frames))
    BY DEF SampleAt
  <2>2. anchor \in Nat /\ future \in Nat
    BY SamplingAssumption
  <2>3. /\ window # <<>> /\ now # 0 /\ history # <<>> /\ next # <<>> /\ then # 0
        /\ labels[then].time > labels[now].time
        /\ \E goal \in TrainingLabel(labels, now, then) :
             sample = [pts |-> frames[anchor].pts, label |-> now, frames |-> window,
                       history |-> history, future |-> next, target |-> goal]
    BY DEF SampleAt
  <2> HIDE DEF future
  <2> QED BY <2>1, <2>2, <2>3
<1>2. /\ target \in Int /\ LabelTolerance \in Nat /\ Len(labels) \in Nat /\ anchor \in Nat
      /\ future \in 1..Len(frames)
  <2>1. target \in Int /\ Len(labels) \in Nat /\ anchor \in Nat \ {0}
    BY DEF InTime
  <2>2. future \in Nat \ {0}
    BY SamplingAssumption, <2>1
  <2>3. future <= Len(frames)
    BY <1>1
  <2> HIDE DEF future, target
  <2>4. future \in 1..Len(frames)
    BY <2>2, <2>3
  <2> QED BY <2>1, <2>4, SamplingAssumption
<1> HIDE DEF now, then, window, history, next, future
<1>3. IsNearest(labels, target, LabelTolerance, 1, Len(labels), now)
  <2> HIDE DEF target
  <2> QED BY <1>2, NearestFinds DEF now
<1>4. now \in 1..Len(labels)
  BY <1>1, <1>3 DEF IsNearest
<1>5. then \in 1..Len(labels)
  <2> DEFINE later == frames[future].pts - frames[flash].pts
  <2>1. later \in Int
    BY <1>2
  <2> HIDE DEF later
  <2>2. IsNearest(labels, later, LabelTolerance, 1, Len(labels),
                  Nearest(labels, later, LabelTolerance, 1, Len(labels)))
    <3>1. 1 \in Nat \ {0} /\ Len(labels) \in Nat /\ Len(labels) <= Len(labels) /\ LabelTolerance \in Nat
      BY <1>2
    <3> QED BY <2>1, <3>1, NearestFinds, Zenon
  <2>3. then = Nearest(labels, later, LabelTolerance, 1, Len(labels))
    BY DEF then, later
  <2> QED BY <1>1, <2>2, <2>3 DEF IsNearest
<1>6. PICK goal \in TrainingLabel(labels, now, then) :
        sample = [pts |-> frames[anchor].pts, label |-> now, frames |-> window,
                  history |-> history, future |-> next, target |-> goal]
  BY <1>1
<1>7. goal.horizon > 0
  <2>1. goal.horizon = labels[then].time - labels[now].time
    BY DEF TrainingLabel
  <2>2. labels[then].time \in Int /\ labels[now].time \in Int
    BY <1>4, <1>5 DEF InTime
  <2> QED BY <1>1, <2>1, <2>2
<1>8. HistoryFits(labels, now, history) /\ FutureFits(labels, now, next)
  BY <1>1, <1>4, HistoryIsDense, FutureIsDense DEF history, next
<1>9. /\ window \in [1..WindowSize -> {frames[i].image : i \in 1..anchor}]
      /\ window[WindowSize] = frames[anchor].image
  BY <1>1, <1>2, WindowIsPast DEF window
<1>10. /\ sample.pts = frames[anchor].pts /\ sample.label = now /\ sample.frames = window
       /\ sample.history = history /\ sample.future = next /\ sample.target = goal
  BY <1>6
<1> QED BY <1>3, <1>4, <1>7, <1>8, <1>9, <1>10 DEF SampleFits

-----------------------------------------------------------------------------
(* Recursion up to a number, and what is kept of a list.                 *)

(* Induction and recursion up to a number, over sets and functions.        *)
LEMMA UpTo ==
  ASSUME NEW N \in Nat, NEW S, 0 \in S, \A n \in 1..N : n - 1 \in S => n \in S
  PROVE  \A n \in 0..N : n \in S
<1> DEFINE Missing == {n \in Nat : n <= N /\ n \notin S}
<1> SUFFICES ASSUME Missing # {} PROVE FALSE
  OBVIOUS
<1> DEFINE n == Min(Missing)
<1>1. n \in Missing /\ \A m \in Missing : n <= m
  BY LeastOf
<1> HIDE DEF n
<1>2. n \in 1..N
  BY <1>1
<1>3. n - 1 \in Nat /\ n - 1 <= N /\ ~(n <= n - 1)
  BY <1>2
<1>4. n - 1 \in S
  BY <1>1, <1>3
<1> QED BY <1>1, <1>2, <1>4

Steps(N, base, step, f) == f[0] = base /\ \A n \in 1..N : f[n] = step[<<f[n - 1], n>>]
StaysIn(N, S, step) == \A x \in S, n \in 1..N : step[<<x, n>>] \in S

LEMMA Recursion ==
  ASSUME NEW N \in Nat, NEW S, NEW base \in S, NEW step, StaysIn(N, S, step)
  PROVE  \E f \in [0..N -> S] : Steps(N, base, step, f)
<1> DEFINE Found == {m \in 0..N : \E f \in [0..m -> S] :
                       f[0] = base /\ \A n \in 1..m : f[n] = step[<<f[n - 1], n>>]}
<1>1. 0 \in Found
  <2> DEFINE f == [n \in 0..0 |-> base]
  <2>1. 0 \in 0..N /\ 0 \in 0..0 /\ 1..0 = {}
    OBVIOUS
  <2>2. f \in [0..0 -> S] /\ f[0] = base
    BY <2>1
  <2> QED BY <2>1, <2>2
<1>2. ASSUME NEW m \in 1..N, m - 1 \in Found
      PROVE  m \in Found
  <2>1. PICK f \in [0..m - 1 -> S] : f[0] = base /\ \A n \in 1..m - 1 : f[n] = step[<<f[n - 1], n>>]
    BY <1>2
  <2> DEFINE longer == [n \in 0..m |-> IF n = m THEN step[<<f[m - 1], m>>] ELSE f[n]]
  <2>2. m \in Nat /\ m - 1 \in 0..m - 1 /\ 0 \in 0..m - 1 /\ m # 0 /\ m \in 0..N /\ m - 1 # m /\ m - 1 \in 0..m
    OBVIOUS
  <2>3. f[m - 1] \in S /\ step[<<f[m - 1], m>>] \in S
    BY <2>2 DEF StaysIn
  <2>4. longer \in [0..m -> S]
    <3>1. ASSUME NEW n \in 0..m, n # m PROVE f[n] \in S
      <4>1. n \in 0..m - 1
        BY <3>1
      <4> QED BY <4>1
    <3> QED BY <2>3, <3>1
  <2>5. longer[0] = base
    <3>1. 0 \in 0..m /\ 0 # m
      BY <2>2
    <3> QED BY <2>1, <3>1
  <2>6. ASSUME NEW n \in 1..m PROVE longer[n] = step[<<longer[n - 1], n>>]
    <3>1. n - 1 \in 0..m /\ n - 1 # m /\ n \in 0..m
      BY <2>6
    <3>2. longer[n - 1] = f[n - 1]
      BY <3>1
    <3>3. CASE n = m
      BY <3>1, <3>2, <3>3
    <3>4. CASE n # m
      <4>1. n \in 1..m - 1
        BY <3>4
      <4> QED BY <2>1, <3>1, <3>2, <3>4, <4>1
    <3> QED BY <3>3, <3>4
  <2> HIDE DEF longer
  <2> QED BY <2>2, <2>4, <2>5, <2>6
<1>3. N \in Found
  <2> HIDE DEF Found
  <2>1. \A n \in 0..N : n \in Found
    BY <1>1, <1>2, UpTo
  <2> QED BY <2>1
<1> QED BY <1>3 DEF Steps

(* A list of what is at some places up to one, in their order.             *)
At(list, places, n, kept, at) ==
  /\ at \in [1..Len(kept) -> places \cap 1..n]
  /\ \A k \in 1..Len(kept) : kept[k] = list[at[k]]
  /\ \A j, k \in 1..Len(kept) : j < k => at[j] < at[k]
  /\ \A i \in places \cap 1..n : \E k \in 1..Len(kept) : at[k] = i

IsPart(list, places, part) ==
  part = [n \in 0..Len(list) |->
            IF n = 0 THEN <<>> ELSE IF n \in places THEN Append(part[n - 1], list[n]) ELSE part[n - 1]]

LEMMA KeptIsOfParts ==
  ASSUME NEW T, NEW list \in Seq(T), NEW places
  PROVE  \E part \in [0..Len(list) -> Seq(T)] :
           IsPart(list, places, part) /\ Kept(list, places) = part[Len(list)]
<1> DEFINE N == Len(list)
           step == [x \in Seq(T) \X (1..N) |-> IF x[2] \in places THEN Append(x[1], list[x[2]]) ELSE x[1]]
<1>1. N \in Nat /\ <<>> \in Seq(T) /\ \A n \in 1..N : list[n] \in T
  BY LenProperties, EmptySeq, ElementOfSeq
<1>2. step \in [Seq(T) \X (1..N) -> Seq(T)]
  BY <1>1, AppendProperties
<1>3. \A kept \in Seq(T), n \in 1..N :
        step[<<kept, n>>] = IF n \in places THEN Append(kept, list[n]) ELSE kept
  OBVIOUS
<1> HIDE DEF step
<1>4. PICK f \in [0..N -> Seq(T)] : f[0] = <<>> /\ \A n \in 1..N : f[n] = step[<<f[n - 1], n>>]
  <2> DEFINE S == Seq(T)
             base == <<>>
  <2>1. N \in Nat /\ base \in S /\ StaysIn(N, S, step)
    BY <1>1, <1>2 DEF StaysIn
  <2> HIDE DEF N, S, base
  <2>2. \E f \in [0..N -> S] : Steps(N, base, step, f)
    BY <2>1, Recursion
  <2> QED BY <2>2 DEF S, base, Steps
<1>5. IsPart(list, places, f)
  <2>1. ASSUME NEW n \in 0..N
        PROVE  f[n] = IF n = 0 THEN <<>>
                      ELSE IF n \in places THEN Append(f[n - 1], list[n]) ELSE f[n - 1]
    <3>1. CASE n = 0
      BY <1>4, <3>1
    <3>2. CASE n # 0
      <4>1. n \in 1..N /\ n - 1 \in 0..N
        BY <1>1, <2>1, <3>2
      <4> HIDE DEF N
      <4> QED BY <1>3, <1>4, <3>2, <4>1
    <3> QED BY <3>1, <3>2
  <2> QED BY <2>1 DEF IsPart
<1> DEFINE part == CHOOSE part : IsPart(list, places, part)
<1>6. IsPart(list, places, part) /\ Kept(list, places) = part[N]
  BY <1>5 DEF Kept, IsPart
<1>7. part = f
  <2> HIDE DEF part, N
  <2> DEFINE Same == {n \in 0..N : part[n] = f[n]}
  <2>1. 0 \in Same
    BY <1>1, <1>5, <1>6 DEF IsPart, N
  <2>2. ASSUME NEW n \in 1..N, n - 1 \in Same PROVE n \in Same
    <3>1. n \in 0..N /\ n # 0 /\ part[n - 1] = f[n - 1]
      BY <1>1, <2>2
    <3>2. \A n1 \in 0..N : /\ part[n1] = IF n1 = 0 THEN <<>> ELSE IF n1 \in places THEN Append(part[n1 - 1], list[n1]) ELSE part[n1 - 1]
                          /\ f[n1] = IF n1 = 0 THEN <<>> ELSE IF n1 \in places THEN Append(f[n1 - 1], list[n1]) ELSE f[n1 - 1]
      BY <1>5, <1>6 DEF IsPart, N
    <3> QED BY <3>1, <3>2
  <2> HIDE DEF Same
  <2>3. \A n \in 0..N : n \in Same
    BY <1>1, <2>1, <2>2, UpTo
  <2>4. \A n \in 0..N : part[n] = f[n]
    BY <2>3 DEF Same
  <2> QED BY <1>5, <1>6, <2>4 DEF IsPart, N
<1> QED BY <1>5, <1>6, <1>7

(* What is kept of a list: all that is at its places, in their order.      *)
LEMMA KeptIsAt ==
  ASSUME NEW T, NEW list \in Seq(T), NEW places
  PROVE  Kept(list, places) \in Seq(T) /\ \E at : At(list, places, Len(list), Kept(list, places), at)
<1> DEFINE N == Len(list)
<1>1. PICK part \in [0..N -> Seq(T)] : IsPart(list, places, part) /\ Kept(list, places) = part[N]
  BY KeptIsOfParts
<1>2. N \in Nat /\ \A n \in 1..N : list[n] \in T
  BY LenProperties, ElementOfSeq
<1>3. \A n \in 0..N : part[n] = IF n = 0 THEN <<>> ELSE IF n \in places THEN Append(part[n - 1], list[n]) ELSE part[n - 1]
  BY <1>1 DEF IsPart
<1> HIDE DEF N
<1> DEFINE Good == {n \in 0..N : \E at : At(list, places, n, part[n], at)}
<1>4. 0 \in Good
  <2> DEFINE at == [k \in {} |-> 0]
  <2>1. 0 \in 0..N /\ part[0] = <<>> /\ Len(<<>>) = 0 /\ 1..0 = {}
    BY <1>2, <1>3
  <2>2. at \in [{} -> places \cap 1..0]
    OBVIOUS
  <2>3. At(list, places, 0, part[0], at)
    BY <2>1, <2>2 DEF At
  <2> QED BY <2>1, <2>3
<1>5. ASSUME NEW n \in 1..N, n - 1 \in Good
      PROVE  n \in Good
  <2> DEFINE old == part[n - 1]
             new == part[n]
             L == Len(old)
  <2>1. PICK at : At(list, places, n - 1, old, at)
    BY <1>5
  <2>2. n \in Nat /\ n \in 0..N /\ n - 1 \in 0..N /\ n # 0
    BY <1>2
  <2>3. old \in Seq(T) /\ L \in Nat /\ list[n] \in T
    BY <1>1, <1>2, <2>2, LenProperties
  <2>4. new = IF n \in places THEN Append(old, list[n]) ELSE old
    BY <1>3, <2>2
  <2>5. CASE n \notin places
    <3>1. places \cap 1..n = places \cap 1..n - 1
      BY <2>2, <2>5
    <3>2. At(list, places, n, new, at)
      BY <2>1, <2>4, <2>5, <3>1 DEF At
    <3> QED BY <2>2, <3>2
  <2>6. CASE n \in places
    <3> DEFINE longer == [k \in 1..L + 1 |-> IF k = L + 1 THEN n ELSE at[k]]
    <3>1. new = Append(old, list[n]) /\ Len(new) = L + 1 /\ new[L + 1] = list[n] /\ \A k \in 1..L : new[k] = old[k]
      BY <2>3, <2>4, <2>6, AppendProperties
    <3> HIDE DEF new, L, old
    <3>2. ASSUME NEW k \in 1..L
          PROVE  at[k] \in places /\ at[k] \in Nat /\ at[k] < n /\ at[k] >= 1
      <4>1. at[k] \in places \cap 1..n - 1
        BY <2>1 DEF At, L
      <4> QED BY <2>2, <4>1
    <3>3. longer \in [1..Len(new) -> places \cap 1..n]
      <4>1. ASSUME NEW k \in 1..L + 1 PROVE longer[k] \in places \cap 1..n
        <5>1. CASE k = L + 1
          BY <2>2, <2>6, <5>1
        <5>2. CASE k # L + 1
          <6>1. k \in 1..L
            BY <2>3, <5>2
          <6>2. at[k] \in places \cap 1..n
            BY <2>2, <3>2, <6>1
          <6> QED BY <5>2, <6>2
        <5> QED BY <5>1, <5>2
      <4> QED BY <3>1, <4>1
    <3>4. \A k \in 1..Len(new) : new[k] = list[longer[k]]
      <4> SUFFICES ASSUME NEW k \in 1..L + 1 PROVE new[k] = list[longer[k]]
        BY <3>1
      <4>1. CASE k = L + 1
        BY <3>1, <4>1
      <4>2. CASE k # L + 1
        <5>1. k \in 1..L
          BY <2>3, <4>2
        <5>2. old[k] = list[at[k]]
          BY <2>1, <5>1 DEF At, L
        <5> QED BY <3>1, <4>2, <5>1, <5>2
      <4> QED BY <4>1, <4>2
    <3>5. \A j, k \in 1..Len(new) : j < k => longer[j] < longer[k]
      <4> SUFFICES ASSUME NEW j \in 1..L + 1, NEW k \in 1..L + 1, j < k PROVE longer[j] < longer[k]
        BY <3>1
      <4>1. j \in 1..L /\ longer[j] = at[j]
        BY <2>3
      <4>2. CASE k = L + 1
        <5>1. longer[k] = n
          BY <4>2
        <5> QED BY <3>2, <4>1, <5>1
      <4>3. CASE k # L + 1
        <5>1. k \in 1..L /\ longer[k] = at[k]
          BY <2>3, <4>3
        <5> QED BY <2>1, <4>1, <5>1 DEF At, L
      <4> QED BY <4>2, <4>3
    <3>6. ASSUME NEW i \in places \cap 1..n PROVE \E k \in 1..Len(new) : longer[k] = i
      <4>1. CASE i = n
        <5>1. L + 1 \in 1..L + 1
          BY <2>3
        <5> QED BY <3>1, <4>1, <5>1
      <4>2. CASE i # n
        <5>1. i \in places \cap 1..n - 1
          BY <2>2, <4>2
        <5>2. PICK k \in 1..L : at[k] = i
          BY <2>1, <5>1 DEF At, L
        <5>3. k \in 1..L + 1 /\ k # L + 1
          BY <2>3
        <5> QED BY <3>1, <5>2, <5>3
      <4> QED BY <4>1, <4>2
    <3> HIDE DEF longer
    <3>7. At(list, places, n, new, longer)
      BY <3>3, <3>4, <3>5, <3>6 DEF At
    <3> QED BY <2>2, <3>7 DEF new
  <2> QED BY <2>5, <2>6
<1> HIDE DEF Good
<1>6. \A n \in 0..N : n \in Good
  BY <1>2, <1>4, <1>5, UpTo
<1>7. N \in 0..N
  BY <1>2
<1>8. \E at : At(list, places, N, part[N], at)
  BY <1>6, <1>7 DEF Good
<1> QED BY <1>1, <1>7, <1>8 DEF N

-----------------------------------------------------------------------------
(* The frames of a recording.                                            *)

LEMMA PlacesGrow ==
  ASSUME NEW L \in Nat, NEW at, \A k \in 1..L : at[k] \in Nat \ {0},
         \A j, k \in 1..L : j < k => at[j] < at[k]
  PROVE  \A k \in 1..L : k <= at[k]
<1> DEFINE Good == {k \in 0..L : k # 0 => k <= at[k]}
<1>1. 0 \in Good
  OBVIOUS
<1>2. ASSUME NEW k \in 1..L, k - 1 \in Good
      PROVE  k \in Good
  <2>1. k \in 0..L /\ at[k] \in Nat \ {0}
    OBVIOUS
  <2>2. CASE k = 1
    BY <2>1, <2>2
  <2>3. CASE k # 1
    <3>1. k - 1 \in 1..L /\ k - 1 < k /\ k - 1 # 0
      BY <2>3
    <3>2. k - 1 <= at[k - 1] /\ at[k - 1] < at[k] /\ at[k - 1] \in Nat
      BY <1>2, <3>1
    <3> QED BY <2>1, <3>2
  <2> QED BY <2>2, <2>3
<1> HIDE DEF Good
<1>3. \A k \in 0..L : k \in Good
  BY <1>1, <1>2, UpTo
<1> QED BY <1>3 DEF Good

(* The frames of a recording are shown in their order, and an image is not *)
(* of later than its frame: the untimed frames before it, whose images     *)
(* were written too, make it an earlier one.                               *)
FramesFit(frames, video) ==
  /\ frames \in Seq([pts : Int, image : Nat])
  /\ \A i \in 1..Len(frames) : /\ frames[i].image \in 1..Len(video)
                               /\ video[frames[i].image].pts <= frames[i].pts
  /\ \A i, j \in 1..Len(frames) :
       i < j => frames[i].image < frames[j].image /\ frames[i].pts <= frames[j].pts

LEMMA FramesAreShown ==
  ASSUME NEW video \in Seq(Video), NEW existing,
         \A i, j \in DOMAIN video : i < j => video[i].pts <= video[j].pts
  PROVE  FramesFit(FramesWithImages(video, existing), video)
<1> DEFINE timed == {i \in DOMAIN video : video[i].timed}
           probed == ProbeVideoFrames(video)
           attached == AttachImagePaths(probed)
           places == {i \in DOMAIN attached : attached[i].image \in existing}
           frames == FramesWithImages(video, existing)
           T == [pts : Int, image : Nat]
<1>1. /\ Len(video) \in Nat /\ DOMAIN video = 1..Len(video)
      /\ \A i \in 1..Len(video) : video[i] \in Video /\ video[i].pts \in Int
  <2>1. Len(video) \in Nat /\ DOMAIN video = 1..Len(video)
    BY LenProperties
  <2>2. \A i \in 1..Len(video) : video[i] \in Video
    BY ElementOfSeq
  <2>3. \A frame \in Video : frame.pts \in Int
    BY DEF Video
  <2> QED BY <2>1, <2>2, <2>3
<1>2. probed \in Seq(Video) /\ \E at : At(video, timed, Len(video), probed, at)
  BY KeptIsAt DEF ProbeVideoFrames
<1>3. PICK at : At(video, timed, Len(video), probed, at)
  BY <1>2
<1>4. Len(probed) \in Nat /\ attached = [i \in 1..Len(probed) |-> [pts |-> probed[i].pts, image |-> i]]
  BY <1>2, LenProperties DEF AttachImagePaths
<1>5. \A k \in 1..Len(probed) : probed[k] = video[at[k]] /\ at[k] \in 1..Len(video) /\ k <= at[k]
  <2> HIDE DEF probed, timed
  <2>1. \A k \in 1..Len(probed) : probed[k] = video[at[k]] /\ at[k] \in 1..Len(video)
    BY <1>1, <1>3 DEF At
  <2>2. \A k \in 1..Len(probed) : at[k] \in Nat \ {0}
    BY <1>1, <2>1
  <2>3. \A j, k \in 1..Len(probed) : j < k => at[j] < at[k]
    BY <1>3 DEF At
  <2>4. \A k \in 1..Len(probed) : k <= at[k]
    BY <1>4, <2>2, <2>3, PlacesGrow
  <2> QED BY <2>1, <2>4
<1>6. attached \in Seq(T) /\ Len(attached) = Len(probed)
  <2>1. \A i \in 1..Len(probed) : [pts |-> probed[i].pts, image |-> i] \in T
    BY <1>1, <1>4, <1>5
  <2> HIDE DEF attached, T
  <2>2. attached \in [1..Len(probed) -> T]
    BY <1>4, <2>1
  <2> QED BY <1>4, <2>2
<1>7. frames \in Seq(T) /\ \E from : At(attached, places, Len(attached), frames, from)
  <2>1. frames = Kept(attached, places)
    BY DEF FramesWithImages
  <2> HIDE DEF frames, attached, places, T
  <2> QED BY <1>6, <2>1, KeptIsAt
<1>8. PICK from : At(attached, places, Len(attached), frames, from)
  BY <1>7
<1> HIDE DEF probed, timed, attached, frames, places
<1>9. \A k \in 1..Len(frames) :
        from[k] \in 1..Len(probed) /\ frames[k].image = from[k] /\ frames[k].pts = video[at[from[k]]].pts
  <2> SUFFICES ASSUME NEW k \in 1..Len(frames)
               PROVE  from[k] \in 1..Len(probed) /\ frames[k].image = from[k] /\ frames[k].pts = video[at[from[k]]].pts
    OBVIOUS
  <2>1. from[k] \in 1..Len(probed) /\ frames[k] = attached[from[k]]
    BY <1>6, <1>8 DEF At
  <2> QED BY <1>4, <1>5, <2>1
<1>10. \A j, k \in 1..Len(frames) : j < k => from[j] < from[k]
  BY <1>8 DEF At
<1>11. \A j, k \in 1..Len(probed) : j < k => at[j] < at[k]
  BY <1>3 DEF At
<1>12. ASSUME NEW k \in 1..Len(frames)
       PROVE  frames[k].image \in 1..Len(video) /\ video[frames[k].image].pts <= frames[k].pts
  <2> DEFINE m == from[k]
             v == at[m]
  <2>1. m \in 1..Len(probed) /\ frames[k].image = m /\ frames[k].pts = video[v].pts
    BY <1>9
  <2>2. v \in 1..Len(video) /\ m <= v
    BY <1>5, <2>1
  <2> HIDE DEF m, v
  <2>3. m \in 1..Len(video)
    BY <1>1, <1>4, <2>1, <2>2
  <2>4. video[m].pts <= video[v].pts
    <3>1. CASE m = v
      BY <1>1, <2>2, <3>1
    <3>2. CASE m < v
      BY <1>1, <2>2, <2>3, <3>2
    <3> QED BY <1>1, <1>4, <2>1, <2>2, <3>1, <3>2
  <2> QED BY <2>1, <2>3, <2>4
<1>13. ASSUME NEW i \in 1..Len(frames), NEW j \in 1..Len(frames), i < j
       PROVE  frames[i].image < frames[j].image /\ frames[i].pts <= frames[j].pts
  <2>1. /\ from[i] < from[j] /\ from[i] \in 1..Len(probed) /\ from[j] \in 1..Len(probed)
        /\ frames[i].image = from[i] /\ frames[j].image = from[j]
        /\ frames[i].pts = video[at[from[i]]].pts /\ frames[j].pts = video[at[from[j]]].pts
    BY <1>9, <1>10, <1>13
  <2>2. at[from[i]] < at[from[j]] /\ at[from[i]] \in 1..Len(video) /\ at[from[j]] \in 1..Len(video)
    BY <1>5, <1>11, <2>1
  <2>3. video[at[from[i]]].pts <= video[at[from[j]]].pts
    BY <1>1, <2>2
  <2> QED BY <2>1, <2>3
<1>14. FramesFit(frames, video)
  BY <1>7, <1>12, <1>13 DEF FramesFit
<1> QED BY <1>14 DEF frames

LEMMA FlashIsAFrame ==
  ASSUME NEW video, NEW frames, Len(frames) \in Nat
  PROVE  SyncFlash(video, frames) = 0 \/ SyncFlash(video, frames) \in 1..Len(frames)
<1> DEFINE bounds == {FlashFrameLimit, Len(frames)}
           most == Min(bounds)
           bright == {i \in 1..most : video[frames[i].image].flash}
<1>1. most \in Nat /\ most <= Len(frames)
  <2>1. bounds \in SUBSET Nat /\ bounds # {} /\ Len(frames) \in bounds
    BY SamplingAssumption
  <2> HIDE DEF bounds
  <2> QED BY <2>1, LeastOf
<1>2. SyncFlash(video, frames) = IF bright = {} THEN 0 ELSE Min(bright)
  BY DEF SyncFlash
<1> HIDE DEF most
<1>3. CASE bright # {}
  <2>1. bright \in SUBSET Nat /\ bright \subseteq 1..Len(frames)
    BY <1>1
  <2>2. Min(bright) \in bright
    BY <1>3, <2>1, LeastOf
  <2> QED BY <1>2, <1>3, <2>1, <2>2
<1> QED BY <1>2, <1>3

-----------------------------------------------------------------------------
(* Its labels.                                                           *)

Label == [time : Int, stopped : BOOLEAN, speed : SUBSET Int, yaw : BOOLEAN, yawRate : BOOLEAN, route : BOOLEAN]

Sorted(labels) ==
  labels \in Seq(Label) /\ \A i, j \in 1..Len(labels) : i < j => labels[i].time <= labels[j].time

(* A row that goes behind those that are not later leaves them in order.   *)
LEMMA InsertedIsSorted ==
  ASSUME NEW labels, Sorted(labels), NEW label \in Label
  PROVE  Sorted(Inserted(labels, label))
<1> DEFINE L == Len(labels)
           earlier == {i \in DOMAIN labels : labels[i].time <= label.time}
           later == {i \in 1..L : ~(labels[i].time <= label.time)}
           m == Cardinality(earlier)
           new == Inserted(labels, label)
<1>1. labels \in Seq(Label) /\ L \in Nat /\ DOMAIN labels = 1..L
  BY LenProperties DEF Sorted
<1>2. \A l \in Label : l.time \in Int
  BY DEF Label
<1>3. label.time \in Int /\ \A i \in 1..L : labels[i] \in Label /\ labels[i].time \in Int
  BY <1>1, <1>2, ElementOfSeq
<1>4. \A i, j \in 1..L : i < j => labels[i].time <= labels[j].time
  BY DEF Sorted
<1>5. new = InsertAt(labels, m + 1, label)
  BY DEF Inserted
<1> HIDE DEF new, L
<1>6. m \in Nat /\ m <= L /\ earlier = 1..m
  <2>1. ASSUME NEW n \in Nat, n <= L, earlier = 1..n
        PROVE  m \in Nat /\ m <= L /\ earlier = 1..m
    <3>1. Cardinality(1..n) = n
      BY FS_Interval
    <3> QED BY <2>1, <3>1
  <2>2. CASE later = {}
    <3>1. earlier = 1..L
      BY <1>1, <2>2
    <3> HIDE DEF m, earlier
    <3> QED BY <1>1, <2>1, <3>1
  <2>3. CASE later # {}
    <3> DEFINE least == Min(later)
    <3>1. later \in SUBSET Nat
      BY <1>1
    <3>2. least \in later /\ \A n \in later : least <= n
      BY <2>3, <3>1, LeastOf
    <3> HIDE DEF least
    <3>3. least \in 1..L /\ ~(labels[least].time <= label.time)
      BY <3>2
    <3>4. ASSUME NEW i \in 1..L, i < least PROVE i \in earlier
      <4>1. i \notin later
        BY <1>1, <3>2, <3>3, <3>4
      <4> QED BY <1>1, <4>1
    <3>5. ASSUME NEW i \in 1..L, i \in earlier PROVE i < least
      <4> SUFFICES ASSUME least <= i PROVE FALSE
        BY <1>1, <3>3
      <4>1. labels[least].time <= labels[i].time
        <5>1. CASE i = least
          BY <1>3, <5>1
        <5>2. CASE i # least
          BY <1>1, <1>4, <3>3, <5>2
        <5> QED BY <5>1, <5>2
      <4> QED BY <1>3, <3>3, <3>5, <4>1
    <3>6. earlier \subseteq 1..L
      BY <1>1
    <3> HIDE DEF earlier, later, m
    <3>7. least - 1 \in Nat /\ least - 1 <= L
      BY <1>1, <3>3
    <3>8. earlier = 1..least - 1
      <4>1. ASSUME NEW i \in 1..least - 1 PROVE i \in earlier
        BY <1>1, <3>3, <3>4, <4>1
      <4>2. ASSUME NEW i \in earlier PROVE i \in 1..least - 1
        BY <1>1, <3>3, <3>5, <3>6, <4>2
      <4> QED BY <4>1, <4>2
    <3> QED BY <2>1, <3>7, <3>8
  <2> QED BY <2>2, <2>3
<1>7. (\A i \in 1..m : labels[i].time <= label.time) /\ \A i \in m + 1..L : labels[i].time > label.time
  <2>1. \A i \in 1..L : i \in 1..m <=> labels[i].time <= label.time
    BY <1>1, <1>6
  <2> HIDE DEF m
  <2>2. \A i \in 1..m : i \in 1..L
    BY <1>1, <1>6
  <2>3. \A i \in m + 1..L : i \in 1..L /\ i \notin 1..m
    BY <1>1, <1>6
  <2> QED BY <1>3, <2>1, <2>2, <2>3
<1> HIDE DEF m
<1>8. /\ new \in Seq(Label) /\ Len(new) = L + 1
      /\ \A k \in 1..L + 1 : new[k] = IF k <= m THEN labels[k] ELSE IF k = m + 1 THEN label ELSE labels[k - 1]
  <2> DEFINE front == SubSeq(labels, 1, m)
             back == SubSeq(labels, m + 1, L)
  <2>1. front \in Seq(Label) /\ Len(front) = m /\ \A k \in 1..m : front[k] = labels[k]
    <3>1. \A i \in 1..m : labels[i] \in Label
      BY <1>1, <1>3, <1>6
    <3>2. /\ front \in Seq(Label) /\ Len(front) = (IF 1 <= m THEN m - 1 + 1 ELSE 0)
          /\ \A k \in 1..m - 1 + 1 : front[k] = labels[1 + k - 1]
      BY <1>6, <3>1, SubSeqProperties
    <3> QED BY <1>6, <3>2
  <2>2. back \in Seq(Label) /\ Len(back) = L - m /\ \A k \in 1..L - m : back[k] = labels[m + k]
    <3>1. \A i \in m + 1..L : labels[i] \in Label
      BY <1>1, <1>3, <1>6
    <3>2. /\ back \in Seq(Label) /\ Len(back) = (IF m + 1 <= L THEN L - (m + 1) + 1 ELSE 0)
          /\ \A k \in 1..L - (m + 1) + 1 : back[k] = labels[(m + 1) + k - 1]
      BY <1>1, <1>6, <3>1, SubSeqProperties
    <3>3. L - (m + 1) + 1 = L - m /\ \A k \in 1..L - m : (m + 1) + k - 1 = m + k
      BY <1>1, <1>6
    <3> QED BY <1>1, <1>6, <3>2, <3>3
  <2>3. new = front \o <<label>> \o back
    <3>1. new = SubSeq(labels, 1, (m + 1) - 1) \o <<label>> \o SubSeq(labels, m + 1, L)
      BY <1>5, Zenon DEF InsertAt, L
    <3>2. (m + 1) - 1 = m
      BY <1>6
    <3> QED BY <3>1, <3>2
  <2> HIDE DEF front, back
  <2>4. /\ front \o <<label>> \in Seq(Label) /\ Len(front \o <<label>>) = m + 1
        /\ \A k \in 1..m + 1 : (front \o <<label>>)[k] = IF k <= m THEN front[k] ELSE label
    <3>1. <<label>> \in Seq(Label) /\ Len(<<label>>) = 1 /\ <<label>>[1] = label
      OBVIOUS
    <3> DEFINE single == <<label>>
    <3>2. single \in Seq(Label) /\ Len(single) = 1 /\ single[1] = label
      BY <3>1
    <3> HIDE DEF single
    <3>3. /\ front \o single \in Seq(Label) /\ Len(front \o single) = Len(front) + Len(single)
          /\ \A k \in 1..Len(front) + Len(single) :
               (front \o single)[k] = IF k <= Len(front) THEN front[k] ELSE single[k - Len(front)]
      BY <2>1, <3>2, ConcatProperties
    <3>4. \A k \in 1..m + 1 : ~(k <= m) => k - m = 1
      BY <1>6
    <3>5. \A k \in 1..m + 1 : (front \o single)[k] = IF k <= m THEN front[k] ELSE label
      BY <1>6, <2>1, <3>2, <3>3, <3>4
    <3> QED BY <2>1, <3>2, <3>3, <3>5 DEF single
  <2> DEFINE start == front \o <<label>>
  <2>5. /\ start \o back \in Seq(Label) /\ Len(start \o back) = Len(start) + Len(back)
        /\ \A k \in 1..Len(start) + Len(back) :
             (start \o back)[k] = IF k <= Len(start) THEN start[k] ELSE back[k - Len(start)]
    BY <2>2, <2>4, ConcatProperties
  <2>6. /\ start \in Seq(Label) /\ Len(start) = m + 1
        /\ \A k \in 1..m + 1 : start[k] = IF k <= m THEN front[k] ELSE label
    BY <2>4
  <2>7. new = start \o back
    BY <2>3
  <2> HIDE DEF start
  <2>8. Len(start) + Len(back) = L + 1
    BY <1>1, <1>6, <2>2, <2>6
  <2>9. ASSUME NEW k \in 1..L + 1
        PROVE  new[k] = IF k <= m THEN labels[k] ELSE IF k = m + 1 THEN label ELSE labels[k - 1]
    <3>1. CASE k <= m
      <4>1. k \in 1..m /\ k \in 1..m + 1
        BY <1>6, <3>1
      <4> QED BY <1>6, <2>1, <2>5, <2>6, <2>7, <2>8, <3>1, <4>1
    <3>2. CASE k = m + 1
      <4>1. ~(m + 1 <= m) /\ m + 1 \in 1..m + 1
        BY <1>6
      <4> QED BY <1>6, <2>5, <2>6, <2>7, <2>8, <3>2, <4>1
    <3>3. CASE ~(k <= m + 1)
      <4>1. k - (m + 1) \in 1..L - m /\ m + (k - (m + 1)) = k - 1 /\ ~(k <= m) /\ k # m + 1
        BY <1>1, <1>6, <3>3
      <4> QED BY <2>2, <2>5, <2>6, <2>7, <2>8, <3>3, <4>1
    <3> QED BY <1>6, <3>1, <3>2, <3>3
  <2> QED BY <2>5, <2>7, <2>8, <2>9
<1>9. ASSUME NEW i \in 1..L + 1, NEW j \in 1..L + 1, i < j
      PROVE  new[i].time <= new[j].time
  <2>1. CASE j <= m
    <3>1. i \in 1..L /\ j \in 1..L /\ i <= m
      BY <1>1, <1>6, <1>9, <2>1
    <3> QED BY <1>4, <1>8, <1>9, <2>1, <3>1
  <2>2. CASE j = m + 1
    <3>1. i \in 1..m /\ i <= m /\ ~(j <= m)
      BY <1>6, <1>9, <2>2
    <3> QED BY <1>7, <1>8, <2>2, <3>1
  <2>3. CASE j > m + 1
    <3>1. ~(j <= m) /\ j # m + 1 /\ j - 1 \in m + 1..L /\ j - 1 \in 1..L
      BY <1>1, <1>6, <2>3
    <3>2. new[j] = labels[j - 1]
      BY <1>8, <3>1
    <3>3. CASE i <= m
      <4>1. i \in 1..L /\ i < j - 1
        BY <1>1, <1>6, <2>3, <3>3
      <4> QED BY <1>4, <1>8, <3>1, <3>2, <3>3, <4>1
    <3>4. CASE i = m + 1
      <4>1. ~(i <= m)
        BY <1>6, <3>4
      <4> QED BY <1>3, <1>7, <1>8, <3>1, <3>2, <3>4, <4>1
    <3>5. CASE i > m + 1
      <4>1. ~(i <= m) /\ i # m + 1 /\ i - 1 \in 1..L /\ i - 1 < j - 1
        BY <1>1, <1>6, <1>9, <3>5
      <4> QED BY <1>4, <1>8, <3>1, <3>2, <4>1
    <3> QED BY <1>6, <3>3, <3>4, <3>5
  <2> QED BY <1>6, <2>1, <2>2, <2>3
<1> QED BY <1>8, <1>9 DEF Sorted, new

(* What buildTimedLabels makes of the rows is in the order of their times. *)
LabelOf(row, syncTime) == [row EXCEPT !.time = Max(row.time) - syncTime]

AreLabels(rows, syncTime, labels) ==
  labels = [n \in 0..Len(rows) |->
              IF n = 0 THEN <<>>
              ELSE IF rows[n].time = {} THEN labels[n - 1]
              ELSE Inserted(labels[n - 1], LabelOf(rows[n], syncTime))]

LEMMA LabelsOfRows ==
  ASSUME NEW row \in Telemetry, NEW syncTime \in Int, row.time # {}, \A a, b \in row.time : a = b
  PROVE  LabelOf(row, syncTime) \in Label
<1>1. PICK a \in row.time : TRUE
  OBVIOUS
<1>2. a \in Int /\ row.time = {a}
  BY <1>1 DEF Telemetry
<1>3. Max({a}) = a
  BY <1>2 DEF Max
<1>4. Max(row.time) - syncTime \in Int
  BY <1>2, <1>3
<1> DEFINE since == Max(row.time) - syncTime
<1> HIDE DEF since
<1>5. [row EXCEPT !.time = since] \in Label
  BY <1>4 DEF Telemetry, Label, since
<1> QED BY <1>5 DEF LabelOf, since

LEMMA TimedLabelsAreSorted ==
  ASSUME NEW rows \in Seq(Telemetry), NEW syncTime \in Int,
         \A i \in DOMAIN rows : \A a, b \in rows[i].time : a = b
  PROVE  Sorted(TimedLabels(rows, syncTime))
<1> DEFINE N == Len(rows)
           S == {labels \in Seq(Label) : Sorted(labels)}
           base == <<>>
           step == [x \in S \X (1..N) |->
                      IF rows[x[2]].time = {} THEN x[1] ELSE Inserted(x[1], LabelOf(rows[x[2]], syncTime))]
           IsTimed(labels) == AreLabels(rows, syncTime, labels)
<1>1. N \in Nat /\ DOMAIN rows = 1..N /\ \A n \in 1..N : rows[n] \in Telemetry
  BY LenProperties, ElementOfSeq
<1>2. base \in S
  <2>1. <<>> \in Seq(Label) /\ Len(<<>>) = 0 /\ 1..0 = {}
    OBVIOUS
  <2> QED BY <2>1 DEF Sorted
<1>3. ASSUME NEW x \in S, NEW n \in 1..N
      PROVE  (IF rows[n].time = {} THEN x ELSE Inserted(x, LabelOf(rows[n], syncTime))) \in S
  <2>1. CASE rows[n].time = {}
    BY <2>1
  <2>2. CASE rows[n].time # {}
    <3>1. LabelOf(rows[n], syncTime) \in Label
      BY <1>1, <2>2, LabelsOfRows
    <3>2. Sorted(Inserted(x, LabelOf(rows[n], syncTime)))
      BY <3>1, InsertedIsSorted
    <3> QED BY <2>2, <3>2 DEF Sorted
  <2> QED BY <2>1, <2>2
<1>4. \A x \in S, n \in 1..N :
        step[<<x, n>>] = IF rows[n].time = {} THEN x ELSE Inserted(x, LabelOf(rows[n], syncTime))
  OBVIOUS
<1> HIDE DEF step, S, base, N
<1>5. StaysIn(N, S, step)
  BY <1>3, <1>4 DEF StaysIn
<1>6. PICK f \in [0..N -> S] : Steps(N, base, step, f)
  BY <1>1, <1>2, <1>5, Recursion
<1>7. IsTimed(f)
  <2>1. ASSUME NEW n \in 0..N
        PROVE  f[n] = IF n = 0 THEN <<>>
                      ELSE IF rows[n].time = {} THEN f[n - 1]
                      ELSE Inserted(f[n - 1], LabelOf(rows[n], syncTime))
    <3>1. CASE n = 0
      BY <1>6, <3>1 DEF Steps, base
    <3>2. CASE n # 0
      <4>1. n \in 1..N /\ n - 1 \in 0..N
        BY <1>1, <2>1, <3>2
      <4>2. f[n - 1] \in S /\ f[n] = step[<<f[n - 1], n>>]
        BY <1>6, <4>1 DEF Steps
      <4> QED BY <1>4, <3>2, <4>1, <4>2
    <3> QED BY <3>1, <3>2
  <2> QED BY <2>1 DEF AreLabels, N
<1> DEFINE labels == CHOOSE labels : IsTimed(labels)
<1>8. IsTimed(labels) /\ TimedLabels(rows, syncTime) = labels[N]
  BY <1>7 DEF TimedLabels, AreLabels, LabelOf, N
<1> HIDE DEF labels
<1>9. \A n \in 0..N : labels[n] = IF n = 0 THEN <<>>
                                  ELSE IF rows[n].time = {} THEN labels[n - 1]
                                  ELSE Inserted(labels[n - 1], LabelOf(rows[n], syncTime))
  BY <1>8 DEF AreLabels, N
<1> DEFINE Good == {n \in 0..N : labels[n] \in S}
<1>10. 0 \in Good
  BY <1>1, <1>2, <1>9 DEF base
<1>11. ASSUME NEW n \in 1..N, n - 1 \in Good
       PROVE  n \in Good
  <2>1. n \in 0..N /\ n # 0 /\ labels[n - 1] \in S
    BY <1>1, <1>11
  <2> QED BY <1>3, <1>9, <2>1
<1> HIDE DEF Good
<1>12. \A n \in 0..N : n \in Good
  BY <1>1, <1>10, <1>11, UpTo
<1>13. labels[N] \in S
  BY <1>1, <1>12 DEF Good
<1> QED BY <1>8, <1>13 DEF S

LEMMA SortedIsInTime ==
  ASSUME NEW labels, Sorted(labels)
  PROVE  InTime(labels)
<1>1. Len(labels) \in Nat /\ \A i \in 1..Len(labels) : labels[i] \in Label
  BY LenProperties, ElementOfSeq DEF Sorted
<1>2. \A label \in Label : label.time \in Int
  BY DEF Label
<1> QED BY <1>1, <1>2 DEF Sorted, InTime

-----------------------------------------------------------------------------
(* All its samples, and where they were taken.                           *)

(* A frame gives one sample at most.                                       *)
AtMostOne(S) == S = {} \/ \E s : S = {s}

LEMMA OneSample ==
  ASSUME NEW frames, NEW labels, NEW flash, NEW anchor
  PROVE  AtMostOne(SampleAt(frames, labels, flash, anchor))
<1> DEFINE Near(i) == Nearest(labels, frames[i].pts - frames[flash].pts, LabelTolerance, 1, Len(labels))
           now == Near(anchor)
           then == Near(anchor + SampleStride)
           targets == TrainingLabel(labels, now, then)
           Sample(target) == [pts |-> frames[anchor].pts, label |-> now, frames |-> FrameWindow(frames, anchor),
                              history |-> TelemetryHistory(labels, now), future |-> TelemetryFuture(labels, now),
                              target |-> target]
<1>1. SampleAt(frames, labels, flash, anchor) = {} \/ SampleAt(frames, labels, flash, anchor) = {Sample(target) : target \in targets}
  BY DEF SampleAt
<1>2. targets = {} \/ \E target : targets = {target}
  BY DEF TrainingLabel
<1> HIDE DEF targets, Sample
<1>3. CASE targets = {}
  BY <1>1, <1>3 DEF AtMostOne
<1>4. CASE \E target : targets = {target}
  <2>1. PICK target : targets = {target}
    BY <1>4
  <2>2. {Sample(goal) : goal \in targets} = {Sample(target)}
    BY <2>1
  <2> QED BY <1>1, <2>2 DEF AtMostOne
<1> QED BY <1>2, <1>3, <1>4

LEMMA FunctionIsList ==
  ASSUME NEW n \in Nat, NEW S, NEW list \in [1..n -> S]
  PROVE  list \in Seq(S) /\ Len(list) = n
OBVIOUS

LEMMA ListOfOne ==
  ASSUME NEW S, AtMostOne(S)
  PROVE  /\ SetToSeq(S) \in Seq(S) /\ Len(SetToSeq(S)) <= 1
         /\ S = {} => Len(SetToSeq(S)) = 0
<1>1. CASE S = {}
  <2>1. Cardinality({}) = 0 /\ 1..0 = {}
    BY FS_EmptySet
  <2>2. \E f : f \in [1..Cardinality({}) -> {}] /\ IsInjective(f)
    <3>1. [i \in {} |-> 0] \in [{} -> {}] /\ IsInjective([i \in {} |-> 0])
      BY DEF IsInjective
    <3> QED BY <2>1, <3>1
  <2>3. SetToSeq({}) \in [1..0 -> {}]
    BY <2>1, <2>2 DEF SetToSeq
  <2>4. SetToSeq({}) \in Seq({}) /\ Len(SetToSeq({})) = 0
    BY <2>3
  <2> QED BY <1>1, <2>4
<1>2. CASE \E s : S = {s}
  <2>1. PICK s : S = {s}
    BY <1>2
  <2>2. Cardinality({s}) = 1
    BY FS_Singleton
  <2>3. \E f : f \in [1..Cardinality({s}) -> {s}] /\ IsInjective(f)
    <3>1. [i \in 1..1 |-> s] \in [1..1 -> {s}] /\ IsInjective([i \in 1..1 |-> s])
      BY DEF IsInjective
    <3> QED BY <2>2, <3>1
  <2>4. SetToSeq({s}) \in [1..1 -> {s}]
    BY <2>2, <2>3 DEF SetToSeq
  <2>5. SetToSeq({s}) \in Seq({s}) /\ Len(SetToSeq({s})) = 1
    <3> DEFINE seq == SetToSeq({s})
               one == {s}
    <3>1. seq \in [1..1 -> one]
      BY <2>4
    <3> HIDE DEF seq, one
    <3>2. seq \in Seq(one) /\ Len(seq) = 1
      BY <3>1, FunctionIsList
    <3> QED BY <3>2 DEF seq, one
  <2>6. SetToSeq(S) \in Seq(S) /\ Len(SetToSeq(S)) = 1 /\ S # {}
    BY <2>1, <2>5, Zenon
  <2> QED BY <2>6
<1> QED BY <1>1, <1>2 DEF AtMostOne

(* What the samples are made of: of each frame, in the frames' order, its  *)
(* sample if it has one.                                                   *)
Taken(frames, labels, flash, samples, n, at) ==
  /\ at \in [1..Len(samples) -> 1..n]
  /\ \A k \in 1..Len(samples) : samples[k] \in SampleAt(frames, labels, flash, at[k])
  /\ \A j, k \in 1..Len(samples) : j < k => at[j] < at[k]

AreTaken(frames, labels, flash, samples) ==
  samples = [n \in 0..Len(frames) |->
               IF n = 0 THEN <<>>
               ELSE samples[n - 1] \o SetToSeq(IF n \in Anchors(frames) THEN SampleAt(frames, labels, flash, n) ELSE {})]

LEMMA SamplesAreTaken ==
  ASSUME NEW frames, NEW labels, NEW flash, Len(frames) \in Nat
  PROVE  /\ \E T : DatasetSamples(frames, labels, flash) \in Seq(T)
         /\ \E at : Taken(frames, labels, flash, DatasetSamples(frames, labels, flash), Len(frames), at)
<1> DEFINE N == Len(frames)
           Of(n) == IF n \in Anchors(frames) THEN SampleAt(frames, labels, flash, n) ELSE {}
           T == UNION {Of(n) : n \in 1..N}
           S == Seq(T)
           one == [n \in 1..N |-> SetToSeq(Of(n))]
           base == <<>>
           step == [x \in S \X (1..N) |-> x[1] \o one[x[2]]]
<1>1. N \in Nat /\ base \in S
  OBVIOUS
<1>2. \A n \in 1..N : one[n] = SetToSeq(Of(n)) /\ Of(n) \subseteq T
  OBVIOUS
<1>3. \A n \in 1..N : AtMostOne(Of(n))
  <2> SUFFICES ASSUME NEW n \in 1..N PROVE AtMostOne(Of(n))
    OBVIOUS
  <2>1. Of(n) = {} \/ Of(n) = SampleAt(frames, labels, flash, n)
    BY Zenon
  <2>2. AtMostOne(SampleAt(frames, labels, flash, n)) /\ AtMostOne({})
    BY OneSample DEF AtMostOne
  <2> HIDE DEF Of
  <2> QED BY <2>1, <2>2, Zenon
<1>4. \A n \in 1..N : Of(n) \subseteq SampleAt(frames, labels, flash, n)
  BY Zenon
<1> HIDE DEF Of, T, N
<1>5. ASSUME NEW n \in 1..N
      PROVE  one[n] \in Seq(Of(n)) /\ one[n] \in S /\ Len(one[n]) \in {0, 1}
  <2>1. SetToSeq(Of(n)) \in Seq(Of(n)) /\ Len(SetToSeq(Of(n))) <= 1
    BY <1>3, ListOfOne
  <2>2. one[n] \in Seq(Of(n)) /\ Len(one[n]) <= 1
    BY <1>2, <2>1
  <2> HIDE DEF one
  <2>3. Len(one[n]) \in Nat /\ \A i \in 1..Len(one[n]) : one[n][i] \in T
    BY <1>2, <2>2, LenProperties, ElementOfSeq
  <2>4. one[n] \in [1..Len(one[n]) -> T]
    BY <2>2, <2>3, LenProperties
  <2>5. one[n] \in Seq(T)
    BY <2>3, <2>4
  <2>6. Len(one[n]) \in {0, 1}
    <3>1. \A l \in Nat : l <= 1 => l \in {0, 1}
      OBVIOUS
    <3> QED BY <2>2, <2>3, <3>1, Zenon
  <2> QED BY <2>2, <2>5, <2>6
<1> HIDE DEF one
<1>6. \A x \in S, n \in 1..N : step[<<x, n>>] = x \o one[n]
  OBVIOUS
<1> HIDE DEF step
<1>7. StaysIn(N, S, step)
  <2> SUFFICES ASSUME NEW x \in S, NEW n \in 1..N PROVE x \o one[n] \in S
    BY <1>6 DEF StaysIn
  <2> QED BY <1>5, ConcatProperties
<1> HIDE DEF S, base
<1>8. PICK f \in [0..N -> S] : Steps(N, base, step, f)
  BY <1>1, <1>7, Recursion
<1> DEFINE Is(samples) == AreTaken(frames, labels, flash, samples)
<1>9. Is(f)
  <2>1. ASSUME NEW n \in 0..N
        PROVE  f[n] = IF n = 0 THEN <<>> ELSE f[n - 1] \o SetToSeq(Of(n))
    <3>1. CASE n = 0
      BY <1>8, <3>1 DEF Steps, base
    <3>2. CASE n # 0
      <4>1. n \in 1..N /\ n - 1 \in 0..N
        BY <1>1, <2>1, <3>2
      <4>2. f[n - 1] \in S /\ f[n] = step[<<f[n - 1], n>>]
        BY <1>8, <4>1 DEF Steps
      <4> QED BY <1>2, <1>6, <3>2, <4>1, <4>2
    <3> QED BY <3>1, <3>2
  <2> QED BY <2>1 DEF AreTaken, N, Of
<1> DEFINE joined == CHOOSE samples : Is(samples)
<1>10. Is(joined) /\ DatasetSamples(frames, labels, flash) = joined[N]
  BY <1>9 DEF DatasetSamples, AreTaken, N
<1> HIDE DEF joined
<1>11. \A n \in 0..N : joined[n] = IF n = 0 THEN <<>> ELSE joined[n - 1] \o SetToSeq(Of(n))
  BY <1>10 DEF AreTaken, N, Of
<1> DEFINE Good == {n \in 0..N : joined[n] \in S /\ \E at : Taken(frames, labels, flash, joined[n], n, at)}
<1>12. 0 \in Good
  <2> DEFINE at == [k \in {} |-> 0]
  <2>1. 0 \in 0..N /\ joined[0] = <<>> /\ Len(<<>>) = 0 /\ 1..0 = {}
    BY <1>1, <1>11
  <2>2. at \in [{} -> 1..0]
    OBVIOUS
  <2>3. Taken(frames, labels, flash, joined[0], 0, at)
    BY <2>1, <2>2 DEF Taken
  <2> QED BY <1>1, <2>1, <2>3 DEF base
<1>13. ASSUME NEW n \in 1..N, n - 1 \in Good
       PROVE  n \in Good
  <2> DEFINE old == joined[n - 1]
             new == joined[n]
             more == one[n]
             L == Len(old)
             M == Len(more)
  <2>1. n \in Nat /\ n \in 0..N /\ n - 1 \in 0..N /\ n # 0
    BY <1>1
  <2>2. old \in S /\ \E at : Taken(frames, labels, flash, old, n - 1, at)
    BY <1>13
  <2>3. PICK at : Taken(frames, labels, flash, old, n - 1, at)
    BY <2>2
  <2>4. new = old \o more
    BY <1>2, <1>11, <2>1
  <2>5. more \in Seq(Of(n)) /\ more \in S /\ M \in {0, 1}
    BY <1>5
  <2>6. L \in Nat
    BY <2>2, LenProperties DEF S
  <2>7. /\ new \in S /\ Len(new) = L + M
        /\ \A k \in 1..L + M : new[k] = IF k <= L THEN old[k] ELSE more[k - L]
    <3> HIDE DEF old, new, more
    <3> QED BY <2>2, <2>4, <2>5, ConcatProperties DEF S
  <2>8. \A k \in 1..M : more[k] \in SampleAt(frames, labels, flash, n)
    <3>1. \A k \in 1..M : more[k] \in Of(n)
      <4> HIDE DEF more
      <4> QED BY <2>5, ElementOfSeq
    <3> QED BY <1>4, <3>1
  <2>9. \A k \in 1..L : at[k] \in 1..n - 1 /\ old[k] \in SampleAt(frames, labels, flash, at[k])
    BY <2>3 DEF Taken
  <2>10. \A j, k \in 1..L : j < k => at[j] < at[k]
    BY <2>3 DEF Taken
  <2> HIDE DEF old, new, more, L, M
  <2> DEFINE longer == [k \in 1..L + M |-> IF k <= L THEN at[k] ELSE n]
  <2>11. ASSUME NEW k \in 1..L + M
         PROVE  longer[k] \in 1..n /\ new[k] \in SampleAt(frames, labels, flash, longer[k])
    <3>1. CASE k <= L
      <4>1. k \in 1..L /\ longer[k] = at[k] /\ new[k] = old[k]
        BY <2>6, <2>7, <3>1
      <4>2. at[k] \in 1..n - 1 /\ old[k] \in SampleAt(frames, labels, flash, at[k])
        BY <2>9, <4>1
      <4> QED BY <2>1, <4>1, <4>2
    <3>2. CASE ~(k <= L)
      <4>1. k - L \in 1..M /\ longer[k] = n /\ new[k] = more[k - L]
        BY <2>5, <2>6, <2>7, <3>2
      <4> QED BY <2>1, <2>8, <4>1
    <3> QED BY <3>1, <3>2
  <2>12. ASSUME NEW j \in 1..L + M, NEW k \in 1..L + M, j < k
         PROVE  longer[j] < longer[k]
    <3>1. j \in 1..L /\ longer[j] = at[j]
      BY <2>5, <2>6, <2>12
    <3>2. CASE k <= L
      <4>1. k \in 1..L /\ longer[k] = at[k]
        BY <2>6, <3>2
      <4> QED BY <2>10, <2>12, <3>1, <4>1
    <3>3. CASE ~(k <= L)
      <4>1. longer[k] = n
        BY <3>3
      <4>2. at[j] \in 1..n - 1
        BY <2>9, <3>1
      <4> QED BY <2>1, <3>1, <4>1, <4>2
    <3> QED BY <3>2, <3>3
  <2>13. Taken(frames, labels, flash, new, n, longer)
    <3>1. longer \in [1..Len(new) -> 1..n]
      BY <2>7, <2>11
    <3> HIDE DEF longer
    <3> QED BY <2>7, <2>11, <2>12, <3>1 DEF Taken
  <2> HIDE DEF longer
  <2> QED BY <2>1, <2>7, <2>13 DEF new
<1> HIDE DEF Good
<1>14. \A n \in 0..N : n \in Good
  BY <1>1, <1>12, <1>13, UpTo
<1>15. N \in Good
  BY <1>1, <1>14
<1>16. joined[N] \in Seq(T) /\ \E at : Taken(frames, labels, flash, joined[N], N, at)
  BY <1>15 DEF Good, S
<1> HIDE DEF Good
<1> QED BY <1>10, <1>16 DEF N

(* What is recorded: frames and labels in the order of their times, and a  *)
(* flash, if there is one, that is a frame.                                *)
LEMMA RecordedInOrder ==
  ASSUME NEW r \in Recordings, NEW extent
  PROVE  /\ FramesFit(FramesOf(r, extent), Recorded[r].video)
         /\ Len(FramesOf(r, extent)) \in Nat
         /\ \A i \in 1..Len(FramesOf(r, extent)) : FramesOf(r, extent)[i].pts \in Int
         /\ FlashOf(r, extent) = 0 \/ FlashOf(r, extent) \in 1..Len(FramesOf(r, extent))
         /\ InTime(LabelsOf(r))
<1> DEFINE video == Recorded[r].video
           frames == FramesOf(r, extent)
<1>1. FramesFit(frames, video)
  <2>1. video \in Seq(Video) /\ \A i, j \in DOMAIN video : i < j => video[i].pts <= video[j].pts
    BY RecordedAssumption
  <2>2. frames = FramesWithImages(video, ImagesOf(r, extent))
    BY DEF FramesOf
  <2> HIDE DEF video, frames
  <2> QED BY <2>1, <2>2, FramesAreShown
<1>2. Len(frames) \in Nat /\ \A i \in 1..Len(frames) : frames[i].pts \in Int
  <2>1. frames \in Seq([pts : Int, image : Nat])
    BY <1>1 DEF FramesFit
  <2> HIDE DEF frames
  <2>2. Len(frames) \in Nat /\ \A i \in 1..Len(frames) : frames[i] \in [pts : Int, image : Nat]
    BY <2>1, LenProperties, ElementOfSeq
  <2> QED BY <2>2
<1>3. FlashOf(r, extent) = 0 \/ FlashOf(r, extent) \in 1..Len(frames)
  <2> HIDE DEF video, frames
  <2> QED BY <1>2, FlashIsAFrame DEF FlashOf, video, frames
<1>4. InTime(LabelsOf(r))
  <2> DEFINE rows == Recorded[r].rows
             syncTime == Recorded[r].syncTime
  <2>1. /\ rows \in Seq(Telemetry) /\ syncTime \in Int
        /\ \A i \in DOMAIN rows : \A a, b \in rows[i].time : a = b
    BY RecordedAssumption
  <2>2. LabelsOf(r) = TimedLabels(rows, syncTime)
    BY DEF LabelsOf
  <2> HIDE DEF rows, syncTime
  <2> QED BY <2>1, <2>2, TimedLabelsAreSorted, SortedIsInTime
<1> QED BY <1>1, <1>2, <1>3, <1>4

(* All the samples of a recording, and where they were taken.              *)
AllTaken(r, extent, at) ==
  \/ AllSamples[r][extent] = <<>>
  \/ /\ FlashOf(r, extent) \in 1..Len(FramesOf(r, extent))
     /\ Taken(FramesOf(r, extent), LabelsOf(r), FlashOf(r, extent), AllSamples[r][extent],
              Len(FramesOf(r, extent)), at)

LEMMA AllSamplesAreTaken ==
  ASSUME NEW r \in Recordings, NEW extent \in Extents
  PROVE  (\E T : AllSamples[r][extent] \in Seq(T)) /\ \E at : AllTaken(r, extent, at)
<1> DEFINE frames == FramesOf(r, extent)
           labels == LabelsOf(r)
           flash == FlashOf(r, extent)
           all == AllSamples[r][extent]
<1>1. all = IF flash = 0 THEN <<>> ELSE DatasetSamples(frames, labels, flash)
  BY DEF AllSamples
<1>2. Len(frames) \in Nat /\ (flash = 0 \/ flash \in 1..Len(frames))
  BY RecordedInOrder
<1> HIDE DEF frames, labels, flash, all
<1>3. CASE flash = 0
  <2>1. all = <<>> /\ all \in Seq({})
    BY <1>1, <1>3
  <2> QED BY <2>1 DEF AllTaken, all
<1>4. CASE flash # 0
  <2>1. all = DatasetSamples(frames, labels, flash) /\ flash \in 1..Len(frames)
    BY <1>1, <1>2, <1>4
  <2>2. (\E T : all \in Seq(T)) /\ \E at : Taken(frames, labels, flash, all, Len(frames), at)
    BY <1>2, <2>1, SamplesAreTaken
  <2> QED BY <2>1, <2>2 DEF AllTaken, all, frames, labels, flash
<1> QED BY <1>3, <1>4

(* What thinning leaves is of all the samples.                             *)
LEMMA SamplesAreOfAll ==
  ASSUME NEW r \in Recordings, NEW extent \in Extents, NEW sample \in Range(Samples[r][extent])
  PROVE  \E k \in 1..Len(AllSamples[r][extent]) : sample = AllSamples[r][extent][k]
<1> DEFINE all == AllSamples[r][extent]
           left == Samples[r][extent]
<1>1. PICK T : all \in Seq(T)
  BY AllSamplesAreTaken
<1>2. left = all \/ \E places : left = Kept(all, places)
  <2>1. left = ThinStopped(all, LabelsOf(r))
    BY DEF Samples
  <2> HIDE DEF left, all
  <2> QED BY <2>1 DEF ThinStopped
<1>3. sample \in Range(left)
  OBVIOUS
<1> HIDE DEF all, left
<1>4. CASE left = all
  <2>1. DOMAIN all = 1..Len(all)
    BY <1>1, LenProperties
  <2> QED BY <1>3, <1>4, <2>1 DEF Range, all
<1>5. CASE \E places : left = Kept(all, places)
  <2>1. PICK places : left = Kept(all, places)
    BY <1>5
  <2>2. left \in Seq(T) /\ \E at : At(all, places, Len(all), left, at)
    BY <1>1, <2>1, KeptIsAt
  <2>3. PICK at : At(all, places, Len(all), left, at)
    BY <2>2
  <2>4. DOMAIN left = 1..Len(left)
    BY <2>2, LenProperties
  <2>5. PICK k \in 1..Len(left) : sample = left[k]
    BY <1>3, <2>4 DEF Range
  <2>6. at[k] \in 1..Len(all) /\ left[k] = all[at[k]]
    BY <2>3 DEF At
  <2> QED BY <2>5, <2>6 DEF all
<1> QED BY <1>2, <1>4, <1>5

-----------------------------------------------------------------------------
(* Their inputs are of the past.                                         *)

(* A sample with the property of its frame is as InputsArePast says.       *)
LEMMA FittingIsSound ==
  ASSUME NEW video, \A i \in 1..Len(video) : video[i].pts \in Int,
         NEW frames, FramesFit(frames, video), NEW labels, InTime(labels),
         Len(frames) \in Nat, \A i \in 1..Len(frames) : frames[i].pts \in Int, NEW flash \in 1..Len(frames),
         NEW anchor \in 1..Len(frames), NEW sample, SampleFits(frames, labels, flash, anchor, sample)
  PROVE  /\ \A k \in DOMAIN sample.frames : video[sample.frames[k]].pts <= sample.pts
         /\ Offset(labels[sample.label].time, sample.pts - frames[flash].pts) <= LabelTolerance
         /\ \A k \in 1..Len(sample.history) - 1 : sample.history[k] < sample.history[k + 1]
         /\ Last(sample.history) = sample.label
         /\ \A k \in 1..Len(<<sample.label>> \o sample.future) - 1 :
              (<<sample.label>> \o sample.future)[k] < (<<sample.label>> \o sample.future)[k + 1]
         /\ sample.target.horizon > 0
<1> DEFINE now == sample.label
           history == sample.history
           future == sample.future
           window == sample.frames
           length == 1 - TelemetryOffsets[1]
           horizon == Last(FutureOffsets)
<1>1. /\ sample.pts = frames[anchor].pts /\ now \in 1..Len(labels)
      /\ IsNearest(labels, sample.pts - frames[flash].pts, LabelTolerance, 1, Len(labels), now)
      /\ window \in [1..WindowSize -> {frames[i].image : i \in 1..anchor}]
      /\ HistoryFits(labels, now, history) /\ FutureFits(labels, now, future)
      /\ sample.target.horizon > 0
  BY DEF SampleFits
<1>2. /\ length \in Nat \ {0} /\ horizon \in Nat \ {0}
  BY OffsetsEnd
<1>3. ASSUME NEW k \in DOMAIN window
      PROVE  video[window[k]].pts <= sample.pts
  <2>1. k \in 1..WindowSize
    BY <1>1
  <2>2. PICK i \in 1..anchor : window[k] = frames[i].image
    BY <1>1, <2>1
  <2>3. i \in 1..Len(frames) /\ (i < anchor \/ i = anchor)
    OBVIOUS
  <2>4. frames[i].image \in 1..Len(video) /\ video[frames[i].image].pts <= frames[i].pts
    BY <2>3 DEF FramesFit
  <2>5. frames[i].pts <= frames[anchor].pts
    <3>1. CASE i < anchor
      BY <2>3, <3>1 DEF FramesFit
    <3>2. CASE i = anchor
      BY <2>3, <3>2
    <3> QED BY <2>3, <3>1, <3>2
  <2>6. video[frames[i].image].pts \in Int /\ frames[i].pts \in Int /\ frames[anchor].pts \in Int
    BY <2>3, <2>4
  <2>7. video[frames[i].image].pts <= frames[anchor].pts
    BY <2>4, <2>5, <2>6
  <2> HIDE DEF window
  <2> QED BY <1>1, <2>2, <2>7, Zenon
<1>4. Offset(labels[now].time, sample.pts - frames[flash].pts) <= LabelTolerance
  <2> HIDE DEF now
  <2>1. now # 0
    BY <1>1
  <2> QED BY <1>1, <2>1 DEF IsNearest
<1>5. /\ \A k \in 1..Len(history) - 1 : history[k] < history[k + 1]
      /\ Last(history) = now
  <2>1. /\ history \in [1..length -> 1..now] /\ history[length] = now
        /\ \A k \in 1..length - 1 : history[k] < history[k + 1]
    BY <1>1 DEF HistoryFits
  <2> HIDE DEF history, length, now
  <2>2. Len(history) = length
    BY <1>2, <2>1, FunctionIsList
  <2> QED BY <2>1, <2>2 DEF Last
<1>6. \A k \in 1..Len(<<now>> \o future) - 1 : (<<now>> \o future)[k] < (<<now>> \o future)[k + 1]
  <2>1. /\ future \in [1..horizon -> now + 1..Len(labels)]
        /\ \A k \in 1..horizon - 1 : future[k] < future[k + 1]
    BY <1>1 DEF FutureFits
  <2>2. now \in Nat /\ Len(labels) \in Nat
    BY <1>1 DEF InTime
  <2> DEFINE single == <<now>>
             rows == single \o future
  <2> HIDE DEF future, horizon, now
  <2>3. single \in Seq(Nat) /\ Len(single) = 1 /\ single[1] = now
    BY <2>2
  <2> HIDE DEF single
  <2>4. \A k \in 1..horizon : future[k] \in Nat /\ future[k] > now
    BY <2>1, <2>2
  <2>5. future \in [1..horizon -> Nat]
    BY <2>1, <2>4
  <2>6. future \in Seq(Nat) /\ Len(future) = horizon
    BY <1>2, <2>5, FunctionIsList
  <2>7. /\ Len(rows) = 1 + horizon
        /\ \A k \in 1..1 + horizon : rows[k] = IF k <= 1 THEN single[k] ELSE future[k - 1]
    <3>1. /\ Len(rows) = Len(single) + Len(future)
          /\ \A k \in 1..Len(single) + Len(future) :
               rows[k] = IF k <= Len(single) THEN single[k] ELSE future[k - Len(single)]
      BY <2>3, <2>6, ConcatProperties
    <3> HIDE DEF rows
    <3> QED BY <2>3, <2>6, <3>1
  <2> HIDE DEF rows
  <2>8. ASSUME NEW k \in 1..horizon PROVE rows[k] < rows[k + 1]
    <3>1. k \in Nat \ {0} /\ k \in 1..1 + horizon /\ k + 1 \in 1..1 + horizon /\ ~(k + 1 <= 1) /\ (k + 1) - 1 = k
      BY <1>2
    <3>2. rows[k + 1] = future[k]
      BY <2>7, <3>1
    <3>3. CASE k = 1
      <4>1. rows[k] = now
        BY <2>3, <2>7, <3>1, <3>3
      <4> QED BY <2>4, <3>2, <4>1
    <3>4. CASE k # 1
      <4>1. ~(k <= 1) /\ k - 1 \in 1..horizon - 1 /\ (k - 1) + 1 = k
        BY <1>2, <3>1, <3>4
      <4>2. rows[k] = future[k - 1]
        BY <2>7, <3>1, <4>1
      <4>3. future[k - 1] < future[(k - 1) + 1]
        BY <2>1, <4>1
      <4> QED BY <3>2, <4>1, <4>2, <4>3
    <3> QED BY <3>3, <3>4
  <2>9. (1 + horizon) - 1 = horizon
    BY <1>2
  <2> QED BY <2>7, <2>8, <2>9 DEF rows, single
<1> QED BY <1>1, <1>3, <1>4, <1>5, <1>6

LEMMA EverySampleFits ==
  ASSUME NEW r \in Recordings, NEW extent \in Extents, NEW k \in 1..Len(AllSamples[r][extent]),
         NEW at, AllTaken(r, extent, at)
  PROVE  /\ FlashOf(r, extent) \in 1..Len(FramesOf(r, extent)) /\ at[k] \in 1..Len(FramesOf(r, extent))
         /\ SampleFits(FramesOf(r, extent), LabelsOf(r), FlashOf(r, extent), at[k], AllSamples[r][extent][k])
<1> DEFINE frames == FramesOf(r, extent)
           labels == LabelsOf(r)
           flash == FlashOf(r, extent)
           all == AllSamples[r][extent]
<1>1. all # <<>>
  OBVIOUS
<1>2. flash \in 1..Len(frames) /\ Taken(frames, labels, flash, all, Len(frames), at)
  BY <1>1 DEF AllTaken
<1>3. /\ Len(frames) \in Nat /\ InTime(labels)
      /\ \A i \in 1..Len(frames) : frames[i].pts \in Int
  BY RecordedInOrder
<1> DEFINE sample == all[k]
           anchor == at[k]
<1>4. anchor \in 1..Len(frames) /\ sample \in SampleAt(frames, labels, flash, anchor)
  BY <1>2 DEF Taken
<1> HIDE DEF frames, labels, flash, sample, anchor
<1>5. SampleFits(frames, labels, flash, anchor, sample)
  BY <1>2, <1>3, <1>4, SamplesLookBack
<1> QED BY <1>2, <1>4, <1>5 DEF frames, labels, flash, sample, anchor

LEMMA RecordingsAreSound ==
  ASSUME NEW r \in Recordings, NEW extent \in Extents
  PROVE  Sound(r, extent)
<1> DEFINE video == Recorded[r].video
           frames == FramesOf(r, extent)
           labels == LabelsOf(r)
           flash == FlashOf(r, extent)
           all == AllSamples[r][extent]
<1>1. /\ FramesFit(frames, video) /\ Len(frames) \in Nat /\ InTime(labels)
      /\ \A i \in 1..Len(frames) : frames[i].pts \in Int
  BY RecordedInOrder
<1>2. \A i \in 1..Len(video) : video[i].pts \in Int
  <2>1. video \in Seq(Video)
    BY RecordedAssumption
  <2> HIDE DEF video
  <2>2. \A i \in 1..Len(video) : video[i] \in Video
    BY <2>1, ElementOfSeq
  <2>3. \A frame \in Video : frame.pts \in Int
    BY DEF Video
  <2> QED BY <2>2, <2>3
<1>3. PICK at : AllTaken(r, extent, at)
  BY AllSamplesAreTaken
<1>4. SUFFICES ASSUME NEW sample \in Range(Samples[r][extent])
               PROVE  /\ \A k \in DOMAIN sample.frames : video[sample.frames[k]].pts <= sample.pts
                      /\ Offset(labels[sample.label].time, sample.pts - frames[flash].pts) <= LabelTolerance
                      /\ \A k \in 1..Len(sample.history) - 1 : sample.history[k] < sample.history[k + 1]
                      /\ Last(sample.history) = sample.label
                      /\ \A k \in 1..Len(<<sample.label>> \o sample.future) - 1 :
                           (<<sample.label>> \o sample.future)[k] < (<<sample.label>> \o sample.future)[k + 1]
                      /\ sample.target.horizon > 0
  BY Zenon DEF Sound
<1>5. PICK k \in 1..Len(all) : sample = all[k]
  BY SamplesAreOfAll
<1> DEFINE anchor == at[k]
<1>6. flash \in 1..Len(frames) /\ anchor \in 1..Len(frames) /\ SampleFits(frames, labels, flash, anchor, sample)
  BY <1>3, <1>5, EverySampleFits
<1> HIDE DEF video, frames, labels, flash, anchor
<1> QED BY <1>1, <1>2, <1>6, FittingIsSound

-----------------------------------------------------------------------------
(* The thinning of the standstill.                                       *)

(* The thinning of a list of times, of which some are at a standstill.     *)
Runs == [inRun : BOOLEAN, kept : Nat, last : Int]

DueAt(run, now) == ~run.inRun \/ run.kept < StoppedBurst \/ now - run.last >= StoppedSpacing

Follows(still, time, run, n) ==
  IF n \notin still THEN Moving
  ELSE IF DueAt(run, time[n]) THEN [inRun |-> TRUE, kept |-> run.kept + 1, last |-> time[n]] ELSE run

IsRun(N, still, time, states) ==
  /\ states \in [0..N -> Runs] /\ states[0] = Moving
  /\ \A n \in 1..N : states[n] = Follows(still, time, states[n - 1], n)

Thins(N, still, time, states) == {n \in 1..N : n \in still => DueAt(states[n - 1], time[n])}

(* The places of a list's standstill up to one that are kept.              *)
KeptTo(places, still, n) == {j \in places : j <= n /\ \A k \in j..n : k \in still}

Counts(places, still, time, run, n) ==
  /\ run.inRun <=> n \in still
  /\ run.kept = Cardinality(KeptTo(places, still, n))
  /\ n \in still => KeptTo(places, still, n) # {} /\ run.last = time[Max(KeptTo(places, still, n))]

LEMMA KeptOfNext ==
  ASSUME NEW n \in Nat \ {0}, NEW places, places \subseteq Nat \ {0}, NEW still
  PROVE  /\ n \notin still => KeptTo(places, still, n) = {}
         /\ n \in still /\ n \notin places => KeptTo(places, still, n) = KeptTo(places, still, n - 1)
         /\ n \in still /\ n \in places => KeptTo(places, still, n) = KeptTo(places, still, n - 1) \cup {n}
<1>1. ASSUME n \notin still PROVE KeptTo(places, still, n) = {}
  <2> SUFFICES ASSUME NEW j \in KeptTo(places, still, n) PROVE FALSE
    OBVIOUS
  <2>1. j \in Nat /\ j <= n /\ n \in j..n
    BY DEF KeptTo
  <2> QED BY <1>1, <2>1 DEF KeptTo
<1>2. ASSUME n \in still, NEW j \in places, j # n
      PROVE  j \in KeptTo(places, still, n) <=> j \in KeptTo(places, still, n - 1)
  <2>1. j \in Nat /\ (j <= n <=> j <= n - 1)
    BY <1>2
  <2>2. ASSUME j <= n - 1
        PROVE  (\A k \in j..n : k \in still) <=> \A k \in j..n - 1 : k \in still
    <3>1. \A k : k \in j..n <=> k \in j..n - 1 \/ k = n
      BY <2>1, <2>2
    <3> QED BY <1>2, <3>1
  <2> QED BY <2>1, <2>2 DEF KeptTo
<1>3. n \notin KeptTo(places, still, n - 1)
  BY DEF KeptTo
<1>4. n \in still /\ n \in places => n \in KeptTo(places, still, n)
  <2>1. \A k \in n..n : k = n
    OBVIOUS
  <2> QED BY <2>1 DEF KeptTo
<1>5. KeptTo(places, still, n) \subseteq places /\ KeptTo(places, still, n - 1) \subseteq places
  BY DEF KeptTo
<1> QED BY <1>1, <1>2, <1>3, <1>4, <1>5

LEMMA KeptToIsFinite ==
  ASSUME NEW n \in Nat, NEW places, places \subseteq Nat \ {0}, NEW still
  PROVE  IsFiniteSet(KeptTo(places, still, n)) /\ \A j \in KeptTo(places, still, n) : j \in Nat /\ j <= n
<1>1. KeptTo(places, still, n) \subseteq 1..n
  <2>1. ASSUME NEW j \in KeptTo(places, still, n) PROVE j \in 1..n
    <3>1. j \in Nat \ {0} /\ j <= n
      BY DEF KeptTo
    <3> QED BY <3>1
  <2> QED BY <2>1
<1>2. IsFiniteSet(1..n)
  BY FS_Interval
<1> QED BY <1>1, <1>2, FS_Subset

LEMMA RunsCount ==
  ASSUME NEW N \in Nat, NEW still \in SUBSET (1..N), NEW time \in [1..N -> Int],
         NEW states, IsRun(N, still, time, states)
  PROVE  \A n \in 0..N : Counts(Thins(N, still, time, states), still, time, states[n], n)
<1> DEFINE places == Thins(N, still, time, states)
           Good == {n \in 0..N : Counts(places, still, time, states[n], n)}
<1>1. places \subseteq Nat \ {0}
  BY DEF Thins
<1>2. /\ states[0] = Moving /\ \A n \in 0..N : states[n] \in Runs
      /\ \A n \in 1..N : states[n] = Follows(still, time, states[n - 1], n)
  BY DEF IsRun
<1>3. 0 \in Good
  <2>1. 0 \in 0..N /\ 0 \notin still
    OBVIOUS
  <2>2. KeptTo(places, still, 0) = {}
    BY <1>1 DEF KeptTo
  <2>3. Cardinality({}) = 0
    BY FS_EmptySet
  <2>4. Counts(places, still, time, states[0], 0)
    <3>1. states[0].inRun = FALSE /\ states[0].kept = 0
      BY <1>2 DEF Moving
    <3> HIDE DEF places
    <3> QED BY <2>1, <2>2, <2>3, <3>1 DEF Counts
  <2> QED BY <2>1, <2>4
<1>4. ASSUME NEW n \in 1..N, n - 1 \in Good
      PROVE  n \in Good
  <2> DEFINE before == states[n - 1]
             after == states[n]
             earlier == KeptTo(places, still, n - 1)
             now == KeptTo(places, still, n)
  <2>1. /\ n \in Nat \ {0} /\ n - 1 \in Nat /\ n \in 0..N /\ n - 1 \in 0..N
        /\ before \in Runs /\ after = Follows(still, time, before, n) /\ time[n] \in Int
    BY <1>2
  <2>2. Counts(places, still, time, before, n - 1)
    BY <1>4
  <2>3. n \in places <=> (n \in still => DueAt(before, time[n]))
    BY DEF Thins
  <2>4. IsFiniteSet(earlier) /\ n \notin earlier
    <3>1. IsFiniteSet(earlier) /\ \A j \in earlier : j \in Nat /\ j <= n - 1
      BY <1>1, <2>1, KeptToIsFinite
    <3> QED BY <2>1, <3>1
  <2>5. \A j \in now : j \in Nat /\ j <= n
    BY <1>1, <2>1, KeptToIsFinite
  <2> HIDE DEF before, after, places
  <2>6. Counts(places, still, time, after, n)
    <3>1. CASE n \notin still
      <4>1. now = {}
        BY <1>1, <2>1, <3>1, KeptOfNext
      <4>2. Cardinality({}) = 0
        BY FS_EmptySet
      <4>3. after = Moving
        BY <2>1, <3>1 DEF Follows
      <4> QED BY <3>1, <4>1, <4>2, <4>3 DEF Counts, Moving
    <3>2. CASE n \in still /\ DueAt(before, time[n])
      <4>1. now = earlier \cup {n}
        BY <1>1, <2>1, <2>3, <3>2, KeptOfNext
      <4>2. after = [inRun |-> TRUE, kept |-> before.kept + 1, last |-> time[n]]
        BY <2>1, <3>2 DEF Follows
      <4>3. after.inRun = TRUE /\ after.kept = before.kept + 1 /\ after.last = time[n]
        BY <4>2
      <4>4. Cardinality(now) = Cardinality(earlier) + 1
        <5> HIDE DEF earlier, now
        <5> QED BY <2>4, <4>1, FS_AddElement
      <4>5. Max(now) = n
        <5> HIDE DEF earlier, now
        <5>1. n \in now /\ \A j \in now : j <= n /\ j \in Nat
          BY <2>5, <4>1
        <5>2. \A m \in now : (\A j \in now : m >= j) => m = n
          BY <2>1, <5>1
        <5>3. \A j \in now : n >= j
          BY <2>1, <5>1
        <5> QED BY <5>1, <5>2, <5>3 DEF Max
      <4>6. before.kept = Cardinality(earlier)
        BY <2>2 DEF Counts
      <4>7. now # {}
        BY <4>1
      <4> QED BY <3>2, <4>3, <4>4, <4>5, <4>6, <4>7 DEF Counts
    <3>3. CASE n \in still /\ ~DueAt(before, time[n])
      <4>1. now = earlier /\ after = before
        BY <1>1, <2>1, <2>3, <3>3, KeptOfNext DEF Follows
      <4>2. before.inRun
        BY <3>3 DEF DueAt
      <4>3. n - 1 \in still
        BY <2>2, <4>2 DEF Counts
      <4> QED BY <2>2, <3>3, <4>1, <4>2, <4>3 DEF Counts
    <3> QED BY <3>1, <3>2, <3>3
  <2> QED BY <2>1, <2>6 DEF after
<1> HIDE DEF Good
<1>5. \A n \in 0..N : n \in Good
  BY <1>3, <1>4, UpTo
<1> QED BY <1>5 DEF Good

(* thinStoppedSamples in these terms.                                      *)
TimeOf(samples, labels) == [n \in 1..Len(samples) |-> labels[samples[n].label].time]
StillOf(samples, labels) == {n \in 1..Len(samples) : labels[samples[n].label].stopped}

AreRuns(samples, labels, states) ==
  states = [n \in 0..Len(samples) |->
              IF n = 0 THEN Moving
              ELSE IF ~labels[samples[n].label].stopped THEN Moving
              ELSE IF DueAt(states[n - 1], labels[samples[n].label].time)
              THEN [inRun |-> TRUE, kept |-> states[n - 1].kept + 1, last |-> labels[samples[n].label].time]
              ELSE states[n - 1]]

LEMMA RunsExist ==
  ASSUME NEW N \in Nat, NEW still, NEW time \in [1..N -> Int]
  PROVE  \E states : IsRun(N, still, time, states)
<1> DEFINE step == [x \in Runs \X (1..N) |-> Follows(still, time, x[1], x[2])]
           base == Moving
<1>1. base \in Runs
  BY DEF Moving, Runs
<1>2. ASSUME NEW run \in Runs, NEW n \in 1..N PROVE Follows(still, time, run, n) \in Runs
  <2>1. run.kept \in Nat /\ time[n] \in Int
    BY DEF Runs
  <2>2. [inRun |-> TRUE, kept |-> run.kept + 1, last |-> time[n]] \in Runs
    BY <2>1 DEF Runs
  <2> QED BY <1>1, <2>2 DEF Follows
<1>3. \A run \in Runs, n \in 1..N : step[<<run, n>>] = Follows(still, time, run, n)
  OBVIOUS
<1> HIDE DEF step, base
<1>4. StaysIn(N, Runs, step)
  BY <1>2, <1>3 DEF StaysIn
<1>5. PICK states \in [0..N -> Runs] : Steps(N, base, step, states)
  BY <1>1, <1>4, Recursion
<1>6. states[0] = Moving
  BY <1>5 DEF Steps, base
<1>7. ASSUME NEW n \in 1..N PROVE states[n] = Follows(still, time, states[n - 1], n)
  <2>1. states[n] = step[<<states[n - 1], n>>] /\ n - 1 \in 0..N
    BY <1>5 DEF Steps
  <2> QED BY <1>3, <1>5, <2>1
<1> QED BY <1>5, <1>6, <1>7 DEF IsRun

LEMMA ThinnedIsKept ==
  ASSUME NEW T, NEW samples \in Seq(T), NEW labels,
         \A n \in 1..Len(samples) : labels[samples[n].label].time \in Int,
         StoppedBurst >= 1, StoppedSpacing > 0
  PROVE  \E states : /\ IsRun(Len(samples), StillOf(samples, labels), TimeOf(samples, labels), states)
                     /\ ThinStopped(samples, labels) =
                          Kept(samples, Thins(Len(samples), StillOf(samples, labels), TimeOf(samples, labels), states))
<1> DEFINE N == Len(samples)
           Time(n) == labels[samples[n].label].time
           Stopped(n) == labels[samples[n].label].stopped
           time == TimeOf(samples, labels)
           still == StillOf(samples, labels)
           Is(states) == AreRuns(samples, labels, states)
<1>1. N \in Nat /\ DOMAIN samples = 1..N
  BY LenProperties
<1>2. time \in [1..N -> Int] /\ \A n \in 1..N : time[n] = Time(n)
  BY DEF TimeOf
<1>3. still \in SUBSET (1..N) /\ \A n \in 1..N : n \in still <=> Stopped(n)
  BY DEF StillOf
<1>4. PICK f : IsRun(N, still, time, f)
  <2> HIDE DEF N, time, still
  <2> QED BY <1>1, <1>2, RunsExist
<1>5. ~(StoppedBurst < 1 \/ StoppedSpacing <= 0)
  BY SamplingAssumption
<1> DEFINE chosen == CHOOSE states : Is(states)
           places == {n \in 1..N : Stopped(n) => DueAt(chosen[n - 1], Time(n))}
<1>6. ThinStopped(samples, labels) = Kept(samples, places)
  BY <1>1, <1>5 DEF ThinStopped, AreRuns, DueAt
<1>7. Is(f)
  <2> HIDE DEF N, time, still, Time, Stopped
  <2>1. /\ f \in [0..N -> Runs] /\ f[0] = Moving
        /\ \A n \in 1..N : f[n] = Follows(still, time, f[n - 1], n)
    BY <1>4 DEF IsRun
  <2>2. ASSUME NEW n \in 0..N
        PROVE  f[n] = IF n = 0 THEN Moving
                      ELSE IF ~Stopped(n) THEN Moving
                      ELSE IF DueAt(f[n - 1], Time(n)) THEN [inRun |-> TRUE, kept |-> f[n - 1].kept + 1, last |-> Time(n)]
                      ELSE f[n - 1]
    <3>1. CASE n = 0
      BY <2>1, <3>1
    <3>2. CASE n # 0
      <4>1. n \in 1..N
        BY <1>1, <3>2
      <4>2. f[n] = Follows(still, time, f[n - 1], n) /\ time[n] = Time(n) /\ (n \in still <=> Stopped(n))
        BY <1>2, <1>3, <2>1, <4>1
      <4> QED BY <3>2, <4>2, Zenon DEF Follows
    <3> QED BY <3>1, <3>2
  <2>3. f = [n \in 0..N |-> f[n]]
    BY <2>1
  <2> QED BY <2>2, <2>3, Zenon DEF AreRuns, N, Time, Stopped
<1>8. Is(chosen)
  <2> HIDE DEF Is
  <2> QED BY <1>7, Zenon
<1> HIDE DEF chosen
<1>9. \A n \in 0..N : chosen[n] = IF n = 0 THEN Moving
                      ELSE IF ~Stopped(n) THEN Moving
                      ELSE IF DueAt(chosen[n - 1], Time(n)) THEN [inRun |-> TRUE, kept |-> chosen[n - 1].kept + 1, last |-> Time(n)]
                      ELSE chosen[n - 1]
  BY <1>8, Zenon DEF AreRuns
<1> HIDE DEF N, time, still, Time, Stopped, places
<1> DEFINE Same == {n \in 0..N : chosen[n] = f[n]}
<1>10. 0 \in Same
  <2>1. f[0] = Moving /\ 0 \in 0..N
    BY <1>1, <1>4 DEF IsRun
  <2>2. chosen[0] = Moving
    BY <1>9, <2>1, Zenon
  <2> QED BY <2>1, <2>2
<1>11. ASSUME NEW n \in 1..N, n - 1 \in Same PROVE n \in Same
  <2>1. n \in 0..N /\ n # 0 /\ chosen[n - 1] = f[n - 1]
    BY <1>1, <1>11
  <2>2. f[n] = Follows(still, time, f[n - 1], n) /\ time[n] = Time(n) /\ (n \in still <=> Stopped(n))
    BY <1>2, <1>3, <1>4 DEF IsRun
  <2>3. chosen[n] = f[n]
    BY <1>9, <2>1, <2>2, Zenon DEF Follows
  <2> QED BY <2>1, <2>3
<1> HIDE DEF Same
<1>12. \A n \in 0..N : n \in Same
  BY <1>1, <1>10, <1>11, UpTo
<1>13. places = Thins(N, still, time, f)
  <2> SUFFICES ASSUME NEW n \in 1..N
               PROVE  (Stopped(n) => DueAt(chosen[n - 1], Time(n))) <=> (n \in still => DueAt(f[n - 1], time[n]))
    BY Zenon DEF places, Thins
  <2>1. n - 1 \in 0..N
    BY <1>1
  <2>2. chosen[n - 1] = f[n - 1]
    BY <1>12, <2>1 DEF Same
  <2> QED BY <1>2, <1>3, <2>2, Zenon
<1> QED BY <1>4, <1>6, <1>13, Zenon DEF N, time, still

(* No sample is in the list twice: their windows end at other frames.      *)
LEMMA SamplesDiffer ==
  ASSUME NEW r \in Recordings, NEW extent \in Extents,
         NEW i \in 1..Len(AllSamples[r][extent]), NEW j \in 1..Len(AllSamples[r][extent]), i < j
  PROVE  AllSamples[r][extent][i] # AllSamples[r][extent][j]
<1> DEFINE frames == FramesOf(r, extent)
           all == AllSamples[r][extent]
<1>1. PICK at : AllTaken(r, extent, at)
  BY AllSamplesAreTaken
<1>2. at[i] < at[j]
  <2>1. all # <<>>
    OBVIOUS
  <2> QED BY <1>1, <2>1 DEF AllTaken, Taken
<1>3. at[i] \in 1..Len(frames) /\ all[i].frames[WindowSize] = frames[at[i]].image
  BY <1>1, EverySampleFits DEF SampleFits
<1>4. at[j] \in 1..Len(frames) /\ all[j].frames[WindowSize] = frames[at[j]].image
  BY <1>1, EverySampleFits DEF SampleFits
<1>5. FramesFit(frames, Recorded[r].video)
  BY RecordedInOrder
<1>6. frames[at[i]].image < frames[at[j]].image /\ frames[at[i]].image \in Nat
      /\ frames[at[j]].image \in Nat
  <2> HIDE DEF frames
  <2>1. \A k \in 1..Len(frames) : frames[k].image \in 1..Len(Recorded[r].video)
    BY <1>5 DEF FramesFit
  <2>2. frames[at[i]].image < frames[at[j]].image
    BY <1>2, <1>3, <1>4, <1>5 DEF FramesFit
  <2> QED BY <1>3, <1>4, <2>1, <2>2
<1>7. frames[at[i]].image # frames[at[j]].image
  <2> HIDE DEF frames
  <2> QED BY <1>6
<1> HIDE DEF frames, all
<1>8. all[i] # all[j]
  BY <1>3, <1>4, <1>7, Zenon
<1> QED BY <1>8 DEF all

LEMMA GreatestOf ==
  ASSUME NEW n \in Nat, NEW S, S # {}, \A j \in S : j \in Nat /\ j <= n
  PROVE  Max(S) \in S
<1> DEFINE Left == {n - j : j \in S}
           least == Min(Left)
<1>1. Left \in SUBSET Nat /\ Left # {}
  OBVIOUS
<1>2. least \in Left /\ \A m \in Left : least <= m
  <2> HIDE DEF Left
  <2> QED BY <1>1, LeastOf
<1> HIDE DEF least
<1>3. PICK j \in S : least = n - j
  BY <1>2
<1>4. ASSUME NEW k \in S PROVE j >= k
  <2>1. n - k \in Left /\ k \in Nat /\ j \in Nat
    OBVIOUS
  <2>2. n - j <= n - k
    BY <1>2, <1>3, <2>1
  <2> QED BY <2>1, <2>2
<1> QED BY <1>4 DEF Max

LEMMA RecordingsAreThinned ==
  ASSUME NEW r \in Recordings, NEW extent \in Extents
  PROVE  Thinned(r, extent)
<1> DEFINE labels == LabelsOf(r)
           all == AllSamples[r][extent]
           left == Samples[r][extent]
           kept == {i \in DOMAIN all : all[i] \in Range(left)}
           Stopped(i) == labels[all[i].label].stopped
           KeptOfRun(i) == {j \in kept : j < i /\ \A k \in j..i : Stopped(k)}
<1>1. SUFFICES ASSUME StoppedBurst >= 1, StoppedSpacing > 0, NEW i \in DOMAIN all
               PROVE  i \in kept <=>
                        \/ ~Stopped(i) \/ Cardinality(KeptOfRun(i)) < StoppedBurst
                        \/ labels[all[i].label].time - labels[all[Max(KeptOfRun(i))].label].time >= StoppedSpacing
  BY Zenon DEF Thinned
<1> DEFINE N == Len(all)
           time == TimeOf(all, labels)
           still == StillOf(all, labels)
<1>2. PICK T : all \in Seq(T)
  BY AllSamplesAreTaken
<1>3. N \in Nat /\ DOMAIN all = 1..N /\ i \in 1..N
  BY <1>1, <1>2, LenProperties
<1>4. ASSUME NEW n \in 1..N PROVE labels[all[n].label].time \in Int
  <2>1. PICK at : AllTaken(r, extent, at)
    BY AllSamplesAreTaken
  <2>2. SampleFits(FramesOf(r, extent), labels, FlashOf(r, extent), at[n], all[n])
    BY <2>1, EverySampleFits
  <2>3. all[n].label \in 1..Len(labels) /\ InTime(labels)
    BY <2>2, RecordedInOrder DEF SampleFits
  <2> HIDE DEF all, labels
  <2> QED BY <2>3 DEF InTime
<1>5. left = ThinStopped(all, labels)
  BY DEF Samples
<1>6. ASSUME NEW m \in 1..N, NEW n \in 1..N, all[m] = all[n] PROVE m = n
  BY <1>3, <1>6, SamplesDiffer
<1> HIDE DEF labels, all, left
<1>7. PICK states : /\ IsRun(N, still, time, states)
                    /\ left = Kept(all, Thins(N, still, time, states))
  BY <1>1, <1>2, <1>4, <1>5, ThinnedIsKept
<1> DEFINE places == Thins(N, still, time, states)
<1>8. kept = places
  <2> HIDE DEF places, still, time
  <2>1. left \in Seq(T) /\ \E at : At(all, places, N, left, at)
    BY <1>2, <1>7, KeptIsAt DEF places
  <2>2. PICK at : At(all, places, N, left, at)
    BY <2>1
  <2>3. DOMAIN left = 1..Len(left)
    BY <2>1, LenProperties
  <2>4. places \subseteq 1..N
    BY DEF places, Thins
  <2>5. ASSUME NEW n \in places PROVE n \in kept
    <3>1. PICK k \in 1..Len(left) : at[k] = n
      BY <2>2, <2>4, <2>5 DEF At
    <3>2. left[k] = all[n]
      BY <2>2, <3>1 DEF At
    <3> QED BY <1>3, <2>3, <2>4, <3>1, <3>2, Zenon DEF Range
  <2>6. ASSUME NEW n \in kept PROVE n \in places
    <3>1. n \in 1..N /\ all[n] \in Range(left)
      BY <1>3
    <3>2. PICK k \in 1..Len(left) : left[k] = all[n]
      BY <2>3, <3>1 DEF Range
    <3>3. at[k] \in places /\ at[k] \in 1..N /\ left[k] = all[at[k]]
      BY <2>2, <2>4 DEF At
    <3>4. at[k] = n
      BY <1>6, <3>1, <3>2, <3>3
    <3> QED BY <3>3, <3>4
  <2> QED BY <2>5, <2>6
<1>9. /\ time \in [1..N -> Int] /\ \A n \in 1..N : time[n] = labels[all[n].label].time
      /\ still \in SUBSET (1..N) /\ \A n \in 1..N : n \in still <=> Stopped(n)
  BY <1>4 DEF TimeOf, StillOf
<1>10. \A n \in 0..N : Counts(places, still, time, states[n], n)
  <2> HIDE DEF still, time, N
  <2> QED BY <1>3, <1>7, <1>9, RunsCount
<1> DEFINE before == states[i - 1]
           earlier == KeptTo(places, still, i - 1)
<1>11. i - 1 \in 0..N /\ i - 1 \in Nat /\ Counts(places, still, time, before, i - 1)
  BY <1>3, <1>10
<1>12. i \in places <=> (i \in still => DueAt(before, time[i]))
  BY <1>3 DEF Thins
<1>13. places \subseteq Nat \ {0} /\ places \subseteq 1..N
  BY DEF Thins
<1> HIDE DEF N, time, still, places, before
<1>14. CASE i \notin still
  BY <1>3, <1>8, <1>9, <1>12, <1>14, Zenon
<1>15. CASE i \in still
  <2>1. KeptOfRun(i) = earlier
    <3>1. ASSUME NEW j \in places
          PROVE  (j < i /\ \A k \in j..i : Stopped(k)) <=> (j <= i - 1 /\ \A k \in j..i - 1 : k \in still)
      <4>1. j \in 1..N /\ i \in 1..N /\ (j < i <=> j <= i - 1)
        BY <1>3, <1>13, <3>1
      <4>2. CASE j < i
        <5>1. \A k : k \in j..i <=> k \in j..i - 1 \/ k = i
          BY <1>3, <4>1, <4>2
        <5>2. \A k \in j..i : k \in 1..N
          BY <1>3, <4>1, <4>2
        <5>3. (\A k \in j..i : Stopped(k)) <=> \A k \in j..i : k \in still
          BY <1>9, <5>2, Zenon
        <5>4. (\A k \in j..i : k \in still) <=> \A k \in j..i - 1 : k \in still
          BY <1>15, <5>1, Zenon
        <5> QED BY <4>1, <5>3, <5>4, Zenon
      <4>3. CASE ~(j < i)
        BY <4>1, <4>3, Zenon
      <4> QED BY <4>2, <4>3
    <3> HIDE DEF kept
    <3> QED BY <1>8, <3>1, Zenon DEF KeptTo
  <2>2. before.inRun <=> i - 1 \in still
    BY <1>11 DEF Counts
  <2>3. before.kept = Cardinality(earlier)
    BY <1>11 DEF Counts
  <2>4. CASE i - 1 \in still
    <3>1. before.last = time[Max(earlier)] /\ earlier # {}
      BY <1>11, <2>4 DEF Counts
    <3>2. Max(earlier) \in 1..N
      <4>1. IsFiniteSet(earlier) /\ \A j \in earlier : j \in Nat /\ j <= i - 1
        BY <1>11, <1>13, KeptToIsFinite
      <4>2. earlier \subseteq places
        BY DEF KeptTo
      <4> DEFINE most == i - 1
      <4>3. most \in Nat /\ earlier # {} /\ \A j \in earlier : j \in Nat /\ j <= most
        BY <1>11, <3>1, <4>1
      <4> HIDE DEF earlier, most
      <4>4. Max(earlier) \in earlier
        BY <4>3, GreatestOf
      <4> QED BY <1>13, <4>2, <4>4
    <3>3. before.last = labels[all[Max(earlier)].label].time /\ time[i] = labels[all[i].label].time
      BY <1>3, <1>9, <3>1, <3>2
    <3>4. DueAt(before, time[i]) <=>
            \/ Cardinality(earlier) < StoppedBurst
            \/ labels[all[i].label].time - labels[all[Max(earlier)].label].time >= StoppedSpacing
      BY <2>2, <2>3, <2>4, <3>3, Zenon DEF DueAt
    <3>5. i \in kept <=> DueAt(before, time[i])
      BY <1>8, <1>12, <1>15, Zenon
    <3>6. Stopped(i)
      BY <1>3, <1>9, <1>15, Zenon
    <3> HIDE DEF KeptOfRun, kept, Stopped, earlier
    <3> QED BY <2>1, <3>4, <3>5, <3>6, Zenon
  <2>5. CASE i - 1 \notin still
    <3>1. earlier = {}
      <4> SUFFICES ASSUME NEW j \in earlier PROVE FALSE
        OBVIOUS
      <4>1. j \in Nat /\ j <= i - 1 /\ \A k \in j..i - 1 : k \in still
        BY <1>13 DEF KeptTo
      <4>2. i - 1 \in j..i - 1
        BY <1>11, <4>1
      <4> QED BY <2>5, <4>1, <4>2
    <3>2. Cardinality({}) < StoppedBurst
      BY <1>1, FS_EmptySet, SamplingAssumption
    <3>3. DueAt(before, time[i])
      BY <2>2, <2>5, Zenon DEF DueAt
    <3>4. i \in kept
      BY <1>8, <1>12, <3>3, Zenon
    <3> HIDE DEF KeptOfRun, kept, earlier
    <3> QED BY <2>1, <3>1, <3>2, <3>4, Zenon
  <2> QED BY <2>4, <2>5
<1> QED BY <1>14, <1>15

-----------------------------------------------------------------------------
(* What holds of the samples of every dataset that was written.          *)

LEMMA HistoriesAreFound ==
  ASSUME NEW r \in Recordings
  PROVE  Findable(r)
<1> DEFINE labels == LabelsOf(r)
<1>1. InTime(labels)
  BY RecordedInOrder
<1>2. DOMAIN labels = 1..Len(labels)
  <2>1. Sorted(labels)
    BY RecordedAssumption, TimedLabelsAreSorted DEF LabelsOf
  <2> HIDE DEF labels
  <2> QED BY <2>1, LenProperties DEF Sorted
<1> HIDE DEF labels
<1>3. ASSUME NEW anchor \in DOMAIN labels,
             \A offset \in TelemetryOffsets[1]..-1 : \E i \in 1..anchor - 1 :
               LET off == Offset(labels[i].time, labels[anchor].time + offset * SampleInterval)
               IN off <= LabelTolerance /\ 2 * off < SampleInterval
      PROVE  TelemetryHistory(labels, anchor) # <<>>
  BY <1>1, <1>2, <1>3, HistoryIsFoundIfDense
<1> QED BY <1>3, Zenon DEF Findable, labels

LEMMA WrittenIsRecorded ==
  ASSUME TripTypeOK
  PROVE  Written \subseteq Recordings \X Extents
<1> SUFFICES ASSUME NEW t \in Trips PROVE recording[t] \in Recordings /\ dataset[t].from \in Extents
  BY DEF Written
<1>1. recording \in [Trips -> Recordings] /\ dataset \in [Trips -> Datasets]
  BY DEF TripTypeOK
<1>2. \A d \in Datasets : d.from \in Extents
  BY DEF Datasets, Extents
<1> QED BY <1>1, <1>2

(* The inputs of the samples of a dataset that was written do not show     *)
(* what is to be predicted: images and history are of the past, in their   *)
(* order, future and target are not, and the sample's row is within the    *)
(* tolerance of its frame (buildDatasetSamplesWithStats).                  *)
THEOREM DatasetsLookBack == TripSpec => []InputsArePast
<1>1. ASSUME TripTypeOK PROVE InputsArePast
  <2> SUFFICES ASSUME NEW pair \in Recordings \X Extents PROVE Sound(pair[1], pair[2])
    BY <1>1, WrittenIsRecorded, Zenon DEF InputsArePast, SoundRecordings
  <2>1. pair[1] \in Recordings /\ pair[2] \in Extents
    OBVIOUS
  <2> QED BY <2>1, RecordingsAreSound
<1> QED BY <1>1, TripTypes, PTL

(* In the recordings of these datasets no sample is lost for a choice made *)
(* too early: a history whose rows are close enough to its times is found  *)
(* (buildTelemetryHistory).                                                *)
THEOREM DenseHistoriesAreFound == TripSpec => []HistoryIsFound
<1>1. ASSUME TripTypeOK PROVE HistoryIsFound
  <2> SUFFICES ASSUME NEW written \in Written PROVE written[1] \in FindableRecordings
    BY Zenon DEF HistoryIsFound
  <2>1. written[1] \in Recordings
    BY <1>1, WrittenIsRecorded
  <2> QED BY <2>1, HistoriesAreFound DEF FindableRecordings
<1> QED BY <1>1, TripTypes, PTL

(* Their samples in motion are all kept, and of a standstill's the first   *)
(* ones and then one per spacing (thinStoppedSamples).                     *)
THEOREM StandstillsAreThinned == TripSpec => []StandstillIsThinned
<1>1. ASSUME TripTypeOK PROVE StandstillIsThinned
  <2> SUFFICES ASSUME NEW pair \in Recordings \X Extents PROVE Thinned(pair[1], pair[2])
    BY <1>1, WrittenIsRecorded, Zenon DEF StandstillIsThinned, ThinnedRecordings
  <2>1. pair[1] \in Recordings /\ pair[2] \in Extents
    OBVIOUS
  <2> QED BY <2>1, RecordingsAreThinned
<1> QED BY <1>1, TripTypes, PTL

(* The three together: what the processor writes is fit to learn from.     *)
THEOREM DatasetsAreSound == TripSpec => []SamplesAreSound
<1>1. InputsArePast /\ HistoryIsFound /\ StandstillIsThinned => SamplesAreSound
  BY DEF SamplesAreSound
<1> QED BY <1>1, DatasetsLookBack, DenseHistoriesAreFound, StandstillsAreThinned, PTL
=============================================================================
