----------------------------- MODULE TrainingQueue -----------------------------
(***************************************************************************)
(* The training jobs of the model server (TrainingManager in               *)
(* fsd_trainer/src/gta_fsd/training_runtime.py): calls that enqueue,       *)
(* cancel, stop and delete jobs while one worker thread takes them from    *)
(* the queue and trains each in a process of its own, the job.json of      *)
(* every job, and restarts of the server.                                  *)
(*                                                                         *)
(* All jobs are given one name, so that an id is free again when its job   *)
(* was deleted: id 1 is the name, id n the name with "-n".  A stamp tells  *)
(* apart the jobs an id has stood for, and orders them by creation.  The   *)
(* queue is the set of its entries, in the order of their stamps.  The     *)
(* lock of the manager is held inside an action only.                      *)
(***************************************************************************)
EXTENDS Integers, FiniteSets

CONSTANTS
  Limit,         \* _recent_limit: finished jobs that are kept
  MaxJobs,       \* bound: jobs created
  MaxFaults,     \* bound: file operations that fail
  MaxRestarts    \* bound: restarts of the server

ASSUME TrainingAssumption ==
  /\ Limit \in Nat /\ MaxFaults \in Nat /\ MaxRestarts \in Nat
  /\ MaxJobs \in Nat \ {0}

Ids == 1..MaxJobs
Stamps == 1..MaxJobs

VARIABLES
  jobs,           \* _jobs: the job of each id
  disk,           \* the directory of each id and the job.json in it
  queue,          \* _queue
  activeJob,      \* _active_job_id, 0 for None
  activeProcess,  \* _active_process: the stamp it was started for, 0 for None
  activeStop,     \* _active_stop_requested
  signal,         \* _signal
  pc,             \* where the worker thread stands
  pruned,         \* directories it is about to remove
  removing,       \* directories that calls of delete_job and clear_history will remove
  process,        \* the training process of each stamp
  terminating,    \* processes that a call of stop watches until its deadline
  created,        \* jobs created so far
  faults,         \* file operations that failed
  restarts        \* restarts so far

store   == <<jobs, disk, faults>>
active  == <<activeJob, activeProcess, activeStop>>
worker  == <<pc, pruned>>
outside == <<process, terminating>>
trainingVars == <<store, queue, active, signal, worker, removing, outside, created, restarts>>

Terminal == {"completed", "failed", "canceled", "stopped"}
Pending  == {"queued", "starting", "running"}

NoJob == [status |-> "none", stamp |-> 0, stopRequested |-> FALSE]
Torn  == [NoJob EXCEPT !.status = "unreadable"]   \* a directory without a valid job.json

Alive == {"running", "asked", "killed"}
Ended == {"ok", "error"}

Job(statuses) == [status : statuses, stamp : {0} \cup Stamps, stopRequested : BOOLEAN]

TrainingTypeOK ==
  /\ jobs \in [Ids -> Job({"none"} \cup Pending \cup Terminal)]
  /\ disk \in [Ids -> Job({"none", "unreadable"} \cup Pending \cup Terminal)]
  /\ queue \subseteq [id : Ids, stamp : Stamps]
  /\ activeJob \in {0} \cup Ids /\ activeProcess \in {0} \cup Stamps
  /\ activeStop \in BOOLEAN /\ signal \in BOOLEAN
  /\ pc \in {"wait", "poll", "begin", "launch", "register", "watch",
             "record", "except", "tidy", "release", "dead"}
  /\ pruned \subseteq Ids /\ removing \subseteq Ids
  /\ process \in [Stamps -> {"none"} \cup Alive \cup Ended]
  /\ terminating \subseteq Stamps
  /\ created \in 0..MaxJobs /\ faults \in 0..MaxFaults /\ restarts \in 0..MaxRestarts

TrainingInit ==
  /\ jobs = [id \in Ids |-> NoJob] /\ disk = jobs
  /\ queue = {}
  /\ activeJob = 0 /\ activeProcess = 0 /\ activeStop = FALSE
  /\ signal = FALSE
  /\ pc = "wait" /\ pruned = {}
  /\ removing = {}
  /\ process = [s \in Stamps |-> "none"] /\ terminating = {}
  /\ created = 0 /\ faults = 0 /\ restarts = 0

-----------------------------------------------------------------------------
(* The lock is held for a change of a job and for the write of its file.   *)
(* The write truncates the file first, so a failure may leave it invalid.  *)
Fault == faults < MaxFaults /\ faults' = faults + 1

Persist(id, job) ==
  /\ jobs' = [jobs EXCEPT ![id] = job]
  /\ disk' = [disk EXCEPT ![id] = job]
  /\ UNCHANGED faults

PersistFails(id, job, left) ==
  /\ Fault
  /\ jobs' = [jobs EXCEPT ![id] = job]
  /\ disk' \in {[disk EXCEPT ![id] = content] : content \in left}

(* The finished jobs beyond the limit, oldest first to go.                 *)
Finished(known) == {id \in Ids : known[id].status \in Terminal}

Removable(known) ==
  {id \in Finished(known) :
     Cardinality({other \in Finished(known) : known[other].stamp > known[id].stamp}) >= Limit}

Without(known, ids) == [id \in Ids |-> IF id \in ids THEN NoJob ELSE known[id]]

-----------------------------------------------------------------------------
(* The calls.  An id is free when no job has it and no directory is left.  *)
Free(id) == jobs[id] = NoJob /\ disk[id] = NoJob

NextNamed(id) == Free(id) /\ \A other \in 1..(id - 1) : ~Free(other)

(* enqueue, and requeue of a failed or stopped job: that one adds a copy   *)
(* of a job it read under the lock earlier, whatever became of it since.   *)
(* If the write fails the caller gets the error, the job stays in the      *)
(* queue, and the worker is not woken.                                     *)
Enqueue ==
  /\ created < MaxJobs /\ created' = created + 1
  /\ \E id \in Ids :
       LET job == [status |-> "queued", stamp |-> created + 1, stopRequested |-> FALSE]
       IN /\ NextNamed(id)
          /\ queue' = queue \cup {[id |-> id, stamp |-> created + 1]}
          /\ \/ Persist(id, job) /\ signal' = TRUE
             \/ PersistFails(id, job, {Torn}) /\ UNCHANGED signal
  /\ UNCHANGED <<active, worker, removing, outside, restarts>>

(* A fault to be caught: the file is not written.                          *)
CancelInMemory(id) ==
  /\ jobs[id].status = "queued"
  /\ queue' = {entry \in queue : entry.id # id}
  /\ jobs' = [jobs EXCEPT ![id].status = "canceled"]
  /\ UNCHANGED <<disk, faults, active, signal, worker, removing, outside, created, restarts>>

Cancel(id) ==
  /\ jobs[id].status = "queued"
  /\ queue' = {entry \in queue : entry.id # id}
  /\ LET job == [jobs[id] EXCEPT !.status = "canceled"]
     IN Persist(id, job) \/ PersistFails(id, job, {disk[id], Torn})
  /\ UNCHANGED <<active, signal, worker, removing, outside, created, restarts>>

(* terminate() of a process that runs; the call then watches it.           *)
Terminate(s) ==
  IF process[s] = "running" \/ process[s] = "asked"
  THEN /\ process' = [process EXCEPT ![s] = "asked"]
       /\ terminating' = terminating \cup {s}
  ELSE UNCHANGED outside

(* A fault to be caught: any job can be stopped while one is active.       *)
StopAny(id) ==
  /\ jobs[id] # NoJob /\ activeProcess # 0
  /\ activeStop' = TRUE
  /\ Persist(id, [jobs[id] EXCEPT !.stopRequested = TRUE])
  /\ Terminate(activeProcess)
  /\ UNCHANGED <<queue, activeJob, activeProcess, signal, worker, removing, created, restarts>>

Stop(id) ==
  /\ jobs[id] # NoJob /\ id = activeJob /\ activeProcess # 0
  /\ activeStop' = TRUE
  /\ LET job == [jobs[id] EXCEPT !.stopRequested = TRUE]
     IN \/ Persist(id, job) /\ Terminate(activeProcess)
        \/ PersistFails(id, job, {disk[id], Torn}) /\ UNCHANGED outside
  /\ UNCHANGED <<queue, activeJob, activeProcess, signal, worker, removing, created, restarts>>

(* The deadline of 3 s has passed and the process is still there.  A fault *)
(* to be caught: it is left alone.                                         *)
StopGivesUp(s) ==
  /\ s \in terminating /\ process[s] \in {"running", "asked"}
  /\ terminating' = terminating \ {s}
  /\ UNCHANGED <<store, queue, active, signal, worker, removing, process, created, restarts>>

StopKills(s) ==
  /\ s \in terminating /\ process[s] \in {"running", "asked"}
  /\ process' = [process EXCEPT ![s] = "killed"]
  /\ terminating' = terminating \ {s}
  /\ UNCHANGED <<store, queue, active, signal, worker, removing, created, restarts>>

StopSeesExit(s) ==
  /\ s \in terminating /\ process[s] \in Ended \cup {"killed"}
  /\ terminating' = terminating \ {s}
  /\ UNCHANGED <<store, queue, active, signal, worker, removing, process, created, restarts>>

(* delete_job of one job, clear_history of all that are finished: the      *)
(* directories go after the lock was released.                             *)
Delete(ids) ==
  /\ ids # {} /\ ids \subseteq Finished(jobs)
  /\ jobs' = Without(jobs, ids)
  /\ queue' = {entry \in queue : entry.id \notin ids}
  /\ removing' = removing \cup ids
  /\ UNCHANGED <<disk, faults, active, signal, worker, outside, created, restarts>>

(* rmtree ignores errors: what it cannot remove stays, with or without the *)
(* job.json.                                                               *)
RemoveTrees(ids) ==
  \/ /\ disk' = Without(disk, ids)
     /\ UNCHANGED faults
  \/ /\ Fault
     /\ \E id \in ids : \E content \in {disk[id], Torn} :
          disk' = [Without(disk, ids) EXCEPT ![id] = content]

DeleteEnds(id) ==
  /\ id \in removing
  /\ removing' = removing \ {id}
  /\ RemoveTrees({id})
  /\ UNCHANGED <<jobs, queue, active, signal, worker, outside, created, restarts>>

Calls ==
  \/ Enqueue
  \/ \E id \in Ids : Cancel(id) \/ Stop(id) \/ Delete({id}) \/ DeleteEnds(id)
  \/ Delete(Finished(jobs))

-----------------------------------------------------------------------------
(* The worker thread: _run_loop and _run_job.                              *)
WakeUp ==
  /\ pc = "wait" /\ signal
  /\ signal' = FALSE /\ pc' = "poll"
  /\ UNCHANGED <<store, queue, active, pruned, removing, outside, created, restarts>>

(* The first job of the queue that is still queued; those before it are    *)
(* dropped.                                                                *)
TakesJob(entry) ==
  /\ jobs[entry.id].status = "queued"
  /\ \A other \in queue : other.stamp < entry.stamp => jobs[other.id].status # "queued"

Poll ==
  /\ pc = "poll" /\ activeJob = 0
  /\ \/ \E entry \in queue :
          /\ TakesJob(entry)
          /\ activeJob' = entry.id /\ activeStop' = FALSE
          /\ queue' = {other \in queue \ {entry} : other.stamp >= entry.stamp}
          /\ pc' = "begin"
     \/ /\ \A entry \in queue : jobs[entry.id].status # "queued"
        /\ queue' = {} /\ pc' = "wait"
        /\ UNCHANGED <<activeJob, activeStop>>
  /\ UNCHANGED <<store, activeProcess, signal, pruned, removing, outside, created, restarts>>

(* The lock was released since: the job may be canceled, and it may be     *)
(* gone.  Nothing catches the KeyError, nor an error of the write.         *)
Begin ==
  /\ pc = "begin"
  /\ LET job == [jobs[activeJob] EXCEPT !.status = "starting", !.stopRequested = FALSE]
     IN \/ jobs[activeJob] = NoJob /\ pc' = "dead" /\ UNCHANGED store
        \/ jobs[activeJob] # NoJob /\ pc' = "launch" /\ Persist(activeJob, job)
        \/ /\ jobs[activeJob] # NoJob /\ pc' = "dead"
           /\ PersistFails(activeJob, job, {disk[activeJob], Torn})
  /\ UNCHANGED <<queue, active, signal, pruned, removing, outside, created, restarts>>

(* The derived configuration and Popen: either may raise.                  *)
Launch ==
  /\ pc = "launch"
  /\ \/ /\ process' = [process EXCEPT ![jobs[activeJob].stamp] = "running"]
        /\ pc' = "register"
     \/ pc' = "except" /\ UNCHANGED process
  /\ UNCHANGED <<store, queue, active, signal, pruned, removing, terminating, created, restarts>>

Register ==
  /\ pc = "register"
  /\ activeProcess' = jobs[activeJob].stamp
  /\ LET job == [jobs[activeJob] EXCEPT !.status = "running"]
     IN \/ Persist(activeJob, job) /\ pc' = "watch"
        \/ PersistFails(activeJob, job, {disk[activeJob], Torn}) /\ pc' = "except"
  /\ UNCHANGED <<queue, activeJob, activeStop, signal, pruned, removing, outside, created, restarts>>

(* The log is opened, then the worker waits for the process.               *)
Watch ==
  /\ pc = "watch"
  /\ \/ process[activeProcess] \in Ended /\ pc' = "record" /\ UNCHANGED faults
     \/ Fault /\ pc' = "except"
  /\ UNCHANGED <<jobs, disk, queue, active, signal, pruned, removing, outside, created, restarts>>

(* The job ends with a status, is written, and the history is pruned; an   *)
(* error of the write takes the worker to the pc named last.               *)
Finish(status, onError) ==
  LET job   == [jobs[activeJob] EXCEPT !.status = status]
      known == [jobs EXCEPT ![activeJob] = job]
  IN \/ /\ jobs' = Without(known, Removable(known))
        /\ disk' = [disk EXCEPT ![activeJob] = job]
        /\ pruned' = Removable(known)
        /\ pc' = "tidy"
        /\ UNCHANGED faults
     \/ /\ PersistFails(activeJob, job, {disk[activeJob], Torn})
        /\ pc' = onError
        /\ UNCHANGED pruned

Record ==
  /\ pc = "record"
  /\ Finish(IF activeStop THEN "stopped"
            ELSE IF process[activeProcess] = "ok" THEN "completed" ELSE "failed", "except")
  /\ UNCHANGED <<queue, active, signal, removing, outside, created, restarts>>

(* The handler of errors.  When its own write fails, or the job whose      *)
(* result could not be written was deleted since, the finally clause meets *)
(* an unbound pruned_dirs before it releases the active job.               *)
Except ==
  /\ pc = "except"
  /\ \/ /\ jobs[activeJob] # NoJob
        /\ Finish(IF activeStop THEN "stopped" ELSE "failed", "dead")
     \/ jobs[activeJob] = NoJob /\ pc' = "dead" /\ UNCHANGED <<store, pruned>>
  /\ UNCHANGED <<queue, active, signal, removing, outside, created, restarts>>

Tidy ==
  /\ pc = "tidy" /\ pc' = "release"
  /\ pruned' = {}
  /\ RemoveTrees(pruned)
  /\ UNCHANGED <<jobs, queue, active, signal, removing, outside, created, restarts>>

(* A fault to be caught: the worker goes to sleep and leaves the queue.    *)
ReleaseToWait ==
  /\ pc = "release" /\ pc' = "wait"
  /\ activeJob' = 0 /\ activeProcess' = 0 /\ activeStop' = FALSE
  /\ UNCHANGED <<store, queue, signal, pruned, removing, outside, created, restarts>>

Release ==
  /\ pc = "release" /\ pc' = "poll"
  /\ activeJob' = 0 /\ activeProcess' = 0 /\ activeStop' = FALSE
  /\ signal' = TRUE
  /\ UNCHANGED <<store, queue, pruned, removing, outside, created, restarts>>

Worker ==
  \/ WakeUp \/ Poll \/ Begin \/ Launch \/ Register \/ Watch
  \/ Record \/ Except \/ Tidy \/ Release

-----------------------------------------------------------------------------
(* A training process ends by itself, or because it was asked or killed; a *)
(* killed one has failed.                                                  *)
ProcessEnds(s) ==
  /\ process[s] \in Alive
  /\ \E code \in Ended :
       /\ process[s] = "killed" => code = "error"
       /\ process' = [process EXCEPT ![s] = code]
  /\ UNCHANGED <<store, queue, active, signal, worker, removing, terminating, created, restarts>>

(* A fault to be caught: jobs are loaded as they were left.                *)
LoadedAsLeft(job) == IF job.status = "unreadable" THEN NoJob ELSE job

(* The server dies between two steps and is started again: it knows what   *)
(* it can read, marks as failed what had not ended, and prunes.  Processes *)
(* it had started live on.                                                 *)
Loaded(job) ==
  CASE job.status \in {"none", "unreadable"} -> NoJob
    [] job.status \in Terminal               -> job
    [] job.status \in Pending                -> [job EXCEPT !.status = "failed"]

Restart ==
  /\ restarts < MaxRestarts /\ restarts' = restarts + 1
  /\ LET known == [id \in Ids |-> Loaded(disk[id])]
         kept  == [id \in Ids |-> IF known[id] = NoJob THEN disk[id] ELSE known[id]]
     IN /\ jobs' = Without(known, Removable(known))
        /\ disk' = Without(kept, Removable(known))
  /\ queue' = {} /\ signal' = FALSE
  /\ activeJob' = 0 /\ activeProcess' = 0 /\ activeStop' = FALSE
  /\ pc' = "wait" /\ pruned' = {} /\ removing' = {} /\ terminating' = {}
  /\ UNCHANGED <<process, created, faults>>

StopCalls == \E s \in Stamps : StopKills(s) \/ StopSeesExit(s)

TrainingNext ==
  \/ Calls \/ StopCalls \/ Worker \/ Restart
  \/ \E s \in Stamps : ProcessEnds(s)

TrainingSpec == TrainingInit /\ [][TrainingNext]_trainingVars

(* The worker thread and the loop of a stop go on, and a killed process    *)
(* ends; one that was only asked to end need not.                          *)
FairTrainingSpec ==
  /\ TrainingSpec
  /\ WF_trainingVars(Worker)
  /\ \A s \in Stamps :
       /\ WF_trainingVars(StopKills(s) \/ StopSeesExit(s))
       /\ WF_trainingVars(process[s] = "killed" /\ ProcessEnds(s))
-----------------------------------------------------------------------------
(* What the manager promises.                                              *)

(* A queued job can be reached: it is in the queue, or the worker is about *)
(* to begin it; a job that is starting or running is the active one.  A    *)
(* job for which this fails would neither run, nor be stopped, nor be      *)
(* deleted (_run_loop, cancel, delete_job, _load_existing_jobs).           *)
JobsAreReachable ==
  \A id \in Ids :
    /\ jobs[id].status = "queued" => \/ (\E entry \in queue : entry.id = id)
                                   \/ (id = activeJob /\ pc = "begin")
    /\ jobs[id].status \in {"starting", "running"} => id = activeJob

(* A job that is known has its directory: the removal of a deleted job's   *)
(* files, which runs without the lock, never takes those of a later job of *)
(* the same name (_next_named_job_id_locked, delete_job).                  *)
FilesOfKnownJobs == \A id \in Ids : jobs[id] # NoJob => disk[id] # NoJob

(* Together: no known job is out of reach or without its files.            *)
JobsAreKept == JobsAreReachable /\ FilesOfKnownJobs

(* Only a job that someone asked to stop ends as stopped: a stop never     *)
(* hits the job before or after the one it names (stop, _run_job).  After  *)
(* a file failed the handler of errors may meet another job of that id.    *)
StoppedOnRequest ==
  faults = 0 => \A id \in Ids : jobs[id].status = "stopped" => jobs[id].stopRequested

(* As long as no file operation failed, a restart keeps the result of a    *)
(* finished job, and loses the job only to as many newer ones as the       *)
(* history holds: what the list showed is what was written (_persist_job,  *)
(* _load_existing_jobs).                                                   *)
RestartKeepsResults ==
  [][restarts' # restarts /\ faults = 0 =>
       \A id \in Finished(jobs) :
         \/ jobs'[id] = jobs[id]
         \/ /\ jobs'[id] = NoJob
            /\ Cardinality({other \in Ids : jobs'[other].stamp > jobs[id].stamp}) >= Limit]_trainingVars

(* A stop that was accepted ends the process, even one that ignores the    *)
(* request, and then the job, unless the worker died or the server was     *)
(* restarted (stop, _run_job).                                             *)
StopEndsJob ==
  \A s \in Stamps :
    s \in terminating ~>
      \/ /\ process[s] \in Ended
         /\ \A id \in Ids : jobs[id].stamp = s => jobs[id].status \in Terminal
      \/ pc = "dead" \/ restarts > 0

(* If every training ends, a queued job is started or canceled in the end, *)
(* unless the worker died or a file failed (enqueue, _run_loop).           *)
QueueDrains ==
  (\A s \in Stamps : []<>(process[s] \notin Alive)) =>
    \A id \in Ids : jobs[id].status = "queued" ~>
      jobs[id].status # "queued" \/ pc = "dead" \/ faults > 0

(* A canceled job is never started: a cancel that succeeded is final       *)
(* (cancel, and the message app.ts shows for it).                          *)
CanceledNeverStarts ==
  [][\A id \in Ids : jobs[id].status = "canceled" => jobs'[id].status # "starting"]_trainingVars
=============================================================================
