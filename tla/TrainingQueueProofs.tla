-------------------------- MODULE TrainingQueueProofs --------------------------
(***************************************************************************)
(* The safety of the training queue for any number of jobs, of failing     *)
(* file operations and of restarts, and any length of the history.         *)
(***************************************************************************)
EXTENDS TrainingQueue, FiniteSetTheorems, WellFoundedInduction, TLAPS

InMemory == Job({"none"} \cup Pending \cup Terminal)
OnDisk   == Job({"none", "unreadable"} \cup Pending \cup Terminal)

(* A job that is known, or can be read, has its stamp.                     *)
JobsAreStamped ==
  \A id \in Ids :
    /\ jobs[id].status # "none" => jobs[id].stamp \in Stamps
    /\ jobs[id].status = "none" => jobs[id] = NoJob
    /\ disk[id].status \notin {"none", "unreadable"} => disk[id].stamp \in Stamps
    /\ disk[id].status = "none" => disk[id] = NoJob

(* Directories that are about to go are still there, and no job has them.  *)
GoingAreUnknown ==
  /\ \A id \in removing \cup pruned : jobs[id] = NoJob /\ disk[id] # NoJob
  /\ removing \cap pruned = {}
  /\ pruned # {} => pc = "tidy"

(* What the worker has in hand at each step.                               *)
Training == {"launch", "register", "watch", "record"}

WorkerHasJob ==
  /\ pc \in {"wait", "poll"} => activeJob = 0
  /\ pc \notin {"wait", "poll"} => activeJob \in Ids
  /\ pc \in Training => jobs[activeJob].status \in {"starting", "running"}
  /\ pc \in {"watch", "record"} => activeProcess \in Stamps
  /\ pc \in {"wait", "poll", "begin", "launch", "register"} => activeProcess = 0

(* Where queued, starting and running jobs are found.                      *)
WhereJobsAre ==
  \A id \in Ids :
    /\ jobs[id].status = "queued" =>
         (\E entry \in queue : entry.id = id) \/ (id = activeJob /\ pc = "begin")
    /\ jobs[id].status \in {"starting", "running"} =>
         id = activeJob /\ pc \in Training \cup {"except", "dead"}

(* As long as no file failed: the stop flag is that of the active job, and *)
(* what is written of a stopped job says that it was asked to.             *)
StopFlag ==
  faults = 0 =>
    /\ pc \in Training \cup {"except"} =>
         /\ jobs[activeJob].status \in {"starting", "running"}
         /\ activeStop => jobs[activeJob].stopRequested
    /\ pc = "begin" => ~activeStop
    /\ \A id \in Ids : /\ jobs[id].status = "stopped" => jobs[id].stopRequested
                       /\ disk[id].status = "stopped" => disk[id].stopRequested

(* The inductive invariant.                                                *)
TrainingInv ==
  /\ TrainingTypeOK /\ JobsAreStamped /\ FilesOfKnownJobs
  /\ GoingAreUnknown /\ WorkerHasJob /\ WhereJobsAre /\ StopFlag

-----------------------------------------------------------------------------
(* What the operators on the store do to one job and to the others.        *)

(* The write of a job, which may fail and leave something else on disk.    *)
Writes(id, job, left) ==
  /\ jobs' \in [Ids -> InMemory] /\ disk' \in [Ids -> OnDisk]
  /\ jobs'[id] = job /\ disk'[id] \in {job} \cup left
  /\ \A other \in Ids : other # id => jobs'[other] = jobs[other] /\ disk'[other] = disk[other]
  /\ faults' \in 0..MaxFaults
  /\ faults' = 0 => faults = 0 /\ disk'[id] = job

LEMMA PersistWrites ==
  ASSUME TrainingTypeOK, NEW id \in Ids, NEW job \in InMemory, NEW left,
         left \subseteq {disk[id], Torn},
         Persist(id, job) \/ PersistFails(id, job, left)
  PROVE  Writes(id, job, left)
<1>1. jobs \in [Ids -> InMemory] /\ disk \in [Ids -> OnDisk] /\ faults \in 0..MaxFaults
  BY DEF TrainingTypeOK, InMemory, OnDisk
<1>2. job \in OnDisk /\ Torn \in OnDisk /\ disk[id] \in OnDisk
  BY <1>1 DEF InMemory, OnDisk, Job, Torn, NoJob
<1>3. CASE Persist(id, job)
  BY <1>1, <1>2, <1>3 DEF Persist, Writes
<1>4. CASE PersistFails(id, job, left)
  <2>1. PICK content \in left : disk' = [disk EXCEPT ![id] = content]
    BY <1>4 DEF PersistFails
  <2>2. content \in OnDisk
    BY <1>2
  <2>3. faults' \in 1..MaxFaults
    BY <1>1, <1>4, TrainingAssumption DEF PersistFails, Fault
  <2> QED BY <1>1, <1>4, <2>1, <2>2, <2>3 DEF PersistFails, Writes
<1> QED BY <1>3, <1>4

(* The removal of directories, which may leave them, with or without their *)
(* file.                                                                   *)
Removes(ids) ==
  /\ disk' \in [Ids -> OnDisk]
  /\ \A id \in Ids : IF id \in ids THEN disk'[id] \in {NoJob, Torn, disk[id]}
                                   ELSE disk'[id] = disk[id]
  /\ faults' \in 0..MaxFaults
  /\ faults' = 0 => faults = 0

LEMMA RemoveTreesRemoves ==
  ASSUME TrainingTypeOK, NEW ids \in SUBSET Ids, RemoveTrees(ids)
  PROVE  Removes(ids)
<1>1. disk \in [Ids -> OnDisk] /\ faults \in 0..MaxFaults
  BY DEF TrainingTypeOK, OnDisk
<1>2. NoJob \in OnDisk /\ Torn \in OnDisk
  BY TrainingAssumption DEF OnDisk, Job, Torn, NoJob
<1>3. Without(disk, ids) \in [Ids -> OnDisk]
  BY <1>1, <1>2 DEF Without
<1>4. CASE disk' = Without(disk, ids) /\ UNCHANGED faults
  BY <1>1, <1>3, <1>4 DEF Removes, Without
<1>5. ASSUME Fault, NEW id \in ids, NEW content \in {disk[id], Torn},
             disk' = [Without(disk, ids) EXCEPT ![id] = content]
      PROVE  Removes(ids)
  <2>1. faults' \in 1..MaxFaults
    BY <1>1, <1>5, TrainingAssumption DEF Fault
  <2>2. content \in OnDisk
    BY <1>1, <1>2
  <2> QED BY <1>1, <1>3, <1>5, <2>1, <2>2 DEF Removes, Without
<1> QED BY <1>4, <1>5 DEF RemoveTrees

(* A job with another status.                                              *)
LEMMA StatusChanges ==
  ASSUME NEW job \in InMemory, NEW status \in Pending \cup Terminal
  PROVE  /\ [job EXCEPT !.status = status] \in InMemory
         /\ [job EXCEPT !.status = status].status = status
         /\ [job EXCEPT !.status = status].stamp = job.stamp
         /\ [job EXCEPT !.status = status].stopRequested = job.stopRequested
BY DEF InMemory, Job

(* The end of the active job: it is written, and forgotten if it is among  *)
(* those that are pruned.                                                  *)
Ends(job, onError) ==
  /\ jobs' \in [Ids -> InMemory] /\ disk' \in [Ids -> OnDisk]
  /\ pruned' \subseteq Ids
  /\ \A id \in pruned' : jobs'[id] = NoJob /\ (id = activeJob \/ jobs[id].status \in Terminal)
  /\ \A id \in Ids \ pruned' : jobs'[id] = IF id = activeJob THEN job ELSE jobs[id]
  /\ \A id \in Ids : id # activeJob => disk'[id] = disk[id]
  /\ disk'[activeJob] \in {job, disk[activeJob], Torn}
  /\ pc' \in {"tidy", onError} /\ (pruned' # {} => pc' = "tidy")
  /\ faults' \in 0..MaxFaults
  /\ faults' = 0 => faults = 0 /\ pc' = "tidy" /\ disk'[activeJob] = job

LEMMA FinishEnds ==
  ASSUME TrainingTypeOK, activeJob \in Ids, pruned = {},
         NEW status \in Terminal, NEW onError, Finish(status, onError)
  PROVE  Ends([jobs[activeJob] EXCEPT !.status = status], onError)
<1> DEFINE job == [jobs[activeJob] EXCEPT !.status = status]
           known == [jobs EXCEPT ![activeJob] = job]
<1>1. jobs \in [Ids -> InMemory] /\ disk \in [Ids -> OnDisk] /\ faults \in 0..MaxFaults
  BY DEF TrainingTypeOK, InMemory, OnDisk
<1>2. job \in InMemory /\ job.status = status
  BY <1>1, StatusChanges
<1>3. CASE PersistFails(activeJob, job, {disk[activeJob], Torn}) /\ pc' = onError /\ UNCHANGED pruned
  <2>1. Writes(activeJob, job, {disk[activeJob], Torn})
    BY <1>2, <1>3, PersistWrites
  <2>2. faults' # 0
    BY <1>1, <1>3, TrainingAssumption DEF PersistFails, Fault
  <2> QED BY <1>3, <2>1, <2>2 DEF Writes, Ends
<1>4. CASE /\ jobs' = Without(known, Removable(known))
           /\ disk' = [disk EXCEPT ![activeJob] = job]
           /\ pruned' = Removable(known) /\ pc' = "tidy" /\ UNCHANGED faults
  <2>1. NoJob \in InMemory /\ job \in OnDisk
    BY <1>2, TrainingAssumption DEF InMemory, OnDisk, Job, NoJob
  <2>2. known \in [Ids -> InMemory]
    BY <1>1, <1>2
  <2>3. \A id \in Removable(known) : id \in Ids /\ known[id].status \in Terminal
    BY DEF Removable, Finished
  <2>4. \A id \in pruned' : id = activeJob \/ jobs[id].status \in Terminal
    BY <1>1, <1>4, <2>3
  <2>5. jobs' \in [Ids -> InMemory] /\ disk' \in [Ids -> OnDisk] /\ pruned' \subseteq Ids
    <3> HIDE DEF known, job
    <3> QED BY <1>1, <1>4, <2>1, <2>2, <2>3 DEF Without
  <2>6. \A id \in Ids : jobs'[id] = IF id \in pruned' THEN NoJob ELSE known[id]
    <3> HIDE DEF known
    <3> QED BY <1>4 DEF Without
  <2>7. \A id \in Ids : known[id] = IF id = activeJob THEN job ELSE jobs[id]
    BY <1>1
  <2>8. /\ \A id \in Ids : id # activeJob => disk'[id] = disk[id]
        /\ disk'[activeJob] = job
    BY <1>1, <1>4
  <2> SUFFICES Ends(job, onError)
    OBVIOUS
  <2> HIDE DEF known, job
  <2> QED BY <1>1, <1>4, <2>4, <2>5, <2>6, <2>7, <2>8 DEF Ends
<1> QED BY <1>3, <1>4 DEF Finish

-----------------------------------------------------------------------------
(* The first state satisfies the invariant.                                *)
LEMMA TrainingInvInit == TrainingInit => TrainingInv
<1> SUFFICES ASSUME TrainingInit PROVE TrainingInv
  OBVIOUS
<1>1. TrainingTypeOK
  <2>1. NoJob \in InMemory /\ NoJob \in OnDisk
    BY TrainingAssumption DEF InMemory, OnDisk, Job, NoJob
  <2>2. jobs \in [Ids -> InMemory] /\ disk \in [Ids -> OnDisk]
    BY <2>1 DEF TrainingInit
  <2>3. created \in 0..MaxJobs /\ faults \in 0..MaxFaults /\ restarts \in 0..MaxRestarts
    BY TrainingAssumption DEF TrainingInit
  <2> QED BY <2>2, <2>3 DEF TrainingInit, TrainingTypeOK, InMemory, OnDisk
<1>2. JobsAreStamped /\ FilesOfKnownJobs
  BY DEF TrainingInit, JobsAreStamped, FilesOfKnownJobs, NoJob
<1>3. GoingAreUnknown /\ WorkerHasJob /\ WhereJobsAre /\ StopFlag
  BY DEF TrainingInit, GoingAreUnknown, WorkerHasJob, WhereJobsAre, StopFlag, Training, NoJob
<1> QED BY <1>1, <1>2, <1>3 DEF TrainingInv

(* The calls keep it: enqueue takes an id that nothing is left of, ...     *)
LEMMA EnqueueKeepsInv ==
  ASSUME TrainingInv, Enqueue
  PROVE  TrainingInv'
<1> USE DEF store, active, worker, outside
<1> DEFINE job == [status |-> "queued", stamp |-> created + 1, stopRequested |-> FALSE]
<1>1. PICK id \in Ids :
        /\ NextNamed(id)
        /\ queue' = queue \cup {[id |-> id, stamp |-> created + 1]}
        /\ \/ Persist(id, job) /\ signal' = TRUE
           \/ PersistFails(id, job, {Torn}) /\ UNCHANGED signal
  BY DEF Enqueue
<1>2. created + 1 \in Stamps /\ created' \in 0..MaxJobs
  BY TrainingAssumption DEF Enqueue, TrainingInv, TrainingTypeOK, Stamps
<1>3. job \in InMemory /\ job.status = "queued" /\ job # NoJob /\ Torn # NoJob
  BY <1>2 DEF InMemory, Job, Pending, NoJob, Torn
<1>4. Writes(id, job, {Torn})
  BY <1>1, <1>3, PersistWrites DEF TrainingInv
<1>5. jobs[id] = NoJob /\ disk[id] = NoJob
  BY <1>1 DEF NextNamed, Free
<1>6. signal' \in BOOLEAN
  BY <1>1 DEF TrainingInv, TrainingTypeOK
<1>7. /\ job.stamp \in Stamps /\ Torn.status = "unreadable" /\ NoJob.status = "none"
  BY <1>2 DEF Torn, NoJob
<1> HIDE DEF job
<1>8. TrainingTypeOK'
  <2>1. queue' \subseteq [id : Ids, stamp : Stamps]
    BY <1>1, <1>2 DEF TrainingInv, TrainingTypeOK
  <2> QED BY <1>2, <1>4, <1>6, <2>1
         DEF Enqueue, Writes, TrainingInv, TrainingTypeOK, InMemory, OnDisk
<1>9. JobsAreStamped'
  BY <1>3, <1>4, <1>7 DEF Writes, TrainingInv, JobsAreStamped
<1>10. FilesOfKnownJobs'
  BY <1>3, <1>4 DEF Writes, TrainingInv, FilesOfKnownJobs
<1>11. GoingAreUnknown'
  BY <1>4, <1>5 DEF Enqueue, Writes, TrainingInv, TrainingTypeOK, GoingAreUnknown
<1>12. WorkerHasJob'
  BY <1>4, <1>5, <1>7 DEF Enqueue, Writes, TrainingInv, WorkerHasJob, Training
<1>13. WhereJobsAre'
  <2>1. /\ queue \subseteq queue'
        /\ \E entry \in queue' : entry.id = id
    <3>1. [id |-> id, stamp |-> created + 1].id = id
      OBVIOUS
    <3> QED BY <1>1, <3>1
  <2> QED BY <1>3, <1>4, <2>1 DEF Enqueue, Writes, TrainingInv, WhereJobsAre
<1>14. StopFlag'
  BY <1>3, <1>4, <1>5, <1>7 DEF Enqueue, Writes, TrainingInv, WorkerHasJob, StopFlag, Training
<1> QED BY <1>8, <1>9, <1>10, <1>11, <1>12, <1>13, <1>14 DEF TrainingInv

(* ... cancel takes the job from the queue, ...                            *)
LEMMA CancelKeepsInv ==
  ASSUME TrainingInv, NEW id \in Ids, Cancel(id)
  PROVE  TrainingInv'
<1> USE DEF store, active, worker, outside
<1> DEFINE job == [jobs[id] EXCEPT !.status = "canceled"]
<1>1. jobs[id] \in InMemory /\ jobs[id].status = "queued" /\ jobs[id] # NoJob
  <2>1. NoJob.status = "none" /\ jobs[id].status = "queued"
    BY DEF Cancel, NoJob
  <2>2. jobs[id] \in InMemory
    BY DEF TrainingInv, TrainingTypeOK, InMemory
  <2> QED BY <2>1, <2>2
<1>2. /\ job \in InMemory /\ job.status = "canceled"
      /\ job.stamp = jobs[id].stamp /\ job # NoJob
  BY <1>1, StatusChanges DEF Terminal, NoJob
<1>3. Writes(id, job, {disk[id], Torn})
  BY <1>2, PersistWrites DEF Cancel, TrainingInv
<1>4. Torn.status = "unreadable" /\ NoJob.status = "none"
  BY DEF Torn, NoJob
<1> HIDE DEF job
<1>5. TrainingTypeOK'
  BY <1>3 DEF Cancel, Writes, TrainingInv, TrainingTypeOK, InMemory, OnDisk
<1>6. JobsAreStamped'
  BY <1>1, <1>2, <1>3, <1>4 DEF Writes, TrainingInv, JobsAreStamped
<1>7. FilesOfKnownJobs'
  BY <1>1, <1>2, <1>3, <1>4 DEF Writes, TrainingInv, FilesOfKnownJobs
<1>8. GoingAreUnknown'
  BY <1>1, <1>3 DEF Cancel, Writes, TrainingInv, TrainingTypeOK, GoingAreUnknown
<1>9. WorkerHasJob'
  BY <1>1, <1>3 DEF Cancel, Writes, TrainingInv, WorkerHasJob, Training
<1>10. WhereJobsAre'
  BY <1>2, <1>3 DEF Cancel, Writes, TrainingInv, WhereJobsAre
<1>11. StopFlag'
  BY <1>1, <1>2, <1>3, <1>4 DEF Cancel, Writes, TrainingInv, WorkerHasJob, StopFlag, Training
<1> QED BY <1>5, <1>6, <1>7, <1>8, <1>9, <1>10, <1>11 DEF TrainingInv

(* ... stop flags the active job and nothing else, ...                     *)
LEMMA StopKeepsInv ==
  ASSUME TrainingInv, NEW id \in Ids, Stop(id)
  PROVE  TrainingInv'
<1> USE DEF store, active, worker, outside
<1> DEFINE job == [jobs[id] EXCEPT !.stopRequested = TRUE]
<1>1. jobs[id] \in InMemory /\ jobs[id] # NoJob /\ id = activeJob /\ activeProcess # 0
  BY DEF Stop, TrainingInv, TrainingTypeOK, InMemory
<1>2. /\ job \in InMemory /\ job.status = jobs[id].status
      /\ job.stamp = jobs[id].stamp /\ job.stopRequested /\ job # NoJob
  BY <1>1 DEF InMemory, Job, NoJob
<1>3. Writes(id, job, {disk[id], Torn})
  BY <1>2, PersistWrites DEF Stop, TrainingInv
<1>4. Torn.status = "unreadable" /\ NoJob.status = "none"
  BY DEF Torn, NoJob
<1>5. process' \in [Stamps -> {"none"} \cup Alive \cup Ended] /\ terminating' \subseteq Stamps
  <2>1. activeProcess \in Stamps
    BY <1>1 DEF TrainingInv, TrainingTypeOK
  <2> QED BY <2>1 DEF Stop, Terminate, TrainingInv, TrainingTypeOK, Alive
<1>6. activeStop' /\ UNCHANGED <<queue, activeJob, activeProcess, signal, worker, removing, created, restarts>>
  BY DEF Stop
<1> HIDE DEF job
<1>7. TrainingTypeOK'
  BY <1>3, <1>5, <1>6 DEF Stop, Writes, TrainingInv, TrainingTypeOK, InMemory, OnDisk
<1>8. JobsAreStamped'
  BY <1>1, <1>2, <1>3, <1>4 DEF Writes, TrainingInv, JobsAreStamped
<1>9. FilesOfKnownJobs'
  BY <1>1, <1>2, <1>3, <1>4 DEF Writes, TrainingInv, FilesOfKnownJobs
<1>10. GoingAreUnknown'
  BY <1>1, <1>3, <1>6 DEF Writes, TrainingInv, TrainingTypeOK, GoingAreUnknown
<1>11. WorkerHasJob'
  BY <1>1, <1>2, <1>3, <1>6 DEF Writes, TrainingInv, WorkerHasJob, Training
<1>12. WhereJobsAre'
  BY <1>2, <1>3, <1>6 DEF Writes, TrainingInv, WhereJobsAre
<1>13. StopFlag'
  BY <1>1, <1>2, <1>3, <1>6 DEF Writes, TrainingInv, StopFlag, WorkerHasJob, Training
<1> QED BY <1>7, <1>8, <1>9, <1>10, <1>11, <1>12, <1>13 DEF TrainingInv

(* ... and only the process is concerned by the end of the call, or when a *)
(* training ends.                                                          *)
LEMMA ProcessKeepsInv ==
  ASSUME TrainingInv, NEW s \in Stamps, StopKills(s) \/ StopSeesExit(s) \/ ProcessEnds(s)
  PROVE  TrainingInv'
<1> USE DEF store, active, worker
<1>1. /\ UNCHANGED <<store, queue, active, signal, worker, removing, created, restarts>>
      /\ process' \in [Stamps -> {"none"} \cup Alive \cup Ended] /\ terminating' \subseteq Stamps
  BY DEF StopKills, StopSeesExit, ProcessEnds, TrainingInv, TrainingTypeOK, Alive
<1>2. TrainingTypeOK'
  BY <1>1 DEF TrainingInv, TrainingTypeOK
<1>3. JobsAreStamped' /\ FilesOfKnownJobs'
  BY <1>1 DEF TrainingInv, JobsAreStamped, FilesOfKnownJobs
<1>4. GoingAreUnknown' /\ WorkerHasJob'
  BY <1>1 DEF TrainingInv, GoingAreUnknown, WorkerHasJob
<1>5. WhereJobsAre' /\ StopFlag'
  BY <1>1 DEF TrainingInv, WhereJobsAre, StopFlag
<1> QED BY <1>2, <1>3, <1>4, <1>5 DEF TrainingInv

(* What is deleted was known, so its directory is not yet about to go.     *)
LEMMA DeleteKeepsInv ==
  ASSUME TrainingInv, NEW ids, Delete(ids)
  PROVE  TrainingInv'
<1> USE DEF store, active, worker, outside
<1>1. ids \subseteq Ids /\ \A id \in ids : jobs[id].status \in Terminal /\ jobs[id] # NoJob
  BY DEF Delete, Finished, Terminal, NoJob
<1>2. NoJob \in InMemory /\ NoJob.status = "none"
  BY TrainingAssumption DEF InMemory, Job, NoJob
<1>3. /\ jobs' \in [Ids -> InMemory]
      /\ \A id \in Ids : jobs'[id] = IF id \in ids THEN NoJob ELSE jobs[id]
  BY <1>2 DEF Delete, Without, TrainingInv, TrainingTypeOK, InMemory
<1>4. /\ queue' = {entry \in queue : entry.id \notin ids} /\ removing' = removing \cup ids
      /\ UNCHANGED <<disk, faults, active, signal, worker, outside, created, restarts>>
  BY DEF Delete
<1>5. TrainingTypeOK'
  BY <1>1, <1>3, <1>4 DEF TrainingInv, TrainingTypeOK, InMemory
<1>6. JobsAreStamped' /\ FilesOfKnownJobs'
  BY <1>2, <1>3, <1>4 DEF TrainingInv, JobsAreStamped, FilesOfKnownJobs
<1>7. GoingAreUnknown'
  <2>1. \A id \in ids : disk[id] # NoJob /\ id \notin pruned
    BY <1>1 DEF TrainingInv, FilesOfKnownJobs, GoingAreUnknown
  <2>2. removing \cup pruned \subseteq Ids
    BY DEF TrainingInv, TrainingTypeOK
  <2> QED BY <1>1, <1>3, <1>4, <2>1, <2>2 DEF TrainingInv, GoingAreUnknown
<1>8. WorkerHasJob'
  BY <1>1, <1>3, <1>4 DEF TrainingInv, WorkerHasJob, Training, Terminal
<1>9. WhereJobsAre'
  BY <1>2, <1>3, <1>4 DEF TrainingInv, WhereJobsAre
<1>10. StopFlag'
  BY <1>1, <1>2, <1>3, <1>4 DEF TrainingInv, WorkerHasJob, StopFlag, Training, Terminal
<1> QED BY <1>5, <1>6, <1>7, <1>8, <1>9, <1>10 DEF TrainingInv

(* What goes from the disk is known to no one.                             *)
LEMMA RemovalKeepsInv ==
  ASSUME TrainingInv, NEW ids \in SUBSET Ids, Removes(ids),
         UNCHANGED <<jobs, queue, active, signal, outside, created, restarts>>,
         \/ ids \subseteq removing /\ removing' = removing \ ids /\ UNCHANGED worker
         \/ /\ ids = pruned /\ pruned' = {} /\ UNCHANGED removing
            /\ pc = "tidy" /\ pc' = "release"
  PROVE  TrainingInv'
<1> USE DEF active, worker, outside
<1>1. NoJob.status = "none" /\ Torn.status = "unreadable"
  BY DEF NoJob, Torn
<1>2. \A id \in ids : jobs[id] = NoJob
  BY DEF TrainingInv, GoingAreUnknown
<1>3. TrainingTypeOK'
  <2>1. /\ UNCHANGED jobs /\ disk' \in [Ids -> OnDisk] /\ faults' \in 0..MaxFaults
    BY DEF Removes
  <2>2. /\ removing' \subseteq Ids /\ pruned' \subseteq Ids
        /\ pc' = pc \/ pc' = "release"
    BY DEF TrainingInv, TrainingTypeOK
  <2> QED BY <2>1, <2>2 DEF TrainingInv, TrainingTypeOK, OnDisk
<1>4. JobsAreStamped' /\ FilesOfKnownJobs'
  BY <1>1, <1>2 DEF Removes, TrainingInv, JobsAreStamped, FilesOfKnownJobs
<1>5. GoingAreUnknown'
  BY DEF Removes, TrainingInv, TrainingTypeOK, GoingAreUnknown
<1>6. WorkerHasJob' /\ WhereJobsAre'
  BY DEF TrainingInv, WorkerHasJob, WhereJobsAre, Training
<1>7. StopFlag'
  BY <1>1 DEF Removes, TrainingInv, StopFlag, Training
<1> QED BY <1>3, <1>4, <1>5, <1>6, <1>7 DEF TrainingInv

-----------------------------------------------------------------------------
(* The steps of the worker keep it.  It wakes up and takes a job, ...      *)
LEMMA PollKeepsInv ==
  ASSUME TrainingInv, WakeUp \/ Poll
  PROVE  TrainingInv'
<1> USE DEF store, active, worker, outside
<1>1. CASE WakeUp
  <2>1. TrainingTypeOK' /\ JobsAreStamped' /\ FilesOfKnownJobs' /\ GoingAreUnknown'
    BY <1>1 DEF WakeUp, TrainingInv, TrainingTypeOK, JobsAreStamped, FilesOfKnownJobs, GoingAreUnknown
  <2>2. WorkerHasJob' /\ WhereJobsAre' /\ StopFlag'
    BY <1>1 DEF WakeUp, TrainingInv, WorkerHasJob, WhereJobsAre, StopFlag, Training
  <2> QED BY <2>1, <2>2 DEF TrainingInv
<1>2. CASE Poll
  <2>1. UNCHANGED <<store, activeProcess, signal, pruned, removing, outside, created, restarts>> /\ pc = "poll"
    BY <1>2 DEF Poll
  <2>2. activeJob = 0 /\ activeProcess = 0 /\ pruned = {}
    BY <2>1 DEF TrainingInv, WorkerHasJob, GoingAreUnknown
  <2>3. ASSUME NEW entry \in queue, TakesJob(entry), activeJob' = entry.id, ~activeStop',
               activeStop' \in BOOLEAN,
               queue' = {other \in queue \ {entry} : other.stamp >= entry.stamp}, pc' = "begin"
        PROVE  TrainingInv'
    <3>1. /\ entry.id \in Ids /\ jobs[entry.id].status = "queued"
          /\ \A other \in queue : other.stamp \in Int /\ entry.stamp \in Int
      BY <2>3 DEF TakesJob, TrainingInv, TrainingTypeOK, Stamps
    <3>2. TrainingTypeOK'
      BY <2>1, <2>3, <3>1 DEF TrainingInv, TrainingTypeOK
    <3>3. JobsAreStamped' /\ FilesOfKnownJobs' /\ GoingAreUnknown'
      BY <2>1, <2>2, <2>3 DEF TrainingInv, JobsAreStamped, FilesOfKnownJobs, GoingAreUnknown
    <3>4. WorkerHasJob'
      BY <2>1, <2>2, <2>3, <3>1 DEF TrainingInv, WorkerHasJob, Training
    <3>5. WhereJobsAre'
      <4>1. ASSUME NEW id \in Ids, jobs[id].status = "queued", id # entry.id
            PROVE  \E other \in queue' : other.id = id
        <5>1. PICK other \in queue : other.id = id
          BY <2>1, <4>1 DEF TrainingInv, WhereJobsAre
        <5>2. ~(other.stamp < entry.stamp)
          BY <2>3, <4>1, <5>1 DEF TakesJob
        <5>3. other # entry
          BY <4>1, <5>1
        <5> QED BY <2>3, <3>1, <5>1, <5>2, <5>3
      <4>2. \A id \in Ids : jobs[id].status \notin {"starting", "running"}
        BY <2>1 DEF TrainingInv, WhereJobsAre, Training
      <4> QED BY <2>1, <2>3, <4>1, <4>2 DEF WhereJobsAre
    <3>6. StopFlag'
      BY <2>1, <2>3 DEF TrainingInv, StopFlag, Training
    <3> QED BY <3>2, <3>3, <3>4, <3>5, <3>6 DEF TrainingInv
  <2>4. ASSUME \A entry \in queue : jobs[entry.id].status # "queued",
               queue' = {}, pc' = "wait", UNCHANGED <<activeJob, activeStop>>
        PROVE  TrainingInv'
    <3>1. TrainingTypeOK' /\ JobsAreStamped' /\ FilesOfKnownJobs' /\ GoingAreUnknown'
      BY <2>1, <2>2, <2>4 DEF TrainingInv, TrainingTypeOK, JobsAreStamped, FilesOfKnownJobs, GoingAreUnknown
    <3>2. WorkerHasJob' /\ WhereJobsAre' /\ StopFlag'
      BY <2>1, <2>2, <2>4 DEF TrainingInv, WorkerHasJob, WhereJobsAre, StopFlag, Training
    <3> QED BY <3>1, <3>2 DEF TrainingInv
  <2>5. CASE \E entry \in queue :
               /\ TakesJob(entry)
               /\ activeJob' = entry.id /\ activeStop' = FALSE
               /\ queue' = {other \in queue \ {entry} : other.stamp >= entry.stamp}
               /\ pc' = "begin"
    BY <2>3, <2>5
  <2> QED BY <1>2, <2>4, <2>5 DEF Poll
<1> QED BY <1>1, <1>2

(* ... marks it as starting, ...                                           *)
LEMMA BeginKeepsInv ==
  ASSUME TrainingInv, Begin
  PROVE  TrainingInv'
<1> USE DEF store, active, worker, outside
<1> DEFINE job == [jobs[activeJob] EXCEPT !.status = "starting", !.stopRequested = FALSE]
<1>1. /\ UNCHANGED <<queue, active, signal, pruned, removing, outside, created, restarts>>
      /\ pc = "begin" /\ pruned = {} /\ activeProcess = 0 /\ activeJob \in Ids
  BY DEF Begin, TrainingInv, GoingAreUnknown, WorkerHasJob
<1>2. CASE jobs[activeJob] = NoJob /\ pc' = "dead" /\ UNCHANGED store
  <2>1. NoJob.status = "none"
    BY DEF NoJob
  <2>2. TrainingTypeOK' /\ JobsAreStamped' /\ FilesOfKnownJobs' /\ GoingAreUnknown'
    BY <1>1, <1>2 DEF TrainingInv, TrainingTypeOK, JobsAreStamped, FilesOfKnownJobs, GoingAreUnknown
  <2>3. WorkerHasJob' /\ WhereJobsAre' /\ StopFlag'
    BY <1>1, <1>2, <2>1 DEF TrainingInv, WorkerHasJob, WhereJobsAre, StopFlag, Training
  <2> QED BY <2>2, <2>3 DEF TrainingInv
<1>3. CASE /\ jobs[activeJob] # NoJob
           /\ \/ pc' = "launch" /\ Persist(activeJob, job)
              \/ pc' = "dead" /\ PersistFails(activeJob, job, {disk[activeJob], Torn})
  <2>1. jobs[activeJob] \in InMemory /\ jobs[activeJob].status # "none"
    BY <1>1, <1>3 DEF TrainingInv, TrainingTypeOK, JobsAreStamped, InMemory
  <2>2. /\ job \in InMemory /\ job.status = "starting"
        /\ job.stamp = jobs[activeJob].stamp /\ job.stopRequested = FALSE
    BY <2>1 DEF InMemory, Job, Pending
  <2>3. Writes(activeJob, job, {disk[activeJob], Torn})
    BY <1>1, <1>3, <2>2, PersistWrites DEF TrainingInv
  <2>4. pc' = "dead" => faults' # 0
    BY <1>3, TrainingAssumption DEF PersistFails, Fault, TrainingInv, TrainingTypeOK
  <2>5. Torn.status = "unreadable" /\ NoJob.status = "none"
    BY DEF Torn, NoJob
  <2>6. pc' \in {"launch", "dead"}
    BY <1>3
  <2> HIDE DEF job
  <2>7. TrainingTypeOK'
    BY <1>1, <2>3, <2>6 DEF Writes, TrainingInv, TrainingTypeOK, InMemory, OnDisk
  <2>8. JobsAreStamped'
    BY <1>1, <2>1, <2>2, <2>3, <2>5 DEF Writes, TrainingInv, JobsAreStamped
  <2>9. FilesOfKnownJobs'
    BY <1>1, <1>3, <2>2, <2>3, <2>5 DEF Writes, TrainingInv, FilesOfKnownJobs
  <2>10. GoingAreUnknown'
    BY <1>1, <1>3, <2>3 DEF Writes, TrainingInv, TrainingTypeOK, GoingAreUnknown
  <2>11. WorkerHasJob'
    BY <1>1, <2>2, <2>3, <2>6 DEF Writes, WorkerHasJob, Training
  <2>12. WhereJobsAre'
    BY <1>1, <2>2, <2>3, <2>6 DEF Writes, TrainingInv, WhereJobsAre, Training
  <2>13. StopFlag'
    BY <1>1, <2>2, <2>3, <2>4, <2>6 DEF Writes, TrainingInv, StopFlag, Training
  <2> QED BY <2>7, <2>8, <2>9, <2>10, <2>11, <2>12, <2>13 DEF TrainingInv
<1> QED BY <1>2, <1>3 DEF Begin

(* ... starts the process, ...                                             *)
LEMMA LaunchKeepsInv ==
  ASSUME TrainingInv, Launch
  PROVE  TrainingInv'
<1> USE DEF store, active, worker, outside
<1>1. /\ UNCHANGED <<store, queue, active, signal, pruned, removing, terminating, created, restarts>>
      /\ pc = "launch" /\ pc' \in {"register", "except"}
      /\ activeJob \in Ids /\ pruned = {}
  BY DEF Launch, TrainingInv, GoingAreUnknown, WorkerHasJob
<1>2. process' \in [Stamps -> {"none"} \cup Alive \cup Ended]
  BY <1>1 DEF Launch, TrainingInv, TrainingTypeOK, Alive
<1>3. TrainingTypeOK' /\ JobsAreStamped' /\ FilesOfKnownJobs' /\ GoingAreUnknown'
  BY <1>1, <1>2 DEF TrainingInv, TrainingTypeOK, JobsAreStamped, FilesOfKnownJobs, GoingAreUnknown
<1>4. WorkerHasJob' /\ WhereJobsAre' /\ StopFlag'
  BY <1>1 DEF TrainingInv, WorkerHasJob, WhereJobsAre, StopFlag, Training
<1> QED BY <1>3, <1>4 DEF TrainingInv

(* ... marks the job as running, ...                                       *)
LEMMA RegisterKeepsInv ==
  ASSUME TrainingInv, Register
  PROVE  TrainingInv'
<1> USE DEF store, active, worker, outside
<1> DEFINE job == [jobs[activeJob] EXCEPT !.status = "running"]
<1>1. /\ UNCHANGED <<queue, activeJob, activeStop, signal, pruned, removing, outside, created, restarts>>
      /\ activeProcess' = jobs[activeJob].stamp
      /\ pc = "register" /\ pc' \in {"watch", "except"}
      /\ pruned = {} /\ activeJob \in Ids /\ jobs[activeJob].status \in {"starting", "running"}
  BY DEF Register, TrainingInv, GoingAreUnknown, WorkerHasJob, Training
<1>2. jobs[activeJob] \in InMemory /\ jobs[activeJob] # NoJob /\ jobs[activeJob].stamp \in Stamps
  <2>1. NoJob.status = "none"
    BY DEF NoJob
  <2> QED BY <1>1, <2>1 DEF TrainingInv, TrainingTypeOK, JobsAreStamped, InMemory
<1>3. /\ job \in InMemory /\ job.status = "running" /\ job.stamp = jobs[activeJob].stamp
      /\ job.stopRequested = jobs[activeJob].stopRequested
  BY <1>2, StatusChanges DEF Pending
<1>4. Writes(activeJob, job, {disk[activeJob], Torn})
  BY <1>1, <1>3, PersistWrites DEF Register, TrainingInv
<1>5. Torn.status = "unreadable" /\ NoJob.status = "none"
  BY DEF Torn, NoJob
<1> HIDE DEF job
<1>6. TrainingTypeOK'
  BY <1>1, <1>2, <1>4 DEF Writes, TrainingInv, TrainingTypeOK, InMemory, OnDisk
<1>7. JobsAreStamped'
  BY <1>1, <1>2, <1>3, <1>4, <1>5 DEF Writes, TrainingInv, JobsAreStamped
<1>8. FilesOfKnownJobs'
  BY <1>1, <1>2, <1>3, <1>4, <1>5 DEF Writes, TrainingInv, FilesOfKnownJobs
<1>9. GoingAreUnknown'
  BY <1>1, <1>2, <1>4 DEF Writes, TrainingInv, TrainingTypeOK, GoingAreUnknown
<1>10. WorkerHasJob'
  BY <1>1, <1>2, <1>3, <1>4 DEF Writes, WorkerHasJob, Training
<1>11. WhereJobsAre'
  BY <1>1, <1>3, <1>4 DEF Writes, TrainingInv, WhereJobsAre, Training
<1>12. StopFlag'
  BY <1>1, <1>3, <1>4 DEF Writes, TrainingInv, StopFlag, Training
<1> QED BY <1>6, <1>7, <1>8, <1>9, <1>10, <1>11, <1>12 DEF TrainingInv

(* ... and waits for the process.                                          *)
LEMMA WatchKeepsInv ==
  ASSUME TrainingInv, Watch
  PROVE  TrainingInv'
<1> USE DEF store, active, worker, outside
<1>1. /\ UNCHANGED <<jobs, disk, queue, active, signal, pruned, removing, outside, created, restarts>>
      /\ pc = "watch" /\ pc' \in {"record", "except"}
      /\ pruned = {}
  BY DEF Watch, TrainingInv, GoingAreUnknown
<1>2. faults' \in 0..MaxFaults /\ (faults' = 0 => faults = 0)
  BY TrainingAssumption DEF Watch, Fault, TrainingInv, TrainingTypeOK
<1>3. TrainingTypeOK'
  BY <1>1, <1>2 DEF TrainingInv, TrainingTypeOK
<1>4. JobsAreStamped' /\ FilesOfKnownJobs' /\ GoingAreUnknown'
  BY <1>1 DEF TrainingInv, JobsAreStamped, FilesOfKnownJobs, GoingAreUnknown
<1>5. WorkerHasJob' /\ WhereJobsAre' /\ StopFlag'
  BY <1>1, <1>2 DEF TrainingInv, WorkerHasJob, WhereJobsAre, StopFlag, Training
<1> QED BY <1>3, <1>4, <1>5 DEF TrainingInv

(* It ends the job and prunes the history, in the regular way or in that   *)
(* of an error, ...                                                        *)
LEMMA EndKeepsInv ==
  ASSUME TrainingInv, NEW status \in Terminal, NEW onError \in {"except", "dead"},
         pc \in {"record", "except"}, jobs[activeJob] # NoJob,
         status = "stopped" => activeStop,
         Finish(status, onError),
         UNCHANGED <<queue, active, signal, removing, outside, created, restarts>>
  PROVE  TrainingInv'
<1> USE DEF active, outside
<1> DEFINE job == [jobs[activeJob] EXCEPT !.status = status]
<1>1. activeJob \in Ids /\ pruned = {}
  BY DEF TrainingInv, WorkerHasJob, GoingAreUnknown
<1>2. jobs[activeJob] \in InMemory /\ jobs[activeJob].status # "none"
  BY <1>1 DEF TrainingInv, TrainingTypeOK, JobsAreStamped, InMemory
<1>3. /\ job \in InMemory /\ job.status \in Terminal /\ job.stamp = jobs[activeJob].stamp
      /\ job.status = status /\ job.stopRequested = jobs[activeJob].stopRequested
  BY <1>2, StatusChanges
<1>4. Ends(job, onError)
  BY <1>1, FinishEnds DEF TrainingInv
<1>5. NoJob.status = "none" /\ Torn.status = "unreadable"
  BY DEF NoJob, Torn
<1> HIDE DEF job
<1>6. TrainingTypeOK'
  BY <1>4 DEF Ends, TrainingInv, TrainingTypeOK, InMemory, OnDisk
<1>7. JobsAreStamped'
  <2>1. ASSUME NEW id \in Ids
        PROVE  /\ jobs'[id].status # "none" => jobs'[id].stamp \in Stamps
               /\ jobs'[id].status = "none" => jobs'[id] = NoJob
    BY <1>2, <1>3, <1>4, <1>5 DEF Ends, TrainingInv, JobsAreStamped, Terminal
  <2>2. ASSUME NEW id \in Ids
        PROVE  /\ disk'[id].status \notin {"none", "unreadable"} => disk'[id].stamp \in Stamps
               /\ disk'[id].status = "none" => disk'[id] = NoJob
    BY <1>1, <1>2, <1>3, <1>4, <1>5 DEF Ends, TrainingInv, JobsAreStamped, Terminal
  <2> QED BY <2>1, <2>2 DEF JobsAreStamped
<1>8. \A id \in Ids : (id = activeJob \/ jobs[id] # NoJob) => disk'[id] # NoJob
  BY <1>3, <1>4, <1>5 DEF Ends, TrainingInv, FilesOfKnownJobs, Terminal
<1>9. FilesOfKnownJobs'
  BY <1>4, <1>8 DEF Ends, FilesOfKnownJobs
<1>10. GoingAreUnknown'
  <2>1. \A id \in pruned' : id \in Ids /\ jobs[id] # NoJob /\ jobs'[id] = NoJob
    BY <1>4, <1>5 DEF Ends, Terminal
  <2>2. \A id \in removing : id \in Ids /\ jobs[id] = NoJob /\ disk[id] # NoJob
    BY DEF TrainingInv, TrainingTypeOK, GoingAreUnknown
  <2>3. removing \cap pruned' = {}
    BY <2>1, <2>2
  <2>4. \A id \in removing : jobs'[id] = NoJob /\ disk'[id] # NoJob
    BY <1>4, <2>2, <2>3 DEF Ends
  <2> QED BY <1>4, <1>8, <2>1, <2>3, <2>4 DEF Ends, GoingAreUnknown
<1>11. WorkerHasJob'
  BY <1>1, <1>4 DEF Ends, WorkerHasJob, Training
<1>12. WhereJobsAre'
  BY <1>3, <1>4, <1>5 DEF Ends, TrainingInv, WhereJobsAre, Terminal
<1>13. StopFlag'
  <2> SUFFICES ASSUME faults' = 0
               PROVE  /\ pc' = "tidy"
                      /\ \A id \in Ids : /\ jobs'[id].status = "stopped" => jobs'[id].stopRequested
                                         /\ disk'[id].status = "stopped" => disk'[id].stopRequested
    BY DEF StopFlag, Training
  <2>1. faults = 0 /\ pc' = "tidy" /\ disk'[activeJob] = job
    BY <1>4 DEF Ends
  <2>2. job.status = "stopped" => job.stopRequested
    BY <1>3, <2>1 DEF TrainingInv, StopFlag, Training
  <2> QED BY <1>4, <1>5, <2>1, <2>2 DEF Ends, TrainingInv, StopFlag
<1> QED BY <1>6, <1>7, <1>9, <1>10, <1>11, <1>12, <1>13 DEF TrainingInv

LEMMA RecordKeepsInv ==
  ASSUME TrainingInv, Record \/ Except
  PROVE  TrainingInv'
<1> USE DEF Terminal
<1>1. CASE Record
  <2>1. jobs[activeJob] # NoJob
    BY <1>1 DEF Record, TrainingInv, WorkerHasJob, Training, NoJob
  <2> QED BY <1>1, <2>1, EndKeepsInv DEF Record
<1>2. CASE Except /\ jobs[activeJob] # NoJob
  BY <1>2, EndKeepsInv DEF Except
<1>3. CASE Except /\ jobs[activeJob] = NoJob
  <2>1. /\ UNCHANGED <<jobs, disk, faults, queue, activeJob, activeProcess, activeStop, signal,
                       pruned, removing, process, terminating, created, restarts>>
        /\ pc = "except" /\ pc' = "dead"
    BY <1>3 DEF Except, store, active, outside, Finish
  <2>2. pruned = {}
    BY <2>1 DEF TrainingInv, GoingAreUnknown
  <2>3. TrainingTypeOK' /\ JobsAreStamped' /\ FilesOfKnownJobs' /\ GoingAreUnknown'
    BY <2>1, <2>2 DEF TrainingInv, TrainingTypeOK, JobsAreStamped, FilesOfKnownJobs, GoingAreUnknown
  <2>4. WorkerHasJob' /\ WhereJobsAre' /\ StopFlag'
    BY <2>1 DEF TrainingInv, WorkerHasJob, WhereJobsAre, StopFlag, Training
  <2> QED BY <2>3, <2>4 DEF TrainingInv
<1> QED BY <1>1, <1>2, <1>3

(* ... and lets go of it.                                                  *)
LEMMA ReleaseKeepsInv ==
  ASSUME TrainingInv, Release
  PROVE  TrainingInv'
<1> USE DEF store, outside
<1>1. pruned = {}
  BY DEF Release, TrainingInv, GoingAreUnknown
<1>2. TrainingTypeOK' /\ JobsAreStamped' /\ FilesOfKnownJobs' /\ GoingAreUnknown'
  BY <1>1 DEF Release, TrainingInv, TrainingTypeOK, JobsAreStamped, FilesOfKnownJobs, GoingAreUnknown
<1>3. WorkerHasJob' /\ WhereJobsAre' /\ StopFlag'
  BY DEF Release, TrainingInv, WorkerHasJob, WhereJobsAre, StopFlag, Training
<1> QED BY <1>2, <1>3 DEF TrainingInv

(* The directories go: those of deleted jobs, and those of pruned ones.    *)
LEMMA RemovalsKeepInv ==
  ASSUME TrainingInv, Tidy \/ \E id \in Ids : DeleteEnds(id)
  PROVE  TrainingInv'
<1> USE DEF active, worker, outside
<1>1. CASE Tidy
  <2>1. pruned \in SUBSET Ids
    BY DEF TrainingInv, TrainingTypeOK
  <2>2. Removes(pruned)
    BY <1>1, <2>1, RemoveTreesRemoves DEF Tidy, TrainingInv
  <2> QED BY <1>1, <2>1, <2>2, RemovalKeepsInv DEF Tidy
<1>2. CASE \E id \in Ids : DeleteEnds(id)
  <2>1. PICK id \in Ids : DeleteEnds(id)
    BY <1>2
  <2>2. Removes({id})
    BY <2>1, RemoveTreesRemoves DEF DeleteEnds, TrainingInv
  <2> QED BY <2>1, <2>2, RemovalKeepsInv DEF DeleteEnds
<1> QED BY <1>1, <1>2

(* A restart loads jobs that have all ended.                               *)
LEMMA RestartKeepsInv ==
  ASSUME TrainingInv, Restart
  PROVE  TrainingInv'
<1> DEFINE known == [id \in Ids |-> Loaded(disk[id])]
           kept  == [id \in Ids |-> IF known[id] = NoJob THEN disk[id] ELSE known[id]]
<1>1. \A id \in Ids :
        /\ known[id] \in InMemory /\ kept[id] \in OnDisk
        /\ known[id] = NoJob \/ (known[id].status \in Terminal /\ known[id].stamp \in Stamps)
        /\ known[id].status = "stopped" => disk[id] = known[id]
  <2> TAKE id \in Ids
  <2>1. /\ disk[id] \in OnDisk /\ NoJob \in InMemory
        /\ disk[id].status \notin {"none", "unreadable"} => disk[id].stamp \in Stamps
    BY TrainingAssumption DEF TrainingInv, TrainingTypeOK, JobsAreStamped, OnDisk, InMemory, Job, NoJob
  <2>2. CASE disk[id].status \in {"none", "unreadable"}
    <3>1. Loaded(disk[id]) = NoJob /\ NoJob.status = "none"
      BY <2>2 DEF Loaded, NoJob, Terminal, Pending
    <3> QED BY <2>1, <3>1
  <2>3. CASE disk[id].status \in Terminal
    BY <2>1, <2>3 DEF Loaded, Terminal, Pending, OnDisk, InMemory, Job
  <2>4. CASE disk[id].status \in Pending
    <3>1. Loaded(disk[id]) = [disk[id] EXCEPT !.status = "failed"]
      BY <2>4 DEF Loaded, Terminal, Pending
    <3>2. /\ [disk[id] EXCEPT !.status = "failed"] \in InMemory
          /\ [disk[id] EXCEPT !.status = "failed"].status = "failed"
          /\ [disk[id] EXCEPT !.status = "failed"].stamp = disk[id].stamp
      BY <2>1 DEF OnDisk, InMemory, Job, Terminal
    <3>3. [disk[id] EXCEPT !.status = "failed"] \in OnDisk
      BY <3>2 DEF OnDisk, InMemory, Job
    <3> QED BY <2>1, <2>4, <3>1, <3>2, <3>3 DEF Terminal, Pending
  <2> QED BY <2>1, <2>2, <2>3, <2>4 DEF OnDisk, Job
<1>2. /\ jobs' = Without(known, Removable(known)) /\ disk' = Without(kept, Removable(known))
      /\ queue' = {} /\ signal' = FALSE /\ pc' = "wait"
      /\ activeJob' = 0 /\ activeProcess' = 0 /\ activeStop' = FALSE
      /\ pruned' = {} /\ removing' = {} /\ terminating' = {}
      /\ restarts' = restarts + 1 /\ restarts < MaxRestarts
      /\ UNCHANGED <<process, created, faults>>
  BY DEF Restart
<1>3. /\ NoJob \in InMemory /\ NoJob \in OnDisk /\ NoJob.status = "none"
  BY TrainingAssumption DEF InMemory, OnDisk, Job, NoJob
<1>4. \A id \in Ids : kept[id] = IF known[id] = NoJob THEN disk[id] ELSE known[id]
  OBVIOUS
<1> HIDE DEF known, kept
<1>5. PICK gone : /\ jobs' = [id \in Ids |-> IF id \in gone THEN NoJob ELSE known[id]]
                  /\ disk' = [id \in Ids |-> IF id \in gone THEN NoJob ELSE kept[id]]
  BY <1>2 DEF Without
<1>6. TrainingTypeOK'
  <2>1. jobs' \in [Ids -> InMemory] /\ disk' \in [Ids -> OnDisk]
    BY <1>1, <1>3, <1>5
  <2>2. restarts' \in 0..MaxRestarts
    BY <1>2, TrainingAssumption DEF TrainingInv, TrainingTypeOK
  <2> QED BY <1>2, <2>1, <2>2 DEF TrainingInv, TrainingTypeOK, InMemory, OnDisk
<1>7. JobsAreStamped'
  BY <1>1, <1>3, <1>4, <1>5 DEF TrainingInv, JobsAreStamped, Terminal
<1>8. FilesOfKnownJobs'
  BY <1>1, <1>4, <1>5 DEF FilesOfKnownJobs
<1>9. GoingAreUnknown' /\ WorkerHasJob'
  BY <1>2 DEF GoingAreUnknown, WorkerHasJob, Training
<1>10. WhereJobsAre'
  BY <1>1, <1>3, <1>5 DEF WhereJobsAre, Terminal
<1>11. StopFlag'
  BY <1>1, <1>2, <1>3, <1>4, <1>5 DEF TrainingInv, StopFlag, Training
<1> QED BY <1>6, <1>7, <1>8, <1>9, <1>10, <1>11 DEF TrainingInv

-----------------------------------------------------------------------------
(* Every step keeps the invariant.                                         *)
LEMMA StepKeepsTrainingInv == TrainingInv /\ [TrainingNext]_trainingVars => TrainingInv'
<1> SUFFICES ASSUME TrainingInv, [TrainingNext]_trainingVars PROVE TrainingInv'
  OBVIOUS
<1>1. CASE Calls
  BY <1>1, EnqueueKeepsInv, CancelKeepsInv, StopKeepsInv, DeleteKeepsInv, RemovalsKeepInv DEF Calls
<1>2. CASE StopCalls \/ \E s \in Stamps : ProcessEnds(s)
  BY <1>2, ProcessKeepsInv DEF StopCalls
<1>3. CASE Worker
  BY <1>3, PollKeepsInv, BeginKeepsInv, LaunchKeepsInv, RegisterKeepsInv, WatchKeepsInv,
     RecordKeepsInv, ReleaseKeepsInv, RemovalsKeepInv DEF Worker
<1>4. CASE Restart
  BY <1>4, RestartKeepsInv
<1>5. CASE UNCHANGED trainingVars
  <2>1. TrainingTypeOK' /\ JobsAreStamped' /\ FilesOfKnownJobs' /\ GoingAreUnknown'
    BY <1>5 DEF trainingVars, store, active, worker, outside,
         TrainingInv, TrainingTypeOK, JobsAreStamped, FilesOfKnownJobs, GoingAreUnknown
  <2>2. WorkerHasJob' /\ WhereJobsAre' /\ StopFlag'
    BY <1>5 DEF trainingVars, store, active, worker, outside,
         TrainingInv, WorkerHasJob, WhereJobsAre, StopFlag
  <2> QED BY <2>1, <2>2 DEF TrainingInv
<1> QED BY <1>1, <1>2, <1>3, <1>4, <1>5 DEF TrainingNext

LEMMA TrainingInvariant == TrainingSpec => []TrainingInv
  BY TrainingInvInit, StepKeepsTrainingInv, PTL DEF TrainingSpec

(* Jobs, files, queue and worker always have their types.                  *)
THEOREM TrainingTypeCorrect == TrainingSpec => []TrainingTypeOK
<1>1. TrainingInv => TrainingTypeOK
  BY DEF TrainingInv
<1> QED BY <1>1, TrainingInvariant, PTL

(* The removal of directories, which delete_job, clear_history and the     *)
(* worker do without the lock, never takes that of a known job.            *)
THEOREM FilesAreKept == TrainingSpec => []FilesOfKnownJobs
<1>1. TrainingInv => FilesOfKnownJobs
  BY DEF TrainingInv
<1> QED BY <1>1, TrainingInvariant, PTL

(* A queued job is in the queue or about to begin, and a starting or       *)
(* running one is active, whatever fails and whenever the server restarts. *)
THEOREM NoJobIsLost == TrainingSpec => []JobsAreReachable
<1>1. TrainingInv => JobsAreReachable
  BY DEF TrainingInv, WhereJobsAre, JobsAreReachable
<1> QED BY <1>1, TrainingInvariant, PTL

(* Every known job can be reached and has its files.                       *)
THEOREM KnownJobsAreKept == TrainingSpec => []JobsAreKept
<1>1. JobsAreReachable /\ FilesOfKnownJobs => JobsAreKept
  BY DEF JobsAreKept
<1> QED BY <1>1, FilesAreKept, NoJobIsLost, PTL

(* As long as no file failed, only a job that a call of stop named ends as *)
(* stopped.                                                                *)
THEOREM StopsHitTheirJob == TrainingSpec => []StoppedOnRequest
<1>1. TrainingInv => StoppedOnRequest
  BY DEF TrainingInv, StopFlag, StoppedOnRequest
<1> QED BY <1>1, TrainingInvariant, PTL

-----------------------------------------------------------------------------
(* As long as no file failed, what the list shows of a finished job is     *)
(* what was written.                                                       *)
WrittenAsKnown == faults = 0 => \A id \in Finished(jobs) : disk[id] = jobs[id]

LEMMA RestartLoads ==
  ASSUME TrainingTypeOK, Restart
  PROVE  /\ NoJob.status = "none"
         /\ \E known \in [Ids -> InMemory] :
              /\ \A id \in Ids : /\ known[id] = Loaded(disk[id])
                                 /\ disk[id].status \in Terminal => known[id] = disk[id]
              /\ \A id \in Ids : jobs'[id] = IF id \in Removable(known) THEN NoJob ELSE known[id]
              /\ \A id \in Ids : jobs'[id] # NoJob => disk'[id] = jobs'[id]
<1> DEFINE known == [id \in Ids |-> Loaded(disk[id])]
           kept  == [id \in Ids |-> IF known[id] = NoJob THEN disk[id] ELSE known[id]]
<1>1. NoJob \in InMemory /\ NoJob.status = "none"
  BY TrainingAssumption DEF InMemory, Job, NoJob
<1>2. \A id \in Ids : disk[id] \in OnDisk
  BY DEF TrainingTypeOK, OnDisk
<1>3. ASSUME NEW id \in Ids
      PROVE  Loaded(disk[id]) \in InMemory /\ (disk[id].status \in Terminal => Loaded(disk[id]) = disk[id])
  <2>1. disk[id] \in OnDisk
    BY <1>2
  <2>2. CASE disk[id].status \in {"none", "unreadable"}
    <3>1. Loaded(disk[id]) = NoJob /\ disk[id].status \notin Terminal
      BY <2>2 DEF Loaded, Terminal, Pending
    <3> QED BY <1>1, <3>1
  <2>3. CASE disk[id].status \in Terminal
    BY <2>1, <2>3 DEF Loaded, Terminal, Pending, OnDisk, InMemory, Job
  <2>4. CASE disk[id].status \in Pending
    <3>1. Loaded(disk[id]) = [disk[id] EXCEPT !.status = "failed"] /\ disk[id].status \notin Terminal
      BY <2>4 DEF Loaded, Terminal, Pending
    <3> QED BY <2>1, <3>1 DEF OnDisk, InMemory, Job, Terminal
  <2> QED BY <2>1, <2>2, <2>3, <2>4 DEF OnDisk, Job
<1>4. jobs' = Without(known, Removable(known)) /\ disk' = Without(kept, Removable(known))
  BY DEF Restart
<1>5. known \in [Ids -> InMemory] /\ \A id \in Ids : known[id] = Loaded(disk[id])
  BY <1>3
<1>6. \A id \in Ids : kept[id] = IF known[id] = NoJob THEN disk[id] ELSE known[id]
  OBVIOUS
<1> HIDE DEF known, kept
<1>7. \A id \in Ids : jobs'[id] = IF id \in Removable(known) THEN NoJob ELSE known[id]
  BY <1>4 DEF Without
<1>8. \A id \in Ids : disk'[id] = IF id \in Removable(known) THEN NoJob ELSE kept[id]
  BY <1>4 DEF Without
<1> QED BY <1>1, <1>3, <1>5, <1>6, <1>7, <1>8

LEMMA WrittenKept ==
  ASSUME TrainingInv, WrittenAsKnown, [TrainingNext]_trainingVars
  PROVE  WrittenAsKnown'
<1> SUFFICES ASSUME faults' = 0 PROVE \A id \in Finished(jobs)' : disk'[id] = jobs'[id]
  BY DEF WrittenAsKnown
<1> DEFINE Same == \A id \in Finished(jobs)' : disk'[id] = jobs'[id]
<1> USE DEF store
<1>1. TrainingTypeOK /\ faults \in Nat /\ jobs \in [Ids -> InMemory] /\ disk \in [Ids -> OnDisk]
  <2>1. TrainingTypeOK
    BY DEF TrainingInv
  <2>2. faults \in Nat
    BY <2>1, TrainingAssumption DEF TrainingTypeOK
  <2> QED BY <2>1, <2>2 DEF TrainingTypeOK, InMemory, OnDisk
<1>2. NoJob.status = "none" /\ "none" \notin Terminal
  BY DEF NoJob, Terminal
<1>3. ASSUME NEW id \in Ids, NEW job, NEW left, Persist(id, job) \/ PersistFails(id, job, left)
      PROVE  Same
  <2>1. faults = 0 /\ Persist(id, job)
    BY <1>1, <1>3 DEF Persist, PersistFails, Fault
  <2> QED BY <1>1, <2>1 DEF WrittenAsKnown, Finished, Persist
<1>4. ASSUME UNCHANGED store PROVE Same
  BY <1>4 DEF WrittenAsKnown, Finished
<1>5. ASSUME NEW ids \in SUBSET Ids, \A id \in ids : jobs[id] = NoJob, RemoveTrees(ids), UNCHANGED jobs PROVE Same
  <2>1. Removes(ids) /\ faults = 0
    BY <1>1, <1>5, RemoveTreesRemoves DEF Removes
  <2> QED BY <1>2, <1>5, <2>1 DEF WrittenAsKnown, Finished, Removes
<1>6. ASSUME NEW ids, Delete(ids) PROVE Same
  <2>1. faults = 0 /\ UNCHANGED disk /\ \A id \in Ids : jobs'[id] = IF id \in ids THEN NoJob ELSE jobs[id]
    BY <1>6 DEF Delete, Without
  <2> QED BY <1>2, <2>1 DEF WrittenAsKnown, Finished
<1>7. ASSUME NEW status, NEW onError, activeJob \in Ids, Finish(status, onError) PROVE Same
  <2> DEFINE job == [jobs[activeJob] EXCEPT !.status = status]
             known == [jobs EXCEPT ![activeJob] = job]
  <2>1. CASE PersistFails(activeJob, job, {disk[activeJob], Torn})
    BY <1>1, <2>1 DEF PersistFails, Fault
  <2>2. CASE jobs' = Without(known, Removable(known)) /\ disk' = [disk EXCEPT ![activeJob] = job] /\ UNCHANGED faults
    <3>1. \A id \in Ids : id # activeJob => known[id] = jobs[id] /\ disk'[id] = disk[id]
      BY <1>1, <2>2
    <3>2. known[activeJob] = job /\ disk'[activeJob] = job
      BY <1>1, <1>7, <2>2
    <3> HIDE DEF known, job
    <3>3. \A id \in Ids : jobs'[id] = NoJob \/ jobs'[id] = known[id]
      BY <2>2 DEF Without
    <3> QED BY <1>2, <2>2, <3>1, <3>2, <3>3 DEF WrittenAsKnown, Finished
  <2> QED BY <1>7, <2>1, <2>2 DEF Finish
<1>8. ASSUME Restart PROVE Same
  BY <1>1, <1>2, <1>8, RestartLoads DEF Finished
<1>9. CASE Calls
  <2>1. ASSUME Enqueue PROVE Same
    BY <1>3, <2>1 DEF Enqueue
  <2>2. ASSUME NEW id \in Ids, Cancel(id) \/ Stop(id) PROVE Same
    BY <1>3, <2>2 DEF Cancel, Stop
  <2>3. ASSUME NEW id \in Ids, DeleteEnds(id) PROVE Same
    BY <1>5, <2>3 DEF DeleteEnds, TrainingInv, GoingAreUnknown
  <2> QED BY <1>6, <1>9, <2>1, <2>2, <2>3 DEF Calls
<1>10. CASE Worker
  <2>1. pc \in {"begin", "register", "record", "except"} => activeJob \in Ids
    BY DEF TrainingInv, WorkerHasJob
  <2>2. CASE WakeUp \/ Poll \/ Launch \/ Release
    BY <1>4, <2>2 DEF WakeUp, Poll, Launch, Release
  <2>3. CASE Begin \/ Register
    BY <1>3, <1>4, <2>1, <2>3 DEF Begin, Register
  <2>4. CASE Watch
    BY <1>1, <2>4 DEF Watch, Fault, WrittenAsKnown, Finished
  <2>5. CASE Record \/ Except
    BY <1>4, <1>7, <2>1, <2>5 DEF Record, Except
  <2>6. CASE Tidy
    BY <1>5, <2>6 DEF Tidy, TrainingInv, TrainingTypeOK, GoingAreUnknown
  <2> QED BY <1>10, <2>2, <2>3, <2>4, <2>5, <2>6 DEF Worker
<1>11. CASE StopCalls \/ (\E s \in Stamps : ProcessEnds(s)) \/ UNCHANGED trainingVars
  BY <1>4, <1>11 DEF StopCalls, StopKills, StopSeesExit, ProcessEnds, trainingVars
<1> QED BY <1>8, <1>9, <1>10, <1>11 DEF TrainingNext

(* A set of numbers has a least one.                                       *)
LEMMA LeastOf ==
  ASSUME NEW S, S \subseteq Nat, S # {}
  PROVE  \E x \in S : \A y \in S : x <= y
<1>1. \A x, y \in Nat : x < y => <<x, y>> \in OpToRel(<, Nat)
  BY DEF OpToRel
<1>2. PICK x \in S : \A y \in S : <<y, x>> \notin OpToRel(<, Nat)
  BY NatLessThanWellFounded, WFMin
<1>3. \A y \in S : ~(y < x)
  BY <1>1, <1>2
<1> QED BY <1>3

(* What is pruned makes room for as many newer jobs as the history holds:  *)
(* of the newer ones that are pruned too, those after the newest are kept. *)
LEMMA PrunedForNewer ==
  ASSUME NEW known \in [Ids -> InMemory], NEW id \in Removable(known)
  PROVE  Cardinality({other \in Ids : other \notin Removable(known) /\ known[other].stamp > known[id].stamp}) >= Limit
<1> DEFINE Newer(i) == {other \in Finished(known) : known[other].stamp > known[i].stamp}
           Kept == {other \in Ids : other \notin Removable(known) /\ known[other].stamp > known[id].stamp}
           Lost == {other \in Newer(id) : other \in Removable(known)}
<1>1. IsFiniteSet(Ids)
  BY TrainingAssumption, FS_Interval DEF Ids
<1>2. \A i \in Ids : known[i].stamp \in Nat /\ known[i].stamp <= MaxJobs
  BY TrainingAssumption DEF InMemory, Job, Stamps
<1>3. IsFiniteSet(Kept) /\ Cardinality(Kept) \in Nat
  <2>1. Kept \in SUBSET Ids
    OBVIOUS
  <2> HIDE DEF Kept
  <2> QED BY <1>1, <2>1, FS_Subset, FS_CardinalityType
<1>4. ASSUME NEW i \in Removable(known), Newer(i) \subseteq Kept
      PROVE  Cardinality(Kept) >= Limit
  <2>1. Cardinality(Newer(i)) >= Limit
    BY <1>4 DEF Removable
  <2> HIDE DEF Newer, Kept
  <2>2. IsFiniteSet(Newer(i)) /\ Cardinality(Newer(i)) <= Cardinality(Kept) /\ Cardinality(Newer(i)) \in Nat
    BY <1>3, <1>4, FS_Subset, FS_CardinalityType
  <2> QED BY <1>3, <2>1, <2>2, TrainingAssumption
<1>5. CASE Lost = {}
  <2>1. Newer(id) \subseteq Kept
    BY <1>5 DEF Finished
  <2> QED BY <1>4, <2>1
<1>6. CASE Lost # {}
  <2> DEFINE Ages == {MaxJobs - known[i].stamp : i \in Lost}
  <2>1. Lost \subseteq Ids
    BY DEF Finished
  <2>2. Ages \subseteq Nat /\ Ages # {}
    BY <1>2, <1>6, <2>1, TrainingAssumption
  <2>3. \E x \in Ages : \A y \in Ages : x <= y
    <3> HIDE DEF Ages
    <3> QED BY <2>2, LeastOf
  <2>4. PICK i \in Lost : \A j \in Lost : MaxJobs - known[i].stamp <= MaxJobs - known[j].stamp
    BY <2>3
  <2>5. \A j \in Lost : known[j].stamp <= known[i].stamp
    BY <1>2, <2>1, <2>4, TrainingAssumption
  <2>6. ASSUME NEW j \in Newer(i) PROVE j \in Kept
    <3>1. j \in Ids /\ j \in Finished(known) /\ known[j].stamp > known[i].stamp /\ known[i].stamp > known[id].stamp
      BY <2>6 DEF Finished
    <3>2. i \in Ids /\ id \in Ids
      BY <2>1 DEF Removable, Finished
    <3>3. known[j].stamp > known[id].stamp
      BY <1>2, <3>1, <3>2
    <3>4. j \notin Lost
      BY <1>2, <2>5, <3>1, <3>2
    <3> QED BY <3>1, <3>3, <3>4
  <2> QED BY <1>4, <2>6
<1> QED BY <1>5, <1>6

(* A restart keeps the results of finished jobs, and forgets one only for  *)
(* as many newer jobs as the history holds, however many there are and     *)
(* whichever ids they had before (_persist_job, _load_existing_jobs).      *)
THEOREM ResultsSurviveRestarts == TrainingSpec => RestartKeepsResults
<1>1. TrainingInit => WrittenAsKnown
  BY DEF TrainingInit, WrittenAsKnown, Finished
<1>2. ASSUME TrainingInv, WrittenAsKnown, [TrainingNext]_trainingVars, restarts' # restarts, faults = 0,
             NEW id \in Finished(jobs)
      PROVE  \/ jobs'[id] = jobs[id]
             \/ /\ jobs'[id] = NoJob
                /\ Cardinality({other \in Ids : jobs'[other].stamp > jobs[id].stamp}) >= Limit
  <2>1. Restart
    BY <1>2 DEF TrainingNext, Calls, Enqueue, Cancel, Stop, Delete, DeleteEnds, StopCalls, StopKills, StopSeesExit,
           Worker, WakeUp, Poll, Begin, Launch, Register, Watch, Record, Except, Tidy, Release, ProcessEnds, trainingVars
  <2>2. PICK known \in [Ids -> InMemory] :
          /\ \A i \in Ids : disk[i].status \in Terminal => known[i] = disk[i]
          /\ \A i \in Ids : jobs'[i] = IF i \in Removable(known) THEN NoJob ELSE known[i]
    BY <1>2, <2>1, RestartLoads DEF TrainingInv
  <2>3. id \in Ids /\ known[id] = jobs[id]
    BY <1>2, <2>2 DEF WrittenAsKnown, Finished
  <2>4. CASE id \in Removable(known)
    <3> DEFINE Kept == {other \in Ids : other \notin Removable(known) /\ known[other].stamp > known[id].stamp}
               Newer == {other \in Ids : jobs'[other].stamp > jobs[id].stamp}
    <3>1. Cardinality(Kept) >= Limit
      BY <2>4, PrunedForNewer
    <3>2. Kept \subseteq Newer /\ Newer \subseteq Ids
      BY <2>2, <2>3
    <3>3. IsFiniteSet(Ids)
      BY TrainingAssumption, FS_Interval DEF Ids
    <3> HIDE DEF Kept, Newer
    <3>4. IsFiniteSet(Newer) /\ IsFiniteSet(Kept) /\ Cardinality(Kept) <= Cardinality(Newer)
      BY <3>2, <3>3, FS_Subset
    <3>5. Cardinality(Kept) \in Nat /\ Cardinality(Newer) \in Nat
      BY <3>4, FS_CardinalityType
    <3>6. Cardinality(Newer) >= Limit
      BY <3>1, <3>4, <3>5, TrainingAssumption
    <3> QED BY <2>2, <2>3, <2>4, <3>6 DEF Newer
  <2>5. CASE id \notin Removable(known)
    BY <2>2, <2>3, <2>5
  <2> QED BY <2>4, <2>5
<1>3. TrainingInv /\ WrittenAsKnown /\ [TrainingNext]_trainingVars =>
        [restarts' # restarts /\ faults = 0 =>
           \A id \in Finished(jobs) :
             \/ jobs'[id] = jobs[id]
             \/ /\ jobs'[id] = NoJob
                /\ Cardinality({other \in Ids : jobs'[other].stamp > jobs[id].stamp}) >= Limit]_trainingVars
  BY <1>2
<1> QED BY <1>1, <1>3, TrainingInvariant, WrittenKept, PTL DEF TrainingSpec, RestartKeepsResults
=============================================================================
